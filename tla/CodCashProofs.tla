--------------------------- MODULE CodCashProofs ---------------------------
(* What CodCash guarantees for every amount, every number of overlapping   *)
(* requests and every number of crashes.                                   *)
EXTENDS CodCash, TLAPS

USE AmountAssumption, OthersAssumption, DeliveriesAssumption, CashCrashAssumption
USE DEF FLAG

----------------------------------------------------------------------------
(* What holds whoever calls.                                               *)

PaidInv == sellerPaid = IF payout = "COMPLETED" THEN 1 ELSE 0

(* Cash is collected in full or not at all, and the rider owes no more for *)
(* the order; admin has received whatever was remitted, and the whole      *)
(* amount before the payment counts as final.                              *)
AmountsInv ==
    /\ codCollectedAmount = IF Has("codMarkedCollected") THEN Amount ELSE 0
    /\ riderCash <= Others + codCollectedAmount
    /\ ~Has("codMarkedCollected") => codRemittedAmount = 0 /\ codPendingAmount = 0
    /\ Has("codCashWithSeller") \/ AdminHasPayment => Has("codMarkedCollected")
    /\ codRemittedAmount <= adminBalance
    /\ AdminHasPayment => codRemittedAmount >= Amount

AnyInv == CashTypeOK /\ PaidInv /\ AmountsInv /\ SettledWhenAdminHasMoney

(* An order that was just placed. *)
LEMMA AnyInit == CashInit => AnyInv
<1> SUFFICES ASSUME CashInit PROVE AnyInv
  OBVIOUS
<1> USE DEF CashInit, Has, AdminHasPayment
<1>1. CashTypeOK BY DEF CashTypeOK
<1>2. PaidInv BY DEF PaidInv
<1>3. AmountsInv BY DEF AmountsInv
<1>4. SettledWhenAdminHasMoney BY DEF SettledWhenAdminHasMoney
<1>5. QED BY <1>1, <1>2, <1>3, <1>4 DEF AnyInv

(* What settling the wallets writes: flags that say nothing about the cash, *)
(* and at most a new payout document.                                      *)
LEMMA SettledFlags ==
  ASSUME AnyInv, SettleWallets
  PROVE  /\ financeFlags' \in SUBSET FLAG
         /\ \A f \in {"codMarkedCollected", "codOnlinePaid", "codCashWithRider",
                     "codCashWithSeller", "codCashRemittedToAdmin",
                     "riderCodEarningCredited"} :
               f \in financeFlags' <=> f \in financeFlags
         /\ SettlementDue => AdminHasPayment
         /\ payout' \in {"none", "PENDING", "COMPLETED"}
         /\ payout' = "COMPLETED" <=> payout = "COMPLETED"
<1>1. financeFlags' = financeFlags \cup {"sellerPayoutHeld",
                                         "deliveredSettlementApplied"}
      \/ financeFlags' = financeFlags \cup {"sellerPayoutQueued",
                                            "deliveredSettlementApplied"}
  BY DEF SettleWallets, Flags
<1>2. payout' = payout \/ (payout = "none" /\ payout' = "PENDING")
  <2>1. CASE returnWindow' = "open"
    BY <2>1 DEF SettleWallets, CreatePendingSellerPayout
  <2>2. CASE returnWindow' # "open"
    <3>1. payout' = IF payout = "none" THEN "PENDING" ELSE payout
      BY <2>2 DEF SettleWallets, CreatePendingSellerPayout
    <3>2. QED BY <3>1
  <2>3. QED BY <2>1, <2>2
<1>3. financeFlags \in SUBSET FLAG /\ payout \in {"none", "PENDING", "COMPLETED"}
  BY DEF AnyInv, CashTypeOK
<1>4. SettlementDue => AdminHasPayment
  BY DEF SettlementDue
<1>5. financeFlags' \in SUBSET FLAG BY <1>1, <1>3
<1>6. QED BY <1>1, <1>2, <1>3, <1>4, <1>5

(* Every step, whoever calls, keeps these facts. *)
LEMMA AnyNext == AnyInv /\ [CashNext]_cashVars => AnyInv'
<1> SUFFICES ASSUME AnyInv, [CashNext]_cashVars PROVE AnyInv'
  OBVIOUS
<1> USE DEF AnyInv, CashTypeOK, PaidInv, AmountsInv, SettledWhenAdminHasMoney,
            Has, AdminHasPayment, Flags, fixed, breakdown, wallets, paying,
            requests, EarningCredited, Debited
<1>1. CASE Deliver
  BY <1>1, SMTT(30) DEF Deliver
<1>2. CASE MarkSelfDeliveryCodCashWithSeller
  <2>1. CASE Has("codCashWithSeller")
    <3>1. UNCHANGED <<financeFlags, sellerCash, breakdown, codCollectMethod>>
      BY <1>2, <2>1 DEF MarkSelfDeliveryCodCashWithSeller
    <3>2. /\ delivering' = "settle"
          /\ UNCHANGED <<fixed, deliveryBoy, status, riderCash, adminBalance,
                         paying, collecting, finalizing, deliveries, crashes>>
      BY <1>2 DEF MarkSelfDeliveryCodCashWithSeller
    <3>3. QED BY <3>1, <3>2
  <2>2. CASE ~Has("codCashWithSeller")
    <3>1. /\ codCollectedAmount' = Amount /\ codPendingAmount' = Amount
          /\ UNCHANGED <<codRemittedAmount, adminBalance, riderCash, payout,
                         sellerPaid>>
      BY <1>2, <2>2 DEF MarkSelfDeliveryCodCashWithSeller
    <3>2. financeFlags' = (financeFlags \ {"codCashWithRider"})
                             \cup ({"codMarkedCollected", "codCashWithSeller"}
                                      \cup EarningCredited)
      BY <1>2, <2>2 DEF MarkSelfDeliveryCodCashWithSeller
    <3>3. CashTypeOK'
      <4>1. sellerCash' \in Nat /\ codCollectMethod' = "cash"
        BY <1>2, <2>2 DEF MarkSelfDeliveryCodCashWithSeller
      <4>2. financeFlags' \in SUBSET FLAG BY <3>2
      <4>3. /\ delivering' = "settle"
            /\ UNCHANGED <<fixed, deliveryBoy, status, riderCash, adminBalance,
                           paying, collecting, finalizing, deliveries, crashes>>
        BY <1>2 DEF MarkSelfDeliveryCodCashWithSeller
      <4>4. QED BY <3>1, <4>1, <4>2, <4>3
    <3>4. AmountsInv' BY <3>1, <3>2
    <3>5. PaidInv' /\ SettledWhenAdminHasMoney' BY <3>1, <3>2
    <3>6. QED BY <3>3, <3>4, <3>5
  <2>3. QED BY <2>1, <2>2
<1>3. CASE SettleDeliveredOrder
  <2>1. CASE SettlementDue
    <3>1. SettleWallets BY <1>3, <2>1 DEF SettleDeliveredOrder
    <3>2. returnWindow' \in {"unset", "open", "over"}
      BY <1>3 DEF SettleDeliveredOrder
    <3>3. UNCHANGED <<codCollectedAmount, codRemittedAmount, codPendingAmount,
                      adminBalance, riderCash, sellerPaid>>
      BY <1>3 DEF SettleDeliveredOrder
    <3>4. PaidInv' /\ AmountsInv' /\ SettledWhenAdminHasMoney'
      BY <2>1, <3>1, <3>3, SettledFlags
    <3>5. CashTypeOK' BY <1>3, <3>1, <3>2, SettledFlags DEF SettleDeliveredOrder
    <3>6. QED BY <3>4, <3>5
  <2>2. CASE ~SettlementDue
    <3>1. UNCHANGED <<financeFlags, payout>>
      BY <1>3, <2>2 DEF SettleDeliveredOrder
    <3>2. /\ delivering' = "idle" /\ returnWindow' \in {"unset", "open", "over"}
          /\ UNCHANGED <<fixed, deliveryBoy, status, codCollectMethod, breakdown,
                         wallets, sellerPaid, collecting, finalizing, deliveries,
                         crashes>>
      BY <1>3 DEF SettleDeliveredOrder
    <3>3. QED BY <3>1, <3>2
  <2>3. QED BY <2>1, <2>2
<1>4. CASE ReturnWindowEnds
  BY <1>4, SMTT(30) DEF ReturnWindowEnds
<1>5. CASE ChooseCodCollectMethod
  BY <1>5, SMTT(30) DEF ChooseCodCollectMethod
<1>6. CASE \E q \in Requests : CheckNotCollected(q)
  BY <1>6, SMTT(30) DEF CheckNotCollected
<1>7. CASE \E q \in Requests : HandleCodOrderFinance(q)
  <2>1. PICK q \in Requests : HandleCodOrderFinance(q) BY <1>7
  <2>2. collecting' \in [Requests -> {"idle", "checked", "collected"}]
    BY <2>1 DEF HandleCodOrderFinance, AlreadyCollected
  <2>3. CASE Has("codMarkedCollected")
    <3>1. UNCHANGED <<deliveryBoy, financeFlags, breakdown, riderCash>>
      BY <2>1, <2>3 DEF HandleCodOrderFinance, AlreadyCollected
    <3>2. UNCHANGED <<fixed, status, codCollectMethod, sellerCash, adminBalance,
                      paying, delivering, finalizing, deliveries, crashes>>
      BY <2>1 DEF HandleCodOrderFinance, AlreadyCollected
    <3>3. QED BY <2>2, <3>1, <3>2
  <2>4. CASE ~Has("codMarkedCollected")
    <3>1. /\ codCollectedAmount' = Amount /\ codPendingAmount' = Amount
          /\ codRemittedAmount' = 0 /\ riderCash' = riderCash + Amount
      BY <2>1, <2>4 DEF HandleCodOrderFinance, AlreadyCollected
    <3>2. financeFlags' = financeFlags \cup {"codMarkedCollected"}
      BY <2>1, <2>4 DEF HandleCodOrderFinance, AlreadyCollected, CollectedFlags
    <3>3. CashTypeOK'
      BY <2>1, <2>2, <2>4, <3>1, <3>2 DEF HandleCodOrderFinance, AlreadyCollected
    <3>4. UNCHANGED <<adminBalance, payout, sellerPaid>>
      BY <2>1 DEF HandleCodOrderFinance, AlreadyCollected
    <3>5. PaidInv' /\ AmountsInv' /\ SettledWhenAdminHasMoney'
      BY <2>4, <3>1, <3>2, <3>4
    <3>6. QED BY <3>3, <3>5
  <2>5. QED BY <2>3, <2>4
<1>8. CASE \E q \in Requests : MarkCodCashCollectedByRider(q)
  BY <1>8, SMTT(30) DEF MarkCodCashCollectedByRider
<1>9. CASE MarkCodOnlinePaid
  <2>1. CASE AdminHasPayment
    <3>1. UNCHANGED <<codCollectMethod, financeFlags, breakdown, adminBalance>>
      BY <1>9, <2>1 DEF MarkCodOnlinePaid
    <3>2. /\ finalizing' = "due"
          /\ UNCHANGED <<fixed, deliveryBoy, status, riderCash, sellerCash,
                         paying, collecting, delivering, deliveries, crashes>>
      BY <1>9 DEF MarkCodOnlinePaid
    <3>3. QED BY <3>1, <3>2
  <2>2. CASE ~AdminHasPayment
    <3>1. /\ codCollectedAmount' = Amount /\ codRemittedAmount' = Amount
          /\ codPendingAmount' = 0 /\ adminBalance' = adminBalance + Amount
          /\ UNCHANGED <<riderCash, payout, sellerPaid>>
      BY <1>9, <2>2 DEF MarkCodOnlinePaid
    <3>2. financeFlags' = financeFlags \cup
             ({"codOnlinePaid", "codMarkedCollected", "codCashRemittedToAdmin"}
                 \cup EarningCredited)
      BY <1>9, <2>2 DEF MarkCodOnlinePaid
    <3>3. CashTypeOK'
      <4>1. codCollectMethod' = "online_qr" BY <1>9, <2>2 DEF MarkCodOnlinePaid
      <4>2. financeFlags' \in SUBSET FLAG BY <3>2
      <4>3. /\ finalizing' = "due"
            /\ UNCHANGED <<fixed, deliveryBoy, status, riderCash, sellerCash,
                           paying, collecting, delivering, deliveries, crashes>>
        BY <1>9 DEF MarkCodOnlinePaid
      <4>4. QED BY <3>1, <4>1, <4>2, <4>3
    <3>4. PaidInv' /\ AmountsInv' /\ SettledWhenAdminHasMoney' BY <3>1, <3>2
    <3>5. QED BY <3>3, <3>4
  <2>3. QED BY <2>1, <2>2
<1>10. CASE HandoffCodCashToSeller
  BY <1>10, SMTT(30) DEF HandoffCodCashToSeller, HandsOver
<1>11. CASE \E n \in 1..Amount : SellerRemitCodCash(n)
  BY <1>11, SMTT(30) DEF SellerRemitCodCash, RemittedFlags
<1>12. CASE \E n \in 1..Amount : ReconcileCodCash(n)
  BY <1>12, SMTT(30) DEF ReconcileCodCash, Outstanding
<1>13. CASE SettleCodWalletsAfterAdminCredit
  <2>1. CASE SettlementDue
    <3>1. SettleWallets BY <1>13, <2>1 DEF SettleCodWalletsAfterAdminCredit
    <3>2. UNCHANGED <<codCollectedAmount, codRemittedAmount, codPendingAmount,
                      adminBalance, riderCash, sellerPaid>>
      BY <1>13 DEF SettleCodWalletsAfterAdminCredit
    <3>3. PaidInv' /\ AmountsInv' /\ SettledWhenAdminHasMoney'
      BY <2>1, <3>1, <3>2, SettledFlags
    <3>4. CashTypeOK'
      BY <1>13, <3>1, SettledFlags DEF SettleCodWalletsAfterAdminCredit
    <3>5. QED BY <3>3, <3>4
  <2>2. CASE ~SettlementDue
    <3>1. UNCHANGED <<financeFlags, payout>>
      BY <1>13, <2>2 DEF SettleCodWalletsAfterAdminCredit
    <3>2. /\ finalizing' = "idle"
          /\ UNCHANGED <<fixed, deliveryBoy, status, codCollectMethod, breakdown,
                         wallets, returnWindow, sellerPaid, collecting,
                         delivering, deliveries, crashes>>
      BY <1>13 DEF SettleCodWalletsAfterAdminCredit
    <3>3. QED BY <3>1, <3>2
  <2>3. QED BY <2>1, <2>2
<1>14. CASE ReleaseHeldSellerPayout
  BY <1>14, SMTT(30) DEF ReleaseHeldSellerPayout, CreatePendingSellerPayout
<1>15. CASE ProcessPayout
  BY <1>15, SMTT(30) DEF ProcessPayout
<1>16. CASE Crash
  <2>1. crashes' \in 0..MaxCrashes BY <1>16 DEF Crash
  <2>2. /\ collecting' \in [Requests -> {"idle", "checked", "collected"}]
        /\ delivering' \in {"idle", "self", "settle"}
        /\ finalizing' \in {"idle", "due"}
    BY <1>16 DEF Crash
  <2>3. QED BY <1>16, <2>1, <2>2 DEF Crash
<1>17. CASE UNCHANGED cashVars
  BY <1>17 DEF cashVars
<1>18. QED
  BY <1>1, <1>2, <1>3, <1>4, <1>5, <1>6, <1>7, <1>8, <1>9, <1>10, <1>11,
     <1>12, <1>13, <1>14, <1>15, <1>16, <1>17
     DEF CashNext

(* The inductive invariant of whatever the API accepts. *)
THEOREM CashInductive == CashSpec => []AnyInv
  BY AnyInit, AnyNext, PTL DEF CashSpec

(* Type correctness. *)
THEOREM CashTypeCorrect == CashSpec => []CashTypeOK
<1>1. AnyInv => CashTypeOK BY DEF AnyInv
<1>2. QED BY <1>1, CashInductive, PTL

(* Release of expired holds, settlement and payout batch together pay the  *)
(* seller at most once, whatever requests arrive.                          *)
THEOREM SellerIsPaidOnce == CashSpec => []SellerPaidOnce
<1>1. AnyInv => SellerPaidOnce BY DEF AnyInv, PaidInv, SellerPaidOnce
<1>2. QED BY <1>1, CashInductive, PTL

(* However many requests overlap, the cash of the order is collected once, *)
(* and the rider owes it at most once.                                     *)
THEOREM CashIsCollectedOnce == CashSpec => []CollectedOnce
<1>1. AnyInv => CollectedOnce BY DEF AnyInv, AmountsInv, CollectedOnce
<1>2. QED BY <1>1, CashInductive, PTL

(* The order is settled only when admin has received its full amount.      *)
THEOREM SettlementWaitsForAdmin == CashSpec => []SettledWhenAdminHasMoney
<1>1. AnyInv => SettledWhenAdminHasMoney BY DEF AnyInv
<1>2. QED BY <1>1, CashInductive, PTL

----------------------------------------------------------------------------
(* What holds if a platform rider delivers or the screens are used.        *)

Orderly == client = "apps" \/ deliveryMode = "platform"

(* Nothing is collected before delivery, and the store marks its own       *)
(* collection before anyone else can.                                      *)
OpenInv ==
    /\ status = "open" => /\ delivering = "idle"
                          /\ ~Has("codMarkedCollected")
                          /\ \A q \in Requests : collecting[q] = "idle"
                          /\ codCollectMethod = "none"
    /\ delivering = "self" => deliveryMode = "self"
    /\ Orderly /\ delivering = "self" => ~Has("codMarkedCollected")
    /\ Orderly => \A q \in Requests :
                     collecting[q] # "idle" => deliveryMode = "platform"
    /\ Orderly => codRemittedAmount + codPendingAmount = codCollectedAmount

OrderlyInv == AnyInv /\ OpenInv

(* Every step keeps the sum of what is remitted and what is pending. *)
LEMMA OrderlyNext == OrderlyInv /\ [CashNext]_cashVars => OpenInv'
<1> SUFFICES ASSUME OrderlyInv, [CashNext]_cashVars PROVE OpenInv'
  OBVIOUS
<1> USE DEF OrderlyInv, OpenInv, Orderly, AnyInv, CashTypeOK, AmountsInv,
            Has, AdminHasPayment, Flags, fixed, breakdown, wallets, paying,
            requests, EarningCredited, Debited, OnScreen, MayOffer
<1>1. CASE Deliver
  BY <1>1, SMTT(30) DEF Deliver
<1>2. CASE MarkSelfDeliveryCodCashWithSeller
  BY <1>2, SMTT(30) DEF MarkSelfDeliveryCodCashWithSeller
<1>3. CASE SettleDeliveredOrder
  BY <1>3, SettledFlags, SMTT(30) DEF SettleDeliveredOrder
<1>4. CASE ReturnWindowEnds
  BY <1>4, SMTT(30) DEF ReturnWindowEnds
<1>5. CASE ChooseCodCollectMethod
  BY <1>5, SMTT(30) DEF ChooseCodCollectMethod
<1>6. CASE \E q \in Requests : CheckNotCollected(q)
  BY <1>6, SMTT(30) DEF CheckNotCollected
<1>7. CASE \E q \in Requests : HandleCodOrderFinance(q)
  <2>1. PICK q \in Requests : HandleCodOrderFinance(q) BY <1>7
  <2>2. /\ collecting[q] = "checked"
        /\ UNCHANGED <<fixed, status, codCollectMethod, delivering>>
    BY <2>1 DEF HandleCodOrderFinance, AlreadyCollected
  <2>3. collecting' = [collecting EXCEPT ![q] = "collected"]
    BY <2>1 DEF HandleCodOrderFinance, AlreadyCollected
  <2>4. CASE Has("codMarkedCollected")
    BY <2>1, <2>2, <2>3, <2>4 DEF HandleCodOrderFinance, AlreadyCollected
  <2>5. CASE ~Has("codMarkedCollected")
    <3>1. /\ codCollectedAmount' = Amount /\ codPendingAmount' = Amount
          /\ codRemittedAmount' = 0
      BY <2>1, <2>5 DEF HandleCodOrderFinance, AlreadyCollected
    <3>2. status = "delivered" BY <2>2
    <3>3. Orderly => delivering # "self" BY <2>2
    <3>4. QED BY <2>2, <2>3, <3>1, <3>2, <3>3
  <2>6. QED BY <2>4, <2>5
<1>8. CASE \E q \in Requests : MarkCodCashCollectedByRider(q)
  BY <1>8, SMTT(30) DEF MarkCodCashCollectedByRider
<1>9. CASE MarkCodOnlinePaid
  BY <1>9, SMTT(30) DEF MarkCodOnlinePaid
<1>10. CASE HandoffCodCashToSeller
  BY <1>10, SMTT(30) DEF HandoffCodCashToSeller, HandsOver
<1>11. CASE \E n \in 1..Amount : SellerRemitCodCash(n)
  BY <1>11, SMTT(30) DEF SellerRemitCodCash, RemittedFlags
<1>12. CASE \E n \in 1..Amount : ReconcileCodCash(n)
  BY <1>12, SMTT(30) DEF ReconcileCodCash, Outstanding
<1>13. CASE SettleCodWalletsAfterAdminCredit
  BY <1>13, SettledFlags, SMTT(30) DEF SettleCodWalletsAfterAdminCredit
<1>14. CASE ReleaseHeldSellerPayout
  BY <1>14, SMTT(30) DEF ReleaseHeldSellerPayout, CreatePendingSellerPayout
<1>15. CASE ProcessPayout
  BY <1>15, SMTT(30) DEF ProcessPayout
<1>16. CASE Crash
  BY <1>16, SMTT(30) DEF Crash
<1>17. CASE UNCHANGED cashVars
  BY <1>17 DEF cashVars
<1>18. QED
  BY <1>1, <1>2, <1>3, <1>4, <1>5, <1>6, <1>7, <1>8, <1>9, <1>10, <1>11,
     <1>12, <1>13, <1>14, <1>15, <1>16, <1>17
     DEF CashNext

(* The same two facts for both groups of invariants together. *)
LEMMA OrderlyInit == CashInit => OrderlyInv
  BY AnyInit DEF CashInit, OrderlyInv, OpenInv, Orderly, Has

LEMMA OrderlyStep == OrderlyInv /\ [CashNext]_cashVars => OrderlyInv'
  BY AnyNext, OrderlyNext DEF OrderlyInv

(* The inductive invariant of orderly use. *)
THEOREM OrderlyInductive == CashSpec => []OrderlyInv
  BY OrderlyInit, OrderlyStep, PTL DEF CashSpec

(* With nothing pending and nothing outstanding no step can move money. *)
LEMMA FinalStep ==
  OrderlyInv /\ [CashNext]_cashVars /\ AdminHasPayment /\ Orderly
      => UNCHANGED wallets
<1> SUFFICES ASSUME OrderlyInv, [CashNext]_cashVars, AdminHasPayment, Orderly
             PROVE  UNCHANGED wallets
  OBVIOUS
<1> USE DEF OrderlyInv, OpenInv, AnyInv, CashTypeOK, AmountsInv, wallets
<1>0. codPendingAmount = 0 /\ Outstanding = 0 /\ Has("codMarkedCollected")
  BY DEF Outstanding
<1>1. CASE Deliver
  BY <1>1, SMTT(30) DEF Deliver
<1>2. CASE MarkSelfDeliveryCodCashWithSeller
  BY <1>2, SMTT(30) DEF MarkSelfDeliveryCodCashWithSeller
<1>3. CASE SettleDeliveredOrder
  BY <1>3, SettledFlags, SMTT(30) DEF SettleDeliveredOrder
<1>4. CASE ReturnWindowEnds
  BY <1>4, SMTT(30) DEF ReturnWindowEnds
<1>5. CASE ChooseCodCollectMethod
  BY <1>5, SMTT(30) DEF ChooseCodCollectMethod
<1>6. CASE \E q \in Requests : CheckNotCollected(q)
  BY <1>6, SMTT(30) DEF CheckNotCollected
<1>7. CASE \E q \in Requests : HandleCodOrderFinance(q)
  BY <1>7, SMTT(30) DEF HandleCodOrderFinance, AlreadyCollected, CollectedFlags
<1>8. CASE \E q \in Requests : MarkCodCashCollectedByRider(q)
  BY <1>8, SMTT(30) DEF MarkCodCashCollectedByRider
<1>9. CASE MarkCodOnlinePaid
  BY <1>9, SMTT(30) DEF MarkCodOnlinePaid
<1>10. CASE HandoffCodCashToSeller
  BY <1>10, SMTT(30) DEF HandoffCodCashToSeller, HandsOver
<1>11. CASE \E n \in 1..Amount : SellerRemitCodCash(n)
  BY <1>11, SMTT(30) DEF SellerRemitCodCash, RemittedFlags
<1>12. CASE \E n \in 1..Amount : ReconcileCodCash(n)
  BY <1>12, SMTT(30) DEF ReconcileCodCash, Outstanding
<1>13. CASE SettleCodWalletsAfterAdminCredit
  BY <1>13, SettledFlags, SMTT(30) DEF SettleCodWalletsAfterAdminCredit
<1>14. CASE ReleaseHeldSellerPayout
  BY <1>14, SMTT(30) DEF ReleaseHeldSellerPayout, CreatePendingSellerPayout
<1>15. CASE ProcessPayout
  BY <1>15, SMTT(30) DEF ProcessPayout
<1>16. CASE Crash
  BY <1>16, SMTT(30) DEF Crash
<1>17. CASE UNCHANGED cashVars
  BY <1>17 DEF cashVars
<1>18. QED
  BY <1>1, <1>2, <1>3, <1>4, <1>5, <1>6, <1>7, <1>8, <1>9, <1>10, <1>11,
     <1>12, <1>13, <1>14, <1>15, <1>16, <1>17
     DEF CashNext

(* Once admin has the payment no wallet moves, whatever requests overlap   *)
(* and wherever a handler dies.                                            *)
THEOREM PaymentStaysFinal == CashSpec => PaymentIsFinal
<1>1. OrderlyInv /\ [CashNext]_cashVars
         => [AdminHasPayment /\ (client = "apps" \/ deliveryMode = "platform")
                 => UNCHANGED wallets]_cashVars
  BY FinalStep DEF Orderly
<1>2. QED BY <1>1, OrderlyInductive, PTL DEF CashSpec, PaymentIsFinal

----------------------------------------------------------------------------
(* Why the seller can be paid before admin has the money.                  *)

(* A payout document stands for money admin has received. *)
PayoutCovered == payout # "none" => AdminHasPayment

(* No step takes a received payment back, and only the release of expired  *)
(* holds opens a payout without looking for one.                           *)
LEMMA PayoutStep ==
  ASSUME AnyInv, [CashNext]_cashVars, PayoutCovered,
         ReleaseHeldSellerPayout => AdminHasPayment
  PROVE  PayoutCovered'
<1> USE DEF AnyInv, CashTypeOK, PayoutCovered, Has, AdminHasPayment, Flags, fixed,
            breakdown, wallets, paying, requests, EarningCredited
<1>1. CASE Deliver \/ ReturnWindowEnds \/ ChooseCodCollectMethod
  BY <1>1 DEF Deliver, ReturnWindowEnds, ChooseCodCollectMethod
<1>2. CASE MarkSelfDeliveryCodCashWithSeller
  BY <1>2 DEF MarkSelfDeliveryCodCashWithSeller
<1>3. CASE SettleDeliveredOrder \/ SettleCodWalletsAfterAdminCredit
  <2>1. CASE SettlementDue
    BY <1>3, <2>1 DEF SettleDeliveredOrder, SettleCodWalletsAfterAdminCredit,
       SettlementDue, SettleWallets, CreatePendingSellerPayout
  <2>2. CASE ~SettlementDue
    BY <1>3, <2>2 DEF SettleDeliveredOrder, SettleCodWalletsAfterAdminCredit
  <2> QED BY <2>1, <2>2
<1>4. CASE \E q \in Requests : \/ CheckNotCollected(q)
                              \/ HandleCodOrderFinance(q)
                              \/ MarkCodCashCollectedByRider(q)
  BY <1>4 DEF CheckNotCollected, HandleCodOrderFinance, MarkCodCashCollectedByRider,
     CollectedFlags
<1>5. CASE MarkCodOnlinePaid \/ HandoffCodCashToSeller
  BY <1>5 DEF MarkCodOnlinePaid, HandoffCodCashToSeller
<1>6. CASE \E n \in 1..Amount : SellerRemitCodCash(n) \/ ReconcileCodCash(n)
  BY <1>6 DEF SellerRemitCodCash, RemittedFlags, ReconcileCodCash
<1>7. CASE ReleaseHeldSellerPayout
  BY <1>7 DEF ReleaseHeldSellerPayout
<1>8. CASE ProcessPayout
  BY <1>8 DEF ProcessPayout
<1>9. CASE Crash
  BY <1>9 DEF Crash
<1>10. CASE UNCHANGED cashVars
  BY <1>10 DEF cashVars
<1> QED
  BY <1>1, <1>2, <1>3, <1>4, <1>5, <1>6, <1>7, <1>8, <1>9, <1>10 DEF CashNext

(* If the release of expired holds asked whether admin has the payment, no *)
(* seller would be paid before: it is the only way to an early payout,     *)
(* whatever requests, batches and crashes come together.                   *)
THEOREM OnlyReleasePaysEarly ==
  CashSpec /\ [][ReleaseHeldSellerPayout => AdminHasPayment]_cashVars
      => []SellerPaidAfterAdmin
<1>1. CashInit => PayoutCovered
  BY DEF CashInit, PayoutCovered
<1>2. AnyInv /\ PayoutCovered /\ [CashNext]_cashVars
      /\ [ReleaseHeldSellerPayout => AdminHasPayment]_cashVars => PayoutCovered'
  <2> SUFFICES ASSUME AnyInv, PayoutCovered, [CashNext]_cashVars,
                      [ReleaseHeldSellerPayout => AdminHasPayment]_cashVars
               PROVE  PayoutCovered'
    OBVIOUS
  <2>1. CASE UNCHANGED cashVars
    BY <2>1 DEF cashVars, PayoutCovered, AdminHasPayment, Has, paying
  <2>2. CASE ReleaseHeldSellerPayout => AdminHasPayment
    BY <2>2, PayoutStep
  <2> QED BY <2>1, <2>2
<1>3. AnyInv /\ PayoutCovered => SellerPaidAfterAdmin
  BY DEF AnyInv, PaidInv, PayoutCovered, SellerPaidAfterAdmin
<1> QED BY <1>1, <1>2, <1>3, CashInductive, PTL DEF CashSpec

----------------------------------------------------------------------------
(* What holds if the requests come from the screens.                       *)

ScreenInv == client = "apps" =>
    /\ deliveryBoy = "rider" <=> deliveryMode = "platform"
    /\ \A p, q \in Requests :
          collecting[p] # "idle" /\ collecting[q] # "idle" => p = q
    /\ \A q \in Requests : collecting[q] # "idle" =>
          /\ deliveryMode = "platform" /\ codCollectMethod = "cash"
          /\ ~Has("codCashWithRider") /\ ~Has("codCashWithSeller")
          /\ ~AdminHasPayment
          /\ Has("codMarkedCollected") <=> collecting[q] = "collected"
    /\ Has("codCashWithRider") => HeldByRider
    /\ Has("codCashWithSeller") => ~AdminHasPayment
    /\ deliveryMode = "self" => ~HeldByRider
    /\ codCollectMethod = "none" => ~Has("codMarkedCollected")
    /\ codCollectMethod = "online_qr" /\ Has("codMarkedCollected")
          => AdminHasPayment
    /\ crashes = 0 /\ HeldByRider =>
          \/ Has("codCashWithRider")
          \/ \E q \in Requests : collecting[q] = "collected"

CustodyInv == OrderlyInv /\ ScreenInv

(* The screens never let two collections, or a collection and a QR        *)
(* payment, run at once.                                                   *)
LEMMA ScreenNext == CustodyInv /\ [CashNext]_cashVars => ScreenInv'
<1> SUFFICES ASSUME CustodyInv, [CashNext]_cashVars PROVE ScreenInv'
  OBVIOUS
<1> USE DEF CustodyInv, ScreenInv, OrderlyInv, OpenInv, Orderly, AnyInv,
            CashTypeOK, AmountsInv, HeldByRider, codBusy,
            Has, AdminHasPayment, Flags, fixed, breakdown, wallets, paying,
            requests, EarningCredited, Debited, OnScreen, MayOffer
<1>1. CASE Deliver
  BY <1>1, SMTT(30) DEF Deliver
<1>2. CASE MarkSelfDeliveryCodCashWithSeller
  BY <1>2, SMTT(30) DEF MarkSelfDeliveryCodCashWithSeller
<1>3. CASE SettleDeliveredOrder
  BY <1>3, SettledFlags, SMTT(30) DEF SettleDeliveredOrder
<1>4. CASE ReturnWindowEnds
  BY <1>4, SMTT(30) DEF ReturnWindowEnds
<1>5. CASE ChooseCodCollectMethod
  BY <1>5, SMTT(30) DEF ChooseCodCollectMethod
<1>6. CASE \E q \in Requests : CheckNotCollected(q)
  BY <1>6, SMTT(30) DEF CheckNotCollected
<1>7. CASE \E q \in Requests : HandleCodOrderFinance(q)
  BY <1>7, SMTT(30) DEF HandleCodOrderFinance, AlreadyCollected, CollectedFlags
<1>8. CASE \E q \in Requests : MarkCodCashCollectedByRider(q)
  BY <1>8, SMTT(30) DEF MarkCodCashCollectedByRider
<1>9. CASE MarkCodOnlinePaid
  BY <1>9, SMTT(30) DEF MarkCodOnlinePaid
<1>10. CASE HandoffCodCashToSeller
  BY <1>10, SMTT(30) DEF HandoffCodCashToSeller, HandsOver
<1>11. CASE \E n \in 1..Amount : SellerRemitCodCash(n)
  BY <1>11, SMTT(30) DEF SellerRemitCodCash, RemittedFlags
<1>12. CASE \E n \in 1..Amount : ReconcileCodCash(n)
  BY <1>12, SMTT(30) DEF ReconcileCodCash, Outstanding
<1>13. CASE SettleCodWalletsAfterAdminCredit
  BY <1>13, SettledFlags, SMTT(30) DEF SettleCodWalletsAfterAdminCredit
<1>14. CASE ReleaseHeldSellerPayout
  BY <1>14, SMTT(30) DEF ReleaseHeldSellerPayout, CreatePendingSellerPayout
<1>15. CASE ProcessPayout
  BY <1>15, SMTT(30) DEF ProcessPayout
<1>16. CASE Crash
  BY <1>16, SMTT(30) DEF Crash
<1>17. CASE UNCHANGED cashVars
  BY <1>17 DEF cashVars
<1>18. QED
  BY <1>1, <1>2, <1>3, <1>4, <1>5, <1>6, <1>7, <1>8, <1>9, <1>10, <1>11,
     <1>12, <1>13, <1>14, <1>15, <1>16, <1>17
     DEF CashNext

BalancesInv == CashAccounted /\ EarningFollowsCash

(* With a single holder of the cash, every transfer keeps the books even. *)
LEMMA BalancesNext ==
  CustodyInv /\ BalancesInv /\ [CashNext]_cashVars => BalancesInv'
<1> SUFFICES ASSUME CustodyInv, BalancesInv, [CashNext]_cashVars
             PROVE  BalancesInv'
  OBVIOUS
<1> USE DEF BalancesInv, CashAccounted, EarningFollowsCash,
            CustodyInv, ScreenInv, OrderlyInv, OpenInv, Orderly, AnyInv,
            CashTypeOK, AmountsInv, HeldByRider, codBusy,
            Has, AdminHasPayment, Flags, fixed, breakdown, wallets, paying,
            requests, EarningCredited, Debited, OnScreen, MayOffer
<1>1. CASE Deliver
  BY <1>1, SMTT(30) DEF Deliver
<1>2. CASE MarkSelfDeliveryCodCashWithSeller
  BY <1>2, SMTT(30) DEF MarkSelfDeliveryCodCashWithSeller
<1>3. CASE SettleDeliveredOrder
  BY <1>3, SettledFlags, SMTT(30) DEF SettleDeliveredOrder
<1>4. CASE ReturnWindowEnds
  BY <1>4, SMTT(30) DEF ReturnWindowEnds
<1>5. CASE ChooseCodCollectMethod
  BY <1>5, SMTT(30) DEF ChooseCodCollectMethod
<1>6. CASE \E q \in Requests : CheckNotCollected(q)
  BY <1>6, SMTT(30) DEF CheckNotCollected
<1>7. CASE \E q \in Requests : HandleCodOrderFinance(q)
  BY <1>7, SMTT(30) DEF HandleCodOrderFinance, AlreadyCollected, CollectedFlags
<1>8. CASE \E q \in Requests : MarkCodCashCollectedByRider(q)
  BY <1>8, SMTT(30) DEF MarkCodCashCollectedByRider
<1>9. CASE MarkCodOnlinePaid
  BY <1>9, SMTT(30) DEF MarkCodOnlinePaid
<1>10. CASE HandoffCodCashToSeller
  BY <1>10, SMTT(30) DEF HandoffCodCashToSeller, HandsOver
<1>11. CASE \E n \in 1..Amount : SellerRemitCodCash(n)
  BY <1>11, SMTT(30) DEF SellerRemitCodCash, RemittedFlags
<1>12. CASE \E n \in 1..Amount : ReconcileCodCash(n)
  BY <1>12, SMTT(30) DEF ReconcileCodCash, Outstanding
<1>13. CASE SettleCodWalletsAfterAdminCredit
  BY <1>13, SettledFlags, SMTT(30) DEF SettleCodWalletsAfterAdminCredit
<1>14. CASE ReleaseHeldSellerPayout
  BY <1>14, SMTT(30) DEF ReleaseHeldSellerPayout, CreatePendingSellerPayout
<1>15. CASE ProcessPayout
  BY <1>15, SMTT(30) DEF ProcessPayout
<1>16. CASE Crash
  BY <1>16, SMTT(30) DEF Crash
<1>17. CASE UNCHANGED cashVars
  BY <1>17 DEF cashVars
<1>18. QED
  BY <1>1, <1>2, <1>3, <1>4, <1>5, <1>6, <1>7, <1>8, <1>9, <1>10, <1>11,
     <1>12, <1>13, <1>14, <1>15, <1>16, <1>17
     DEF CashNext

(* The books of an order that was just placed are even. *)
LEMMA CustodyInit == CashInit => ScreenInv /\ BalancesInv
  BY DEF CashInit, ScreenInv, BalancesInv, CashAccounted, EarningFollowsCash,
         HeldByRider, AdminHasPayment, Has

(* The inductive invariant of use from the screens. *)
THEOREM CustodyInductive == CashSpec => [](CustodyInv /\ BalancesInv)
<1>1. CashInit => CustodyInv /\ BalancesInv
  BY CustodyInit, OrderlyInit DEF CustodyInv
<1>2. CustodyInv /\ BalancesInv /\ [CashNext]_cashVars
         => (CustodyInv /\ BalancesInv)'
  BY OrderlyStep, ScreenNext, BalancesNext DEF CustodyInv
<1>3. QED BY <1>1, <1>2, PTL DEF CashSpec

(* Every rupee is accounted for: the wallets of rider, seller and admin    *)
(* agree with the amounts on the order.                                    *)
THEOREM CashIsAccounted == CashSpec => []CashAccounted
<1>1. BalancesInv => CashAccounted BY DEF BalancesInv
<1>2. QED BY <1>1, CustodyInductive, PTL

(* The rider's earning is credited exactly when the cash has left him.     *)
THEOREM EarningIsTimely == CashSpec => []EarningFollowsCash
<1>1. BalancesInv => EarningFollowsCash BY DEF BalancesInv
<1>2. QED BY <1>1, CustodyInductive, PTL

(* Cash is never stuck between two holders unless a handler died.          *)
THEOREM CashIsNeverStuck == CashSpec => []CashMovesOn
<1>1. CustodyInv => CashMovesOn
  <2> SUFFICES ASSUME CustodyInv, client = "apps", crashes = 0, ~codBusy,
                      codPendingAmount > 0
               PROVE  Has("codCashWithRider") \/ Has("codCashWithSeller")
    BY DEF CashMovesOn
  <2> USE DEF CustodyInv, OrderlyInv, OpenInv, Orderly, AnyInv, AmountsInv,
              CashTypeOK
  <2>1. Has("codMarkedCollected") BY SMT
  <2>2. ~AdminHasPayment BY <2>1, SMT
  <2>3. \A q \in Requests : collecting[q] = "idle" BY DEF codBusy
  <2>4. QED BY <2>1, <2>2, <2>3 DEF ScreenInv, HeldByRider
<1>2. QED BY <1>1, CustodyInductive, PTL
----------------------------------------------------------------------------
(* The contract of the cash: CodCash implements CashContract.              *)

(* The rider hands on all of it or nothing: only a store has remitted      *)
(* parts, and a store never gives it back.                                 *)
WholeInv == client = "apps" /\ HeldByRider =>
    codRemittedAmount = 0 /\ codPendingAmount = Amount

AccountedInv == CustodyInv /\ BalancesInv /\ WholeInv

(* What a step of the finance service is to the holders of the cash. *)
Passes == Custody!CustodyNext \/ UNCHANGED Custody!custodyVars

(* No step splits what the rider holds. *)
LEMMA WholeNext ==
  AccountedInv /\ [CashNext]_cashVars => WholeInv'
<1> SUFFICES ASSUME AccountedInv, [CashNext]_cashVars
             PROVE  WholeInv'
  OBVIOUS
<1> USE DEF AccountedInv, WholeInv
<1> USE DEF BalancesInv, CashAccounted, EarningFollowsCash,
            CustodyInv, ScreenInv, OrderlyInv, OpenInv, Orderly, AnyInv,
            CashTypeOK, AmountsInv, HeldByRider, codBusy,
            Has, AdminHasPayment, Flags, fixed, breakdown, wallets, paying,
            requests, EarningCredited, Debited, OnScreen, MayOffer
<1>1. CASE Deliver
  BY <1>1, SMTT(30) DEF Deliver
<1>2. CASE MarkSelfDeliveryCodCashWithSeller
  BY <1>2, SMTT(30) DEF MarkSelfDeliveryCodCashWithSeller
<1>3. CASE SettleDeliveredOrder
  BY <1>3, SettledFlags, SMTT(30) DEF SettleDeliveredOrder
<1>4. CASE ReturnWindowEnds
  BY <1>4, SMTT(30) DEF ReturnWindowEnds
<1>5. CASE ChooseCodCollectMethod
  BY <1>5, SMTT(30) DEF ChooseCodCollectMethod
<1>6. CASE \E q \in Requests : CheckNotCollected(q)
  BY <1>6, SMTT(30) DEF CheckNotCollected
<1>7. CASE \E q \in Requests : HandleCodOrderFinance(q)
  BY <1>7, SMTT(30) DEF HandleCodOrderFinance, AlreadyCollected, CollectedFlags
<1>8. CASE \E q \in Requests : MarkCodCashCollectedByRider(q)
  BY <1>8, SMTT(30) DEF MarkCodCashCollectedByRider
<1>9. CASE MarkCodOnlinePaid
  BY <1>9, SMTT(30) DEF MarkCodOnlinePaid
<1>10. CASE HandoffCodCashToSeller
  BY <1>10, SMTT(30) DEF HandoffCodCashToSeller, HandsOver
<1>11. CASE \E n \in 1..Amount : SellerRemitCodCash(n)
  BY <1>11, SMTT(30) DEF SellerRemitCodCash, RemittedFlags
<1>12. CASE \E n \in 1..Amount : ReconcileCodCash(n)
  BY <1>12, SMTT(30) DEF ReconcileCodCash, Outstanding
<1>13. CASE SettleCodWalletsAfterAdminCredit
  BY <1>13, SettledFlags, SMTT(30) DEF SettleCodWalletsAfterAdminCredit
<1>14. CASE ReleaseHeldSellerPayout
  BY <1>14, SMTT(30) DEF ReleaseHeldSellerPayout, CreatePendingSellerPayout
<1>15. CASE ProcessPayout
  BY <1>15, SMTT(30) DEF ProcessPayout
<1>16. CASE Crash
  BY <1>16, SMTT(30) DEF Crash
<1>17. CASE UNCHANGED cashVars
  BY <1>17, SMTT(30) DEF cashVars
<1>18. QED
  BY <1>1, <1>2, <1>3, <1>4, <1>5, <1>6, <1>7, <1>8, <1>9, <1>10, <1>11,
     <1>12, <1>13, <1>14, <1>15, <1>16, <1>17
     DEF CashNext

(* A step of another client is no step of the contract. *)
LEMMA OthersAreFrozen ==
  ASSUME client # "apps", [CashNext]_cashVars
  PROVE  UNCHANGED Custody!custodyVars
<1>1. UNCHANGED fixed
  BY DEF CashNext, cashVars, Deliver, MarkSelfDeliveryCodCashWithSeller,
         SettleDeliveredOrder, ReturnWindowEnds, ChooseCodCollectMethod,
         CheckNotCollected, HandleCodOrderFinance, MarkCodCashCollectedByRider,
         MarkCodOnlinePaid, HandoffCodCashToSeller, SellerRemitCodCash,
         ReconcileCodCash, SettleCodWalletsAfterAdminCredit,
         ReleaseHeldSellerPayout, ProcessPayout, Crash
<1>2. QED BY <1>1 DEF fixed, Custody!custodyVars, FromScreens

(* Settling the wallets is the contract's settlement, once admin has it    *)
(* all.                                                                    *)
LEMMA SettlingPasses ==
  ASSUME AccountedInv, client = "apps", UNCHANGED <<fixed, breakdown, wallets>>,
         IF SettlementDue THEN SettleWallets ELSE UNCHANGED <<financeFlags, payout>>
  PROVE  Passes
<1> USE DEF Passes, fixed, breakdown, wallets, FromScreens, Custody!custodyVars
<1>1. CASE SettlementDue
  <2>1. adminBalance = Amount
    BY <1>1 DEF SettlementDue, AdminHasPayment, Has, AccountedInv, CustodyInv,
                OrderlyInv, OpenInv, Orderly, AnyInv, AmountsInv, CashTypeOK,
                BalancesInv, CashAccounted
  <2>2. Has("deliveredSettlementApplied")'
    BY <1>1 DEF SettleWallets, Flags, Has
  <2>3. ~Has("deliveredSettlementApplied")
    BY <1>1 DEF SettlementDue
  <2>4. Has("riderCodEarningCredited")' <=> Has("riderCodEarningCredited")
    BY <1>1, SettledFlags DEF AccountedInv, CustodyInv, OrderlyInv, Has
  <2>5. Custody!Settle
    BY <2>1, <2>2, <2>3, <2>4 DEF Custody!Settle, Has
  <2>6. QED BY <2>5 DEF Custody!CustodyNext
<1>2. CASE ~SettlementDue
  BY <1>2 DEF Has
<1>3. QED BY <1>1, <1>2

(* From the screens, every transaction is one step of the cash or none.    *)
LEMMA CustodyStep ==
  AccountedInv /\ [CashNext]_cashVars => Passes
<1> SUFFICES ASSUME AccountedInv, [CashNext]_cashVars, client = "apps"
             PROVE  Passes
  BY OthersAreFrozen DEF Passes
<1> USE DEF AccountedInv, WholeInv, Passes, FromScreens, Custody!custodyVars,
            Custody!CustodyNext, Custody!RiderCollects, Custody!StoreCollects,
            Custody!CustomerScans, Custody!HandOver, Custody!Remit,
            Custody!Settle
<1> USE DEF BalancesInv, CashAccounted, EarningFollowsCash,
            CustodyInv, ScreenInv, OrderlyInv, OpenInv, Orderly, AnyInv,
            CashTypeOK, AmountsInv, HeldByRider, codBusy,
            Has, AdminHasPayment, Flags, fixed, breakdown, wallets, paying,
            requests, EarningCredited, Debited, OnScreen, MayOffer
<1>1. CASE Deliver
  BY <1>1, SMTT(30) DEF Deliver
<1>2. CASE MarkSelfDeliveryCodCashWithSeller
  BY <1>2, SMTT(30) DEF MarkSelfDeliveryCodCashWithSeller
<1>3. CASE SettleDeliveredOrder
  BY <1>3, SettlingPasses DEF SettleDeliveredOrder
<1>4. CASE ReturnWindowEnds
  BY <1>4, SMTT(30) DEF ReturnWindowEnds
<1>5. CASE ChooseCodCollectMethod
  BY <1>5, SMTT(30) DEF ChooseCodCollectMethod
<1>6. CASE \E q \in Requests : CheckNotCollected(q)
  BY <1>6, SMTT(30) DEF CheckNotCollected
<1>7. CASE \E q \in Requests : HandleCodOrderFinance(q)
  BY <1>7, SMTT(30) DEF HandleCodOrderFinance, AlreadyCollected, CollectedFlags
<1>8. CASE \E q \in Requests : MarkCodCashCollectedByRider(q)
  BY <1>8, SMTT(30) DEF MarkCodCashCollectedByRider
<1>9. CASE MarkCodOnlinePaid
  BY <1>9, SMTT(30) DEF MarkCodOnlinePaid
<1>10. CASE HandoffCodCashToSeller
  BY <1>10, SMTT(30) DEF HandoffCodCashToSeller, HandsOver
<1>11. CASE \E n \in 1..Amount : SellerRemitCodCash(n)
  BY <1>11, SMTT(30) DEF SellerRemitCodCash, RemittedFlags
<1>12. CASE \E n \in 1..Amount : ReconcileCodCash(n)
  BY <1>12, SMTT(30) DEF ReconcileCodCash, Outstanding
<1>13. CASE SettleCodWalletsAfterAdminCredit
  BY <1>13, SettlingPasses DEF SettleCodWalletsAfterAdminCredit
<1>14. CASE ReleaseHeldSellerPayout
  BY <1>14, SMTT(30) DEF ReleaseHeldSellerPayout, CreatePendingSellerPayout
<1>15. CASE ProcessPayout
  BY <1>15, SMTT(30) DEF ProcessPayout
<1>16. CASE Crash
  BY <1>16, SMTT(30) DEF Crash
<1>17. CASE UNCHANGED cashVars
  BY <1>17, SMTT(30) DEF cashVars
<1>18. QED
  BY <1>1, <1>2, <1>3, <1>4, <1>5, <1>6, <1>7, <1>8, <1>9, <1>10, <1>11,
     <1>12, <1>13, <1>14, <1>15, <1>16, <1>17
     DEF CashNext

(* Used from the screens, the cash of an order takes the way the contract  *)
(* allows: every part of it with one holder, towards admin only, the       *)
(* rider's earning and the settlement each at their own step.              *)
THEOREM CashContractHolds == CashSpec => CashKept
<1>1. CashInit => Custody!CustodyInit /\ AccountedInv
  <2>1. CashInit => Custody!CustodyInit
    BY DEF CashInit, Custody!CustodyInit, FromScreens, Has
  <2>2. CashInit => WholeInv
    BY DEF CashInit, WholeInv, HeldByRider, Has
  <2>3. QED BY <2>1, <2>2, CustodyInit, OrderlyInit DEF AccountedInv, CustodyInv
<1>2. AccountedInv /\ [CashNext]_cashVars => AccountedInv'
  BY OrderlyStep, ScreenNext, BalancesNext, WholeNext
     DEF AccountedInv, CustodyInv
<1>3. AccountedInv /\ [CashNext]_cashVars
         => [Custody!CustodyNext]_Custody!custodyVars
  BY CustodyStep DEF Passes
<1>4. QED BY <1>1, <1>2, <1>3, PTL DEF CashSpec, CashKept, Custody!CustodySpec
============================================================================
