# Verification of the seva_fast order system

This directory holds TLA+ models of the backend in `src/backend` (Node.js,
Express, MongoDB, Redis/Bull), the TLC configurations that check them on small
instances, and TLAPS proofs of their main properties for all instances. The
subject is what happens to one order: who moves it, whose goods, money and cash
it carries, and what survives concurrency, retries and crashes.

Contents: [inventory](#1-inventory) - [plan](#2-plan) -
[the models](#3-the-models-and-the-code) - [runs](#4-the-runs) -
[fairness](#5-fairness) - [proofs](#6-proofs) -
[where code and comments disagree](#7-where-code-and-comments-disagree) -
[what is not modelled](#8-what-is-not-modelled-and-why).
`PROJECT.json` lists the same things for tools: components, runs, mutants, the
source lines of every definition, findings, hazards and theorems.

## 1. Inventory

Paths are below `src/backend/app` unless they say otherwise. Three kinds of
process share one MongoDB: API servers, Bull workers (`worker.js`) and a scheduler
(`scheduler.js`, `services/distributedScheduler.js`).

### Order workflow (v2) - `services/orderWorkflowService.js`, `services/orderCompensation.js`

*State*: `order.workflowStatus`, the legacy `order.status`, `deliveryBoy`,
`skippedBy`, `deliverySearchMeta.attempt`, deadlines, alerts, the handoff OTP document.
*Operations*: `afterPlaceOrderV2`, `sellerAcceptAtomic`, `sellerRejectAtomic`,
`customerCancelV2`, `deliveryAcceptAtomic`, `markArrivedAtStoreAtomic`,
`confirmPickupAtomic`, `requestHandoffOtpAtomic`, `verifyHandoffOtpAndDeliver`,
`processSellerTimeoutJob`, `processDeliveryTimeoutJob`, `compensateOrderCancellation`.
*Interacts with* payment (which opens the order to its seller), stock and finance
(compensation), the queues, settlement (after delivery).
*Hard*: every status change is a guarded `findOneAndUpdate`, but everything after it
(jobs, compensation, settlement) runs later in the same handler, without a
transaction and with no journal; several actors race for the same transition.
*Correct when* goods go back once, one rider claims and delivers, money is refunded
only when due, the order is settled once, late sellers and failed searches are
raised.

### Order status API - `controller/orderController.js` (`updateOrderStatus`, `skipOrder`)

*State*: the same order, moved by document `save()` instead of guarded updates; it
also assigns riders, restocks and settles.
*Hard*: read - check - `save()` without an atomic test; a second table from legacy to
workflow status that is not the inverse of the first.
*Correct when* a finished order is never revived, the status never goes back, and
restocking and settlement are not doubled with those of the workflow.

### Timeout queues and sweep - `queues/orderQueueProcessors.js`, `jobs/orderAutoCancelJob.js`

*State*: Bull jobs per order and attempt; deadlines on the order.
*Hard*: queue calls are wrapped in a timeout and may be lost; the sweep and a worker
process the same timeout at once; a job may fire for an order that has moved on.

### Stock reservation - `services/stockService.js`

*State*: `product.stock`, `order.stockReservation.status` (RESERVED, COMMITTED,
RELEASED). *Hard*: released inside two transactions of the payment code, and in
compensation item by item before RELEASED is saved.

### Online payment - `services/paymentService.js`

*State*: payment and refund documents, webhook events, `order.paymentStatus`.
*Operations*: initiation for a checkout group, webhooks, status polls, abandonment,
refunds. *Hard*: gateway answers arrive late, twice or never; a poll's answer is
written without testing what is there; the orders of a group are booked one by one; group
and order refunds share one document. *Correct when* each order is credited once and only for
money that was paid, a paid group is booked entirely, no order is offered unpaid, only a cancelled
order is refunded, once, and a recorded refund was made.

### Order finance and COD cash custody - `services/finance/orderFinanceService.js`, `walletService.js`

*State*: `financeFlags`, `paymentBreakdown.cod*Amount`, `cashInHand` of rider and
seller, admin wallet, ledger. *Operations*: capture, refund, choose collect method,
mark collected, QR paid, hand-over to seller, remittance, reconciliation.
*Hard*: long legal call sequences by rider, seller and admin over flags and amounts that must agree; one
operation is two transactions. *Correct when* every rupee has exactly one holder, the rider's
earning follows the cash, and nothing moves once admin is paid.

### Settlement and payouts - `services/orderSettlement.js`, `services/finance/payoutService.js`, `jobs/returnWindowReleaseJob.js`

*State*: payout documents, holds, `settlementStatus`, commissions, cashback.
*Hard*: settlement, release of holds, payout batch and self-heals each look and act.
*Correct when* each beneficiary is paid once, and only when due.

### Returns - `controller/orderController.js` (return endpoints), `controller/orderWorkflowController.js`

*State*: `returnStatus`, photos, rider, return OTPs, the courier's reverse pickup, wallet
credit and `Transaction`s of the refund, the seller's held payout.
*Operations*: request, approve, reject, assign, self-collect, confirm receipt, accept and reject a pickup, proof,
the two OTPs, quality check with refund, status update, courier webhook.
*Hard*: read - check - save, eight writes of a refund without a transaction, and the race
with the release of the seller's hold. *Correct when* a refund is documented, customer and seller are
each charged or credited once, and a closed return stays closed.

### Order placement and idempotency - `services/orderPlacementService.js`, `services/idempotencyService.js`

*State*: the key's lock, stored result and stored error in Redis; group, orders, stock, wallet and cart in one
MongoDB transaction. *Hard*: two requests with one key, or without one; a lock that expires under its
request and is dropped without a look at its owner; a TTL index that lies on the order itself.
*Correct when* a checkout is placed once and paid for.

### Distributed scheduler - `services/distributedScheduler.js`

*State*: a Redis lock per job. *Hard*: a job that outlives its lock.

### Notifications - `modules/notifications`

*State*: dedupe keys, preferences, tokens; delivery itself is I/O.

### The rest

Legacy delivery OTP (`services/deliveryOtpService.js`), Shiprocket shipments, pricing and
commissions, authentication, catalogue and search, plans and campaigns, chatbot, and
the frontend applications. They are listed in `PROJECT.json` with the reason they are
not modelled (mostly request-local or I/O). `services/orderStateMachine.js` is
imported by nothing. `src/archive` holds old scripts and documents.

## 2. Plan

In this order; all but the last item are done.

1. `OrderContract` - what an order promises - and `OrderWorkflow`, which implements it;
   `OrderWorkflowProofs`, `OrderProgressProofs` for what must happen, `OrderSearchProofs` for the search.
2. `OrderStatusApi`, which EXTENDS `OrderWorkflow` by the other writer of the same order;
   `OrderStatusApiProofs`.
3. `CashContract` - the way the cash may take - and `CodCash`, the cash of one delivered order, which implements it
   for the screens; `CodCashProofs`.
4. `CheckoutContract` - what a checkout promises about its money - and `Payment`, which implements
   it: payment documents, gateway, webhooks, polls and refunds of a group of orders; `PaymentProofs`.
5. `SellerPayout`, the seller's held payout, `ReturnContract` - the life of a return - and `Returns`, which EXTENDS
   the one by the return of the order and implements the other for the screens; `ReturnsProofs`.
6. `PlacementContract` - checkouts placed one at a time - and `Placement` - key, lock, transaction -, which implements
   it; `PlacementProofs`.
7. Left: orders with several riders' capacities, cashback and level commissions of a settled order, the forward
   shipment.

Modules are written to be proved about: constants with named assumptions, one action
per operation, no RECURSIVE operator.

## 3. The models and the code

| module | models | lines |
|---|---|---|
| `OrderContract` | abstract: phase, rider, goods returned | - |
| `OrderWorkflow` | one v2 order: placement to settlement or compensation | `orderWorkflowService.js` and what it calls |
| `OrderStatusApi` | status requests beside the workflow | `orderController.js:978-1447` |
| `CashContract` | abstract: who has how much of the cash, earning and settlement | - |
| `CodCash` | cash of one delivered COD order | `orderFinanceService.js:885-1261, 1456-1993`, `:219-341` |
| `CheckoutContract` | abstract: phase and money of each order of a checkout | - |
| `Payment` | online payment of one checkout group | `paymentService.js`, refund and capture in `orderFinanceService.js` |
| `SellerPayout` | held payout of one prepaid order | `orderFinanceService.js:257-341`, `payoutService.js` |
| `ReturnContract` | abstract: phase of a return, refunds and charges | - |
| `Returns` | return of one delivered order, with its payout | return handlers of `orderController.js`, `orderWorkflowController.js`, `shippingWebhookController.js`, `shipmentService.js` |
| `PlacementContract` | abstract: checkouts, stock and wallet, each checkout in one step | - |
| `Placement` | placing one checkout, with retries | `orderPlacementService.js`, `idempotencyService.js` |
| `MC*` | values for the constants | - |
| `OrderWorkflowProofs`, `OrderProgressProofs`, `OrderSearchProofs`, `OrderStatusApiProofs`, `CodCashProofs`, `PaymentProofs`, `ReturnsProofs`, `PlacementProofs` | theorems | - |

### What is one action

MongoDB makes one `findOneAndUpdate`, one `save()` and one transaction atomic; the
models do the same and nothing more. A handler that writes twice is two actions
joined by an entry of `inFlight`, `compensation`, `verifying`, `collecting`,
`delivering` or `finalizing`, so that any other handler, the workers, the sweep and a crash come
in between. A read whose conditions the following guarded update tests again is
part of that update; a read that is trusted later (`PollRead`, `ReadDeliveryTimeout`,
`VerifyOtp`, `ReadOrder`, `CheckNotCollected`) is an action of its own. `Crash` ends any
in-flight handler at any point; nothing in the code resumes one.

### OrderWorkflow

`workflowStatus`, `status`, `paymentStatus`, `financeFlags`, `stockReservation`, `deliveryBoy`,
`skippedBy` are the fields of the order. `restocked` and `settlements` count effects outside the
order (items incremented, settlement entered). `expired` replaces the clock: a
window passes at any time after it opened. `sellerJob` and `deliveryJobs` are the Bull jobs, which
may be lost when they are added (`SellerAcceptJobs`, `AfterPlaceOrder`).

Actions follow the functions: `SellerAccept` + `SellerAcceptJobs` (`sellerAcceptAtomic`), `SellerReject`,
`CustomerCancel`, `DeliveryAccept` + `DeliveryAcceptJobs`, `MarkArrivedAtStore`,
`ConfirmPickup`, `RequestHandoffOtp`, `VerifyOtp` - `ConsumeOtp` - `FinalizeDelivery` -
`ApplyDeliveredSettlement` (`verifyHandoffOtpAndDeliver`), `ReadDeliveryTimeout` -
`FinishDeliveryTimeout` run by either timeout worker, `ReleaseReservedStock` - `SaveRelease` - `ReverseOrderFinance`
(compensation), `HandleOnlineOrderFinance` - `MoveOrderToSellerPending` (capture),
`PollRead` - `PollWrite`, `PaymentFailed`, `CancelOnlinePaymentAttempt`, `PaymentTimeoutSweep`.

Abstracted: one order with one item; the assignment document, `cancelledBy`, UI steps and
events; OTP digits, attempts and rate limits (an OTP matches or the request ends); the wallet part of a
payment; deleting and creating an OTP document is one action; Bull runs one job at a
time and one sweep runs at a time, as configured. what becomes of
the payment documents behind `paymentStatus` is `Payment`'s subject.

### OrderStatusApi

A request reads the order (`ReadOrder`: the checks `NotRevived`, `NotBackwards`, `MayAsk`,
`Assignable` on what it read), then performs its plan of saves, restocking and
settlement. A `save()` writes only the paths that were changed, to whatever the order
now is. Mongoose's version check does not help, because `findOneAndUpdate` does not raise
the version. With `Overlap = FALSE` nothing happens between a read and its last step: this is the
reading under which the checks of the code are meant.
Abstracted: rider and seller's own person are not asked for in the same request; verification, online
state and capacity of a rider are refusals; the deadline the assignment writes; a request does not die
half-way (section 7 says what is left behind if it does).

### CodCash

One delivered cash order of one rider and one seller. `riderCash` and `sellerCash` are the
wallets' `cashInHand`; `adminBalance` is what this order brought in; `Others` is cash the rider
carries for other orders, which the clamped debit of `updateCashInHand` could eat.
`client` fixes who calls: `"apps"` sends what the screens offer
(`OrderDetails.jsx:1300-1412`, whose buttons depend on the flags and are disabled while a
request runs), `"any"` sends whatever the API accepts, in any order, including the
reconciliation and the repeated delivery no screen sends. Properties that need
the screens say `client = "apps"`, the others hold for both. `CashKept` refines it to `CashContract`: what the customer
still has is `Amount` less what was collected, the others' part is read off their wallets. The contract speaks of the
screens only; for `"any"` client it is shown a constant (`FromScreens`), because such a client can make the wallets
disagree.
Abstracted: the seller's share is positive and nothing is returned;
`codWalletsPending` and `settlementStatus` (the release's query is true by default once the
window is over); ledger, audit log, legacy transactions, cashback and commissions;
`backfillMissingCodRiderEarnings`, which never finds anything to do because the credit is part of the
same transactions.

### Payment

One checkout group of `GroupSize` orders, paid at the gateway, from the wallet or from both (`funding`).
`payment` is the status of each Payment document, one per gateway order; `gateway` and `events`
are what the gateway knows and has sent: it captures a paid try at once, and sends every event
at least once, late and in any order. `recorded` is the collection of webhook events.
`captured` and `credits` are the flag `onlinePaymentCaptured` and the entries in the admin wallet that it
guards; `refunds` counts what the gateway did, so it can differ from what the documents say.

A `handler` is one request or webhook. It loads a payment (`RecordEvent`, `VerifySignature`, `CheckStatus`),
asks the gateway (`GatewayAnswers`), decides on the loaded document and saves it (`SavePayment`, whose
409 is the end of the request), and then walks over the orders: `BookOrder` and `OfferOrder` for each, then
`MarkGroupPaid`; or `FailOrders` and `MarkGroupFailed`; or `ResetOrders`. Giving up is three writes
(`AbandonOrders`, `AbandonGroup`, `AbandonPayments`). A cancelled order is refunded by `StartRefund` -
`GatewayRefunds` - `SaveRefund` - `CommitRefund` or `AbortRefund` - `CloseGroup`: the gateway is called and the
payment saved inside a transaction that may still abort. A handler whose process dies simply takes no further step.

`CheckoutKept` refines it to `CheckoutContract`: an order's phase is read off `workflowStatus`, its money off
`credits` and `refunds`, counted: an order credited or refunded twice has left the contract (`MoneyOf`). What keeps a
second cancellation from refunding again is that the update which cancels asks for the status as well as the payment
(`MayCallOff`); `AlreadyRefunded` alone would not, as the save of a refund that was made may fail. Abstracted: amounts (each order's share is one unit); stock and the workflow past
the seller's acceptance (`OrderWorkflow`); the event id shared by the events of one gateway payment (more
events are duplicates then, which only removes steps).

### SellerPayout and Returns

`SellerPayout` starts where the settlement of a prepaid order put the seller's share on hold.
Each function is one transaction on a payout found before: `ListExpired` - `ReleaseHeld` - `LookForPayout` - `ProcessFound`
for the release, `ListPending` - `ProcessFound` for a batch. `paid` counts additions to the available balance.

`Returns` adds the return. Every operation is a `Load`, with the checks of the handler (`Checks`), and a save,
with other requests in between; a `save()` writes only changed fields (`SaveStatus`). Mongoose
raises a document's version only when a list is replaced, so only such saves (`ReplacesList`) fail when overtaken
by another of the kind (`Orphaned`). The quality check goes on to `CreditCustomer`, `NoteRefund`,
`CancelPayout` - `RecordCancellation` or `DebitSeller`, `NoteAdjustment`, `CompleteRefund`, each a write of its own; the unique reference
of a `Transaction` (`Noted`) is all that stops a second one. `client = "apps"` does what the screens
offer, one request at a time; `"any"` does what the API accepts, overlapping: a pickup offered to all riders again, a photo of a return
without a rider. A webhook finds the return by the shipment's id, with or without an airway bill. `ReturnKept` refines it, for the screens,
to `ReturnContract`, whose phases are the statuses with the two of a parcel on its way as one.
Abstracted: one item; OTP digits; the refund's amount; the rider's commission; what the courier's status texts say.

### Placement

One customer asks for one checkout several times, with a key or without (`keyed`), from the cart or with items in the
request (`source`). `lock`, `result` and `error` are the key's entries in Redis. A request follows `CheckIdempotency` -
`AcquireIdempotencyLock` - `FindExistingCheckout` - `StartTransaction` - `PlaceOrder` or `AbortTransaction` -
`StoreIdempotencyResult`, `StoreIdempotencyError` or `ReleaseIdempotencyLock`.
The transaction is MongoDB's: it sees the documents as they were when it began, and cannot commit when
another has since written one it writes (`Overtaken`); every checkout here writes the same product and wallet.
`LockExpires` may strike a request at work (`overruns`); `KeyExpires` is a day later: the result is gone and the TTL
index deletes group and orders. `PlacementKept` refines it to `PlacementContract`, where a checkout is placed in one
step if the items, stock and money are there at that moment and no checkout has its key. Abstracted: prices, coupons, the split of a cart by seller, several products.

## 4. The runs

| run | instance | what it shows |
|---|---|---|
| `safety` | 2 riders, 2 verify requests, 2 attempts, stale polls, 2 crashes; 2.0 million states | stock returned once; online orders offered only when captured; refunds justified; settled once; both status fields agree; rider never replaced; an exhausted search stays exhausted |
| `uninterrupted` | 2 riders, 1 request, 2 attempts, no crash, no stale poll; 106 000 states | the workflow implements `OrderContract`; cancelled stock returns, captured orders reach their seller, delivered orders are settled |
| `alerts` | 1 rider, 3 attempts, stale polls, 1 crash; 458 000 states | late sellers, failed searches and unpaid orders are always dealt with |
| `status_api_serial` | 1 rider, 1 verify request, 1 status request, no overlap; 1.0 million states | requests and workflow together never revive an order, move it back, or restock or settle twice |
| `cod_custody` | amount 2, other cash 1, 2 overlapping collections, 2 deliveries, 1 crash; 237 000 states | cash is accounted for, can move on, is collected once by whatever requests, settlement waits for the money, a payment is final; from the screens, refinement of `CashContract` |
| `checkout` | 2 orders, 2 gateway orders with 2 tries each, 2 webhook events, 2 handlers, paid at the gateway or from the wallet; 4.6 million states | refinement of `CheckoutContract` (never offered unpaid, no order credited or refunded twice); credited once and only if paid; a PAID group is booked; recorded refunds were made |
| `returns` | 2 requests, 1 payout worker, at most 2 refunds, both clients, both delivery types; 7.0 million states | payout paid once; refunds documented; seller charged once; from the screens, refinement of `ReturnContract` (refunded once, closed for good) |
| `placement` | 3 requests, stock 4, balance 2, 2 locks that expire early; 54 000 states | placed once, the lock excludes until it expires, refinement of `PlacementContract` (paid for, from the stock of the moment) |
| `stock_lost`, `late_poll`, `status_api_overlap`, `seller_paid_early` | smallest instance | a statement in the code that is not true of it (section 7) |

Why the bounds are enough. Every race in the code is between two requests of a kind, so two
riders, two verify requests and two collections show it; two timeout workers
exist. Two attempts give a first, a widened and a failed search; three in `alerts` let a
stale worker set the attempt back and lose a step twice. Two crashes let a handler
die and the one that could have repaired it die too. Amount 2 has a partial and a full
remittance. The status request is single because with no overlap requests follow each other. Two orders in a group let the first be booked and the second not; two
gateway orders are two open payment sheets; two handlers are every overlap of two documents saved from the same
read. `checkout` leaves out `"mixed"` funding: such a checkout takes the steps of `"gateway"` without giving up
(its transaction aborts, section 7) and without committed refunds. Two refunds show a repeated one. One
payout worker besides two requests is every pair of parties to a payout.
Balance 2 and stock 4 let two checkouts succeed where one is due, and the third fail. Symmetry
is used only in `safety`, `checkout`, `returns` and `placement`, which check no liveness. Most of the same properties are proved without any of
these bounds (section 6). Deadlock is not checked because an order may end: a delivered
order has nothing left to do.

Each property has a mutant in `PROJECT.json`: a plausible bug in one definition
(`Claimable_Assigned`, `SaveRelease_Forgotten`, `Debited_Unclamped`, ...), kept beside the
definition it changes, under which TLC finds the property violated. `SellerPaidOnce`, `PaidForEachCheckout`, `RefundedOnce`,
`ClosedStaysClosed` and `EarningFollowsCash` are stated and proved (section 6), and in no run: the contracts there say as
much of checkouts, returns and cash, and more.

## 5. Fairness

`FairSpec` assumes that clocks advance (deadlines pass), that the scheduler keeps
sweeping (`setInterval`, ten seconds by default, so an order that stays due is swept), and that a
handler that has begun and does not crash continues: an awaited database call returns.
It does not assume that people act, that gateways call back, or that Bull runs:
queue calls may time out and are only logged. So `SellerDelayIsRaised` and
`FailedSearchIsRaised` rest on the sweep alone. Weak fairness is enough, as each of these
actions stays enabled until it is taken or another handler has done its work; nothing but its guards
can keep it from being taken. The contracts are safety and need no fairness. `Payment`, `Returns` and `Placement` assume none: any handler
may stop at any point.

## 6. Proofs

All by TLAPS, for every value of the constants (riders, requests, attempts, amounts,
crashes) that satisfies the named assumptions.

**OrderWorkflowProofs.** The inductive invariant `IInv` is `TypeOK` with `StockInv`,
`LegacyStatusInSync`, `PaymentInv`, `RiderInv` and `HandoffInv`. The stated invariants are not
inductive: `StockReturnedOnce` needs to know that a compensation that has incremented the
items but not yet saved RELEASED is the only one in progress (`StockInv`), `SettledOnce` that only the request that
won the final update can still enter the settlement (`HandoffInv`), `RiderNeverReplaced`
that the rider field and status agree (`RiderInv`). Each has its own lemma, one case per action.

| theorem | states |
|---|---|
| `TypeCorrect`, `Inductive` | `TypeOK`, the inductive invariant |
| `StockIsReturnedOnce` | `StockReturnedOnce` |
| `OnlineOrdersArePaid` | `OfferedOnlineIsCaptured` |
| `RefundsAreJustified` | `RefundIsJustified` |
| `LegacyStatusFollows` | `LegacyStatusInSync` |
| `OrderIsSettledOnce` | `SettledOnce` |
| `FirstRiderWins` | `RiderNeverReplaced` |
| `ContractHolds` | `~Polling` implies that `Spec` implements `OrderContract` |

`ContractHolds` needs `~Polling` because a stale poll breaks the contract (finding
`late_poll`); it uses one more invariant, `PaidInv`: an order whose money is captured says PAID, or has been cancelled.

`OnlyPollsCancelLate` is the other half of that finding: with `~Polling`, `NotCancelledAfterConfirmation` holds.

**OrderProgressProofs.** What must happen, for any number of riders, requests and attempts, from `FairSpec`. Two facts
about steps carry it. `NothingTakenBack`: a capture, a passed deadline, a raised alert stay, and no order becomes
unpaid again, so that a step that is due stays due until it is taken. `FollowedUp`, an invariant if no handler dies
(`NothingIsForgotten`): a cancelled order has its compensation under way or behind it, a capture its offer, a
delivery its settlement. TLAPS does not compute ENABLED, on which weak fairness is defined, so the theorems take
`[]GuardsEnable` as a hypothesis: for each fair action, its guards imply that it is enabled. This is a
fact about the formulas of the actions, not about what the order does, so it is defined beside the proofs and is no property of
a run; TLC finds it true in the instance of the run `uninterrupted`. `UnpaidInv`
adds that an order that is still CREATED is an online order, and that only a capture makes one PAID.

| theorem | states | for |
|---|---|---|
| `NothingIsForgotten` | `FollowedUp` | no crash |
| `UnpaidOrdersEnd` | `UnpaidOrderIsResolved` | any crashes and polls |
| `SellerDelaysAreRaised` | `SellerDelayIsRaised` | any crashes and polls |
| `CapturedOrdersReachSellers` | `CapturedReachesSeller` | no crash |
| `CancelledOrdersReturnStock` | `CancelledStockReturns` | no crash |
| `DeliveringRequestSettles` | a request that has delivered the order settles it | no crash, each request |
| `DeliveredOrdersSettle` | `DeliveredIsSettled` | no crash, fairness towards whichever request delivered |

The last one asks for `WF_vars(SomeoneSettles)` where `FairSpec` is fair to every request by itself: the provers cannot
take one request's fairness out of `\A t \in Taps : WF_vars(...)`. As one request at most has delivered and not
settled (`HandoffInv`), the two come to the same; `DeliveringRequestSettles` is from the fairness of the request alone.
"No crash" cannot be dropped from the others (finding `stock_lost`).

**OrderSearchProofs.** The search for a rider ends: the order leaves DELIVERY_SEARCH or the alert is raised. Each round of
the search (`deliverySearchMeta.attempt`) ends, because the sweep reads the order once the window is over and then gives
up or opens the next, wider window. But rounds may be lost: a Bull worker that read the order earlier writes the attempt it
read plus one, and may so set the counter back. What stops that from going on for ever is a floor under the attempts: a job is
spent by the worker that reads it, a fair round adds one only when it moves the counter, and once crashes have ended the
level of the slowest worker only rises (`FloorKept`, `LevelRises`, `BullMovesOrSearchEnds`).

| theorem | states | for |
|---|---|---|
| `FailedSearchesAreRaised` | `FailedSearchIsRaised` | at most three attempts, crashes come to an end |
| `OneCrashDelaysNoSearch` | `FailedSearchIsRaised` | at most three attempts, at most one crash |
| `ExhaustedSearchesStay` | `ExhaustedSearchStays` | any |
| `CashOrderIsStranded` | once exhausted, a cash order stays so for ever | any, in the workflow |

Three is the default of `DELIVERY_SEARCH_MAX_ATTEMPTS`; for any number the proof would be an induction over the attempts, which
is out of the provers' reach, and so is the step from "at most `MaxCrashes` crashes" to "crashes come to an end"
(`<>[](crashes = c)`, which every behaviour satisfies for some c); for one crash it is made. Both theorems take
`[]GuardsEnable`, as those of `OrderProgressProofs` do. The last two theorems say where such an order ends: no
action of the workflow service reopens a search that has used up its attempts, neither a late worker nor a rider's
acceptance; only an online order can still leave it, given up after a late poll. What gets a cash order out is a status
request (`OrderStatusApi`).

**OrderStatusApiProofs.** For any number of requests beside the workflow. Once an admin may hand a packed order to a
rider, `LegacyStatusInSync` is no longer true: `StatusAgrees` is what is left of it, and enough for the
lemmas of `OrderWorkflowProofs` that only need to know a cancelled order by either field. With `~Overlap` one request at
most is at work, and `AtWork` says what it may rely on: the order is as it has loaded or saved it
(so a save makes the order equal to the document, `SaveWrites`), its edit moves the order forward, and the restocking or
settlement still in its plan has not been done by anybody. `HalfCancelled` is the one moment at which `StockInv` fails:
the items are back and the save that cancels is still to come.

| theorem | states | for |
|---|---|---|
| `ApiTypeCorrect` | `ApiTypeOK` | any interleaving |
| `ApiInductive`, `OnceEach` | the invariant, `RestockedAndSettledOnce` | `~Overlap` |
| `StatusMovesForward` | `StatusNeverBackwards` | `~Overlap` |
| `NothingRevived` | `NeverRevived` | `~Overlap` and `~Polling` |
| `OnlyStaleSavesGoBack` | `StatusNeverBackwards` | any interleaving, `SavesWhatItRead` |
| `OnlyStaleSavesRevive` | `NeverRevived` | any interleaving, `SavesWhatItRead` and `~Polling` |

The last two say what overlap does harm by. `SavesWhatItRead` restricts the behaviours to those in which each save meets
the order as its request has read or last saved it, which a version tested by the save would see to; then requests, workflow and
crashes may interleave at will. Their invariant `FreshIInv` replaces `AtWork` by `SoundEdit`, which relates only the two copies
a request holds, and `StockInv` by the one conjunct that matters here, that only a cancelled order is compensated. Restocking
once is not among them: the items are put back before the save that would be refused.

`~Overlap` cannot be dropped (finding `status_api_overlap`), nor `~Polling`: after a stale poll a delivered order that is
paid may still be given up.

**CodCashProofs.** Three layers. `AnyInv` holds whoever calls: cash is collected in full or not at
all, admin has at least what was remitted, a final payment is the full amount, the payout
document is completed once. `OpenInv` adds, for a platform rider or the
screens, that remitted and pending make up collected. `ScreenInv` adds, for the screens, that at most one
collection is in progress, that it excludes a QR payment, and that the cash has one holder;
on it rest the balances.

| theorem | states | for |
|---|---|---|
| `CashTypeCorrect` | `CashTypeOK` (no wallet below zero) | any client |
| `SellerIsPaidOnce` | `SellerPaidOnce` | any client |
| `SettlementWaitsForAdmin` | `SettledWhenAdminHasMoney` | any client |
| `PaymentStaysFinal` | `PaymentIsFinal` | platform rider or screens |
| `CashIsCollectedOnce` | `CollectedOnce` | any client |
| `CashIsAccounted` | `CashAccounted` | screens |
| `EarningIsTimely` | `EarningFollowsCash` | screens |
| `CashIsNeverStuck` | `CashMovesOn` | screens, no crash |
| `CashContractHolds` | `CashSpec` implements `CashContract` | screens, any crashes |
| `OnlyReleasePaysEarly` | `SellerPaidAfterAdmin` | if `ReleaseHeldSellerPayout` waited for admin's money |

`CashContractHolds` takes one step more: `WholeInv`, the rider holds all of it or nothing, because only a store remits
parts and never gives the cash back. With it each transaction that moves money is one step of the contract:
`MarkSelfDeliveryCodCashWithSeller` the store's collection, `HandleCodOrderFinance` the rider's, `MarkCodOnlinePaid` the
scan, `HandoffCodCashToSeller`, `SellerRemitCodCash` and the two that settle (`SettlingPasses`).

**PaymentProofs.** For any group size, any number of payments, tries, events and handlers. `PaymentIInv` is
`PaymentTypeOK` with four parts. `GatewayInv`: a gateway order stands behind every event, and an event of a capture
comes only from an order that was paid. `MoneyInv`: the flag `onlinePaymentCaptured` and the admin's credit of an
order agree, and whoever holds or acts on a capture does so for money that was paid. `GroupInv`: a handler that
walks over the orders has booked those before its own, so whoever writes PAID on the group has booked them all.
`RefundInv`: a cancelled order is compensated by one handler at a time, which knows whether the gateway has refunded it. Two handlers with the
same capture do walk over the same orders; only the flag inside the booking transaction keeps them from crediting twice.

| theorem | states |
|---|---|
| `PaymentTypeCorrect`, `PaymentInductive` | `PaymentTypeOK`, the inductive invariant |
| `OrdersAreCreditedOnce` | `CreditedOnceAndPaidFor` |
| `PaidGroupsAreBooked` | `PaidGroupIsBooked` |
| `RecordedRefundsAreReal` | `RecordedRefundsWereMade` |
| `CheckoutContractHolds` | `PaymentSpec` implements `CheckoutContract` |

In `CheckoutContractHolds` seven actions take a step of the contract - `BookOrder`, `OfferOrder`, `FailOrders`,
`AbandonOrders`, `SellerAccepts`, `CallOffOrder`, `GatewayRefunds` - and every other action stutters (`ContractStutters`).

**ReturnsProofs.** For any number of requests, payout workers and refunds. `ReturnsIInv` is `ReturnsTypeOK` with
`PayoutPaidOnce`, `ChargeInv`, `PhotosInv` and `ScreenInv`. `ChargeInv`: whoever goes on to charge the seller has
entered the refund under its unique reference, so it is the only one. `PhotosInv`: once there are photos, every request
for the return still under way is stale, so its save, which replaces the list, fails; a quality check that passes has seen both photos.
`ScreenInv`, for the screens: one request runs at a time, and none once the goods are checked.

| theorem | states | for |
|---|---|---|
| `ReturnsTypeCorrect`, `ReturnsInductive` | `ReturnsTypeOK`, the inductive invariant | any client |
| `SellerPayoutPaidOnce` | `PayoutPaidOnce` | any client |
| `RefundsAreDocumented` | `RefundIsDocumented` | any client |
| `SellerIsChargedOnce` | `SellerChargedOnce` | any client |
| `CustomerIsRefundedOnce` | `RefundedOnce` | screens |
| `ClosedReturnsStayClosed` | `ClosedStaysClosed` | screens |
| `ReturnContractHolds` | `ReturnsSpec` implements `ReturnContract` | screens |

`ReturnContractHolds` needs to know of every operation where it finds the return when it saves (`DueIn`), and that what
it has read is still so (`LifeInv`); then every save goes one of the ten ways of `Onward`, which are the moves of the
contract (`OnwardLives`). A contract for other clients could say little: they reopen closed returns (section 7).

**PlacementProofs.** For any number of requests, any stock and balance, and any number of early expiries. Two facts carry the invariant
`PlacementIInv`. `Fresh`: an open transaction nobody has overtaken still sees the documents as they are, so
what it checked holds when it commits (`CommitSeesWhatIs`); with `FullCart` (a cart that still holds the
items has not been ordered) this gives one checkout per key or cart, and the balances. `Alone`: while no
lock has expired under a request, a request with the key that is at work holds the lock, and has found
no checkout until it places one; the lock is dropped without a look at its owner, so exclusion needs this.

| theorem | states |
|---|---|
| `PlacementTypeCorrect` | `PlacementTypeOK` (neither stock nor wallet below zero) |
| `CheckoutPlacedOnce` | `PlacedOnce` |
| `EveryCheckoutIsPaid` | `PaidForEachCheckout` |
| `LockExcludes` | `OneAtATime` |
| `PlacementIsSerial` | `PlacementSpec` implements `PlacementContract` |

In `PlacementIsSerial` a checkout is placed when its transaction commits: `CommitSeesWhatIs` turns what the transaction saw when
it began into what is there at that moment, and no key is there twice because the unique index refuses it.

Only assumed, as a hypothesis of the progress theorems: `GuardsEnable` (ENABLED). Only model-checked:
`FailedSearchIsRaised` for more than three attempts or more than one crash without the hypothesis above (the library's induction theorems take an operator as a parameter, which the provers
cannot instantiate). Everything else the passing runs check is a theorem.

## 7. Where code and comments disagree

Each is a run that TLC refutes; `PROJECT.json` quotes the lines.

* `stock_lost` - a cancelled order whose handler dies before compensation keeps its
  stock, and its payment, for ever: no retry or sweep looks for it.
* `late_poll` - a status poll answered before the capture overwrites PAID
  afterwards, and giving up the payment then cancels an order that is under way.
* `status_api_overlap` - a cancellation between a status request's read and `save()`
  is overwritten: a cancelled order is revived. `OnlyStaleSavesRevive` shows that such saves are the only cause.
* `seller_paid_early` - the seller of a cash order is paid when the return window is over,
  whether or not admin has received the cash. `OnlyReleasePaysEarly` shows that the release alone is the cause: were it to
  wait for the money, the comment would be true, for any client.

Observations that contradict no statement of the repository, and so are not runs:

* an admin's "confirmed" puts an order into DELIVERY_SEARCH without deadline or attempt: no
  rider can claim it and no sweep finds it;
* after the last search attempt the window stays expired, so no rider can claim (`ExhaustedSearchStays`);
* a status request that dies between restocking and its cancelling save leaves an order that is not cancelled
  and whose stock is back; the next cancellation restocks again;
* a crash between the two transactions of `markCodCashCollectedByRider` leaves cash that
  can neither be collected again nor handed over (hence "no crash" in `CashMovesOn`);
* for clients other than the screens: a QR payment after a cash collection credits admin for
  cash the rider still holds; after a full reconciliation neither flag of `AdminHasPayment` is set, so
  the order is not settled and a QR payment is credited again; a repeated
  `POST /orders/:id/delivered` on a remitted self-delivered order credits the seller's
  cash again, and on a cancelled order marks it delivered;
* a partial remittance by the seller commits and then answers with an error,
  because `settleCodWalletsAfterAdminCredit` throws until all is paid;
* `returnWindowReleaseJob.js` looks for a payout document that holding does not create, so it never releases one.

Seen while modelling the online payment (`paymentService.js` = PAY, `orderFinanceService.js` = FIN):

* giving wallet money back ends in a `Transaction` of type "Wallet Refund" (PAY:1022), which the enum of
  `models/transaction.js:19-23` does not have: giving up a checkout partly paid from the wallet always fails
  (hence `funding = "gateway"` in `AbandonOrders`);
* the same money on cancellation enters the ledger with payment mode "WALLET" (FIN:1375), which
  `models/ledgerEntry.js:76-79` does not know: the transaction aborts, perhaps after the gateway has refunded its share, the
  error is only logged (`orderCompensation.js:21-31`) and the order stays PAID (hence the guard of `CommitRefund`);
* a payment that failed and is captured on a later try is refused with a 409, and the money kept;
  two payment sheets open at once may both be paid, and one is never booked;
* the webhook event is recorded before its effects, so a crash in between turns every redelivery into a duplicate;
* PENDING or AUTHORIZED sets `paymentStatus` of a PAID order to CREATED (`ResetOrders`);
* the first refund in a group marks the group's payment REFUNDED, so the refund of its other order finds no
  captured payment and becomes REFUND_FAILED;
* money captured for a cancelled order is booked and kept; giving up overwrites FAILED and REFUNDED payments with
  CANCELLED; a group may say CANCELLED while its orders are PAID.

In returns (`orderController.js` = OC):

* `PAYOUT_STATUS` has no CANCELLED: cancelling a payout removes its status, the document is loaded with the default
  PENDING, and is paid all the same (`Payable`);
* the list of expired holds is not looked at again (FIN:302-320), so a payout is released although the return has begun;
* `requestReturn` (OC:813) writes the shop's return window over the window of the items, so that asking for a return
  may end the seller's hold at once;
* whether the payout was held is read before eight writes; a debit that fails is only logged;
* a crash after "QC passed" and before the refund leaves a return that answers "already processed"
  for ever; two quality checks at once credit the customer twice before the second stops at the unique reference
  (so `RefundedOnce` is for the screens);
* the ranks of the courier's webhook and of `updateReturnStatus` (OC:2466) are 0 for every later status, so either may
  reopen a closed return; two approvals at once may book two reverse pickups; without an airway bill a return
  can never be confirmed; `acceptReturnPickup` and `verifyReturnPickupOtp` ask for neither status nor rider;
* a return requested without photos never passes a quality check.

In placement:

* the lock is deleted without a look at its owner, and an error before the transaction leaves it behind until it expires;
* a stored error is looked for before a stored result, and may come to stand beside a placed checkout: a retry that
  passed `checkIdempotency` before the first request failed can place it afterwards, and the error is answered for an hour;
* an order number that collides is drawn again, which fails with a key, because the error is stored by then;
* a failure after the commit makes `abortTransaction` throw in the handler: neither result nor error is stored, the lock stays
  until it expires, and only then does a retry find the checkout;
* the TTL indexes on `placement.idempotencyKeyExpiry` are on the orders and groups themselves, which a day later are
  deleted whatever state they are in, without their stock coming back;
* the applications never send an idempotency key, so a checkout of direct items can be placed twice.

## 8. What is not modelled, and why

* Cashback, level commissions, rider payouts of online orders, and the rider's commission for a return: one more
  check before an update each, and no state the modelled properties depend on.
* The scheduler's lock: the models let the jobs overlap with everything, so nothing here rests on it.
* The limit of a coupon's uses: counted and then inserted, in a transaction that does not write what it counted.
* Notification deduplication, the legacy delivery OTP.
* Several orders at once, beyond those of a checkout: riders' capacity of three orders and payouts over many
  orders need a model over a set of orders.
* Orders of workflow version 1, which only the sweep still handles.
* Courier shipments: a scheduled order leaves the model at SELLER_ACCEPTED.
* Prices, commissions and coupons: sequential arithmetic with unit tests.
* Sessions, authentication, search, media, maps, chat: request-local or I/O.
* MongoDB, Redis and Bull themselves, beyond atomicity of a document update and of a
  transaction, and loss of a queue call.
