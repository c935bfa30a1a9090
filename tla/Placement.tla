----------------------------- MODULE Placement -----------------------------
(***************************************************************************)
(* One customer places one checkout, and asks again when the answer is     *)
(* late: with an idempotency key or without, from the cart or with the     *)
(* items in the request, paying part of it from the wallet or not.         *)
(*                                                                         *)
(* With a key, Redis holds a lock that expires, a stored result and a      *)
(* stored error.  The checkout itself is one MongoDB transaction with      *)
(* snapshot isolation: it sees the documents as they were when it began,   *)
(* and fails if another transaction has since written one it writes.       *)
(***************************************************************************)
EXTENDS Integers

CONSTANTS
    Requests,       \* requests the API may serve at once
    Stock,          \* of the product
    Balance,        \* of the customer's wallet
    MaxOverruns     \* bound: locks that expire under a request at work

ASSUME StockAssumption == Stock \in Nat
ASSUME BalanceAssumption == Balance \in Nat
ASSUME OverrunsAssumption == MaxOverruns \in Nat

VARIABLES
    keyed,          \* the requests carry an idempotency key
    source,         \* "CART" or "DIRECT_ITEMS"
    walletAmount,   \* to be paid from the wallet
    lock,           \* the lock of the key exists
    result,         \* a result is stored for the key
    error,          \* an error is stored for the key
    groups,         \* checkout groups there are
    placed,         \* checkouts placed so far
    rival,          \* pieces bought by other customers
    stock,
    walletBalance,
    cart,           \* the cart holds the items
    request,        \* what each request is doing
    overruns        \* locks that expired under a request so far

client  == <<keyed, source, walletAmount>>
redis   == <<lock, result, error>>
mongo   == <<groups, placed, rival, stock, walletBalance, cart>>

placementVars == <<client, redis, mongo, request, overruns>>

STAGE == {"idle", "unlocked", "locked", "ready", "open", "placed", "existing",
          "failed", "duplicate", "collision", "retryable"}

(* A request, and what the transaction it has begun sees. *)
Idle == [stage |-> "idle", groups |-> 0, stock |-> 0, wallet |-> 0,
         cart |-> FALSE, overtaken |-> FALSE]

RequestState == [stage : STAGE, groups : Nat, stock : Nat, wallet : Nat,
                 cart : BOOLEAN, overtaken : BOOLEAN]

PlacementTypeOK ==
    /\ keyed \in BOOLEAN
    /\ source \in {"CART", "DIRECT_ITEMS"}
    /\ walletAmount \in {0, 1}
    /\ lock \in BOOLEAN /\ result \in BOOLEAN /\ error \in BOOLEAN
    /\ groups \in Nat /\ placed \in Nat /\ rival \in Nat
    /\ stock \in Nat
    /\ walletBalance \in Nat
    /\ cart \in BOOLEAN
    /\ request \in [Requests -> RequestState]
    /\ overruns \in 0..MaxOverruns

PlacementInit ==
    /\ keyed \in BOOLEAN
    /\ source \in {"CART", "DIRECT_ITEMS"}
    /\ walletAmount \in {0, 1}
    /\ lock = FALSE /\ result = FALSE /\ error = FALSE
    /\ groups = 0 /\ placed = 0 /\ rival = 0
    /\ stock = Stock
    /\ walletBalance = Balance
    /\ cart = TRUE
    /\ request = [q \in Requests |-> Idle]
    /\ overruns = 0

At(q, stage) == request[q].stage = stage
Go(q, stage) == request' = [request EXCEPT ![q] = [Idle EXCEPT !.stage = stage]]
Finish(q)    == request' = [request EXCEPT ![q] = Idle]

----------------------------------------------------------------------------
(* The key.                                                                *)

(* checkIdempotency: a stored error is answered again before a stored      *)
(* result is; a lock without either means another request is at work.      *)
CheckIdempotency(q) ==
    /\ At(q, "idle")
    /\ keyed => ~lock /\ ~result /\ ~error
    /\ Go(q, IF keyed THEN "unlocked" ELSE "ready")
    /\ UNCHANGED <<client, redis, mongo, overruns>>

LockFree_Assumed == TRUE

(* SET NX *)
LockFree == ~lock

AcquireIdempotencyLock(q) ==
    /\ At(q, "unlocked")
    /\ IF LockFree THEN lock' = TRUE /\ Go(q, "locked")
                   ELSE Finish(q) /\ UNCHANGED lock
    /\ UNCHANGED <<client, result, error, mongo, overruns>>

FindExistingCheckout(q) ==
    /\ At(q, "locked")
    /\ Go(q, IF groups > 0 THEN "existing" ELSE "ready")
    /\ UNCHANGED <<client, redis, mongo, overruns>>

(* storeIdempotencyResult, for a checkout found or just placed; it drops   *)
(* the lock, whoever holds it by now.                                      *)
StoreIdempotencyResult(q) ==
    /\ At(q, "existing") \/ At(q, "placed")
    /\ IF keyed THEN result' = TRUE /\ lock' = FALSE
                ELSE UNCHANGED <<result, lock>>
    /\ Finish(q)
    /\ UNCHANGED <<client, error, mongo, overruns>>

----------------------------------------------------------------------------
(* The transaction.                                                        *)

(* The cart is looked at before the transaction; what fails up to here     *)
(* leaves the lock behind (Die).                                           *)
StartTransaction(q) ==
    /\ At(q, "ready")
    /\ source = "CART" => cart
    /\ request' = [request EXCEPT ![q] =
                     [stage |-> "open", groups |-> groups, stock |-> stock,
                      wallet |-> walletBalance, cart |-> cart,
                      overtaken |-> FALSE]]
    /\ UNCHANGED <<client, redis, mongo, overruns>>

KeyTaken_Never(q) == FALSE

(* The unique index on (customer, placement.idempotencyKey). *)
KeyTaken(q) == keyed /\ request[q].groups > 0

Feasible_AnyWallet(q) ==
    /\ source = "CART" => request[q].cart
    /\ request[q].stock > 0

(* The wallet, the items and the stock are there. *)
Feasible(q) ==
    /\ request[q].wallet >= walletAmount
    /\ source = "CART" => request[q].cart
    /\ request[q].stock > 0

Overtaken_Never(q) == FALSE

Overtaken(q) == request[q].overtaken

(* Every other transaction on the same product is overtaken.               *)
Commit(q, stage) ==
    request' = [r \in Requests |->
                  IF r = q THEN [Idle EXCEPT !.stage = stage]
                  ELSE [request[r] EXCEPT !.overtaken = At(r, "open")]]

(* The group, its orders, the reserved stock, the wallet payment and the   *)
(* emptied cart.                                                           *)
WriteCheckout(q) ==
    /\ groups' = groups + 1
    /\ placed' = placed + 1
    /\ stock' = stock - 1
    /\ walletBalance' = request[q].wallet - walletAmount
    /\ cart' = FALSE
    /\ UNCHANGED rival

PlaceOrder(q) ==
    /\ At(q, "open")
    /\ Feasible(q) /\ ~KeyTaken(q) /\ ~Overtaken(q)
    /\ WriteCheckout(q)
    /\ Commit(q, "placed")
    /\ UNCHANGED <<client, redis, overruns>>

(* It aborts: the wallet, the items or the stock are not there, another     *)
(* transaction has written first, the key is taken, generated ids collide, *)
(* or the connection fails.  A failure after the commit is not answered    *)
(* here (Die): abortTransaction throws in the handler, before it looks at  *)
(* the key.                                                                *)
AbortTransaction(q) ==
    /\ At(q, "open")
    /\ \/ keyed /\ groups > 0 /\ Go(q, "duplicate")
       \/ \E stage \in {"failed", "collision", "retryable"} : Go(q, stage)
    /\ UNCHANGED <<client, redis, mongo, overruns>>

----------------------------------------------------------------------------
(* What becomes of a failed transaction.                                   *)

(* isRetryableError: the lock is dropped and nothing is remembered.        *)
ReleaseIdempotencyLock(q) ==
    /\ At(q, "retryable")
    /\ lock' = (lock /\ ~keyed)
    /\ Finish(q)
    /\ UNCHANGED <<client, result, error, mongo, overruns>>

(* storeIdempotencyError, for every other error.  If the key was taken the *)
(* existing checkout is answered next; an id that collided is drawn again, *)
(* which fails with a key, since the error is stored by then.              *)
StoreIdempotencyError(q) ==
    /\ \E stage \in {"failed", "duplicate", "collision"} : At(q, stage)
    /\ IF keyed THEN error' = TRUE /\ lock' = FALSE
                ELSE UNCHANGED <<error, lock>>
    /\ IF At(q, "duplicate") THEN Go(q, "existing")
       ELSE IF At(q, "collision") /\ ~keyed THEN Go(q, "ready")
       ELSE Finish(q)
    /\ UNCHANGED <<client, result, mongo, overruns>>

----------------------------------------------------------------------------
(* The rest of the world.                                                  *)

RivalBuys ==
    /\ stock > 0
    /\ stock' = stock - 1
    /\ rival' = rival + 1
    /\ request' = [r \in Requests |-> [request[r] EXCEPT !.overtaken = At(r, "open")]]
    /\ UNCHANGED <<client, redis, groups, placed, walletBalance, cart, overruns>>

(* The process dies, or Redis fails, or the request is refused early.      *)
Die(q) ==
    /\ ~At(q, "idle")
    /\ Finish(q)
    /\ UNCHANGED <<client, redis, mongo, overruns>>

AtWork(q) == ~At(q, "idle") /\ ~At(q, "unlocked")

(* A lock expires, perhaps before the request that took it is done.        *)
LockExpires ==
    /\ lock
    /\ lock' = FALSE
    /\ IF \E q \in Requests : AtWork(q)
       THEN overruns < MaxOverruns /\ overruns' = overruns + 1
       ELSE UNCHANGED overruns
    /\ UNCHANGED <<client, result, error, mongo, request>>

(* Errors are kept for an hour. *)
ErrorExpires ==
    /\ error
    /\ error' = FALSE
    /\ UNCHANGED <<client, lock, result, mongo, request, overruns>>

(* After a day the result is gone, and MongoDB's TTL indexes on            *)
(* placement.idempotencyKeyExpiry delete the group and its orders.         *)
KeyExpires ==
    /\ keyed
    /\ \A q \in Requests : At(q, "idle")
    /\ groups' = 0
    /\ result' = FALSE
    /\ UNCHANGED <<client, lock, error, placed, rival, stock, walletBalance,
                   cart, request, overruns>>

KeyStep(q) ==
    \/ CheckIdempotency(q) \/ AcquireIdempotencyLock(q)
    \/ FindExistingCheckout(q) \/ StoreIdempotencyResult(q)
    \/ StoreIdempotencyError(q) \/ ReleaseIdempotencyLock(q)

TransactionStep(q) ==
    \/ StartTransaction(q) \/ PlaceOrder(q) \/ AbortTransaction(q)

PlacementNext ==
    \/ \E q \in Requests : KeyStep(q) \/ TransactionStep(q) \/ Die(q)
    \/ RivalBuys \/ LockExpires \/ ErrorExpires \/ KeyExpires

PlacementSpec == PlacementInit /\ [][PlacementNext]_placementVars

----------------------------------------------------------------------------
(* However often the customer asks, and although the lock may expire under *)
(* a request at work, which then drops the next one's: one checkout with   *)
(* the key exists at a time, and one cart is ordered once, even without a  *)
(* key.                                                                    *)
PlacedOnce == (keyed \/ source = "CART") => groups <= 1

(* Requests that run at once cannot spend the same wallet money or sell    *)
(* the same piece twice: balance and stock account for every checkout.     *)
PaidForEachCheckout ==
    /\ walletBalance + placed * walletAmount = Balance
    /\ stock + placed + rival = Stock

(* The lock is dropped by whoever answers, without a look at whose it is.  *)
(* Even so, as long as none expires under a request at work, no two        *)
(* requests with the key are ever past it together, though each may crash, *)
(* fail, or be answered with what the other stored.                        *)
OneAtATime ==
    keyed /\ overruns = 0 =>
        \A q, r \in Requests : AtWork(q) /\ AtWork(r) => q = r

----------------------------------------------------------------------------
(* Requests that overlap come to what they would have come to one by one.  *)
Serial == INSTANCE PlacementContract

(* Snapshots, retries, and locks that expire or are dropped by another     *)
(* request never show: whatever is placed was placed at a moment at which  *)
(* the items, the stock and the money were there and the key was free.     *)
PlacementKept == Serial!SerialSpec
============================================================================
