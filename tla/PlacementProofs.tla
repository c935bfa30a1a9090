--------------------------- MODULE PlacementProofs ---------------------------
(***************************************************************************)
(* Proofs about Placement, for any set of requests, any stock and balance  *)
(* and any number of locks that expire under a request.                    *)
(*                                                                         *)
(* Two facts carry them.  An open transaction that nobody has overtaken    *)
(* still sees the documents as they are (Fresh), so what it checked holds  *)
(* when it commits.  And while no lock has expired under a request, one    *)
(* that is at work with a key holds the lock, and has found no checkout    *)
(* yet until it places one (Alone).                                        *)
(***************************************************************************)
EXTENDS Placement, TLAPS

Fresh ==
    \A q \in Requests :
        At(q, "open") /\ ~Overtaken(q) =>
            /\ request[q].groups = groups
            /\ request[q].stock = stock
            /\ request[q].wallet = walletBalance
            /\ request[q].cart = cart

(* A cart that still holds the items has not been ordered. *)
FullCart == cart => groups = 0

Alone ==
    keyed /\ overruns = 0 =>
        \A q \in Requests :
            /\ AtWork(q) => lock
            /\ At(q, "ready") \/ At(q, "open") => groups = 0
            /\ ~At(q, "duplicate")

PlacementIInv ==
    /\ PlacementTypeOK
    /\ PaidForEachCheckout
    /\ PlacedOnce
    /\ OneAtATime
    /\ Fresh
    /\ FullCart
    /\ Alone

----------------------------------------------------------------------------
(* A transaction that may commit sees what there is. *)
LEMMA CommitSeesWhatIs ==
    ASSUME PlacementIInv, NEW q \in Requests, PlaceOrder(q)
    PROVE  /\ stock > 0
           /\ walletBalance >= walletAmount
           /\ keyed \/ source = "CART" => groups = 0
           /\ request[q].wallet = walletBalance
  BY DEF PlacementIInv, PlacementTypeOK, RequestState, Fresh, FullCart,
       PlaceOrder, Feasible,
         KeyTaken, Overtaken, At
(* A request that goes on to another stage, or is over, forgets the rest.  *)
LEMMA GoTypes ==
    ASSUME request \in [Requests -> RequestState], NEW q \in Requests,
           NEW stage \in STAGE, Go(q, stage) \/ Finish(q)
    PROVE  request' \in [Requests -> RequestState]
<1>1. Idle \in RequestState
  BY DEF Idle, RequestState, STAGE
<1>2. [Idle EXCEPT !.stage = stage] \in RequestState
  BY <1>1 DEF RequestState
<1> QED BY <1>1, <1>2 DEF Go, Finish

(* Being overtaken changes no type. *)
LEMMA OvertakenTypes ==
    ASSUME request \in [Requests -> RequestState], NEW r \in Requests
    PROVE  [request[r] EXCEPT !.overtaken = At(r, "open")] \in RequestState
  BY DEF RequestState, At

(* Every step keeps the types. *)
LEMMA TypeStep ==
    ASSUME PlacementIInv, [PlacementNext]_placementVars
    PROVE  PlacementTypeOK'
<1> USE DEF PlacementIInv, PlacementTypeOK, client, redis, mongo
<1>1. ASSUME NEW q \in Requests, CheckIdempotency(q) PROVE PlacementTypeOK'
  <2>1. PICK stage \in STAGE : Go(q, stage)
    BY <1>1 DEF CheckIdempotency, STAGE
  <2> QED BY <1>1, <2>1, GoTypes DEF CheckIdempotency
<1>2. ASSUME NEW q \in Requests, AcquireIdempotencyLock(q)
      PROVE  PlacementTypeOK'
  <2>1. PICK stage \in STAGE : Go(q, stage) \/ Finish(q)
    BY <1>2 DEF AcquireIdempotencyLock, STAGE
  <2> QED BY <1>2, <2>1, GoTypes DEF AcquireIdempotencyLock
<1>3. ASSUME NEW q \in Requests, FindExistingCheckout(q)
      PROVE  PlacementTypeOK'
  <2>1. PICK stage \in STAGE : Go(q, stage)
    BY <1>3 DEF FindExistingCheckout, STAGE
  <2> QED BY <1>3, <2>1, GoTypes DEF FindExistingCheckout
<1>4. ASSUME NEW q \in Requests, StoreIdempotencyResult(q)
      PROVE  PlacementTypeOK'
  <2>1. "idle" \in STAGE
    BY DEF STAGE
  <2> QED BY <1>4, <2>1, GoTypes DEF StoreIdempotencyResult
<1>5. ASSUME NEW q \in Requests, StartTransaction(q) PROVE PlacementTypeOK'
  <2>1. [stage |-> "open", groups |-> groups, stock |-> stock,
         wallet |-> walletBalance, cart |-> cart, overtaken |-> FALSE]
          \in RequestState
    BY DEF RequestState, STAGE
  <2> QED BY <1>5, <2>1 DEF StartTransaction
<1>6. ASSUME NEW q \in Requests, PlaceOrder(q) PROVE PlacementTypeOK'
  <2>1. /\ stock - 1 \in Nat
        /\ request[q].wallet - walletAmount \in Nat
    BY <1>6, CommitSeesWhatIs
  <2>2. [Idle EXCEPT !.stage = "placed"] \in RequestState
    BY DEF Idle, RequestState, STAGE
  <2>3. request' \in [Requests -> RequestState]
    BY <1>6, <2>2, OvertakenTypes DEF PlaceOrder, Commit
  <2>4. /\ groups' = groups + 1 /\ placed' = placed + 1 /\ rival' = rival
        /\ stock' = stock - 1 /\ walletBalance' = request[q].wallet - walletAmount
        /\ cart' = FALSE
    BY <1>6 DEF PlaceOrder, WriteCheckout
  <2>5. UNCHANGED <<client, redis, overruns>>
    BY <1>6 DEF PlaceOrder
  <2>6. stock' \in Nat /\ walletBalance' \in Nat
    BY <2>1, <2>4
  <2>7. groups' \in Nat /\ placed' \in Nat /\ rival' \in Nat
    BY <2>4
  <2>8. cart' \in BOOLEAN
    BY <2>4
  <2>9. /\ keyed' \in BOOLEAN /\ source' \in {"CART", "DIRECT_ITEMS"}
        /\ walletAmount' \in {0, 1}
        /\ lock' \in BOOLEAN /\ result' \in BOOLEAN /\ error' \in BOOLEAN
    BY <2>5, Zenon
  <2>10. overruns' \in 0..MaxOverruns
    BY <2>5
  <2> QED BY <2>3, <2>6, <2>7, <2>8, <2>9, <2>10, Zenon
<1>7. ASSUME NEW q \in Requests, AbortTransaction(q) PROVE PlacementTypeOK'
  <2>1. PICK stage \in STAGE : Go(q, stage)
    BY <1>7 DEF AbortTransaction, STAGE
  <2> QED BY <1>7, <2>1, GoTypes DEF AbortTransaction
<1>8. ASSUME NEW q \in Requests, ReleaseIdempotencyLock(q)
      PROVE  PlacementTypeOK'
  <2>1. "idle" \in STAGE
    BY DEF STAGE
  <2> QED BY <1>8, <2>1, GoTypes DEF ReleaseIdempotencyLock
<1>9. ASSUME NEW q \in Requests, StoreIdempotencyError(q)
      PROVE  PlacementTypeOK'
  <2>1. PICK stage \in STAGE : Go(q, stage) \/ Finish(q)
    BY <1>9 DEF StoreIdempotencyError, STAGE
  <2> QED BY <1>9, <2>1, GoTypes DEF StoreIdempotencyError
<1>10. ASSUME NEW q \in Requests, Die(q) PROVE PlacementTypeOK'
  <2>1. "idle" \in STAGE
    BY DEF STAGE
  <2> QED BY <1>10, <2>1, GoTypes DEF Die
<1>11. ASSUME RivalBuys PROVE PlacementTypeOK'
  <2>1. request' \in [Requests -> RequestState]
    BY <1>11, OvertakenTypes DEF RivalBuys
  <2> QED BY <1>11, <2>1 DEF RivalBuys
<1>12. ASSUME LockExpires PROVE PlacementTypeOK'
  <2>1. overruns' \in 0..MaxOverruns
    BY <1>12, OverrunsAssumption DEF LockExpires
  <2> QED BY <1>12, <2>1 DEF LockExpires
<1>13. ASSUME ErrorExpires PROVE PlacementTypeOK'
  BY <1>13 DEF ErrorExpires
<1>14. ASSUME KeyExpires PROVE PlacementTypeOK'
  BY <1>14 DEF KeyExpires
<1>15. ASSUME UNCHANGED placementVars PROVE PlacementTypeOK'
  BY <1>15 DEF placementVars
<1> QED BY <1>1, <1>2, <1>3, <1>4, <1>5, <1>6, <1>7, <1>8, <1>9, <1>10,
           <1>11, <1>12, <1>13, <1>14, <1>15
        DEF PlacementNext, KeyStep, TransactionStep

(* A step spends wallet money and stock only for the checkout it places.   *)
LEMMA MoneyStep ==
    ASSUME PlacementIInv, [PlacementNext]_placementVars
    PROVE  PaidForEachCheckout'
<1> USE DEF PlacementIInv, PlacementTypeOK, RequestState, STAGE, At, client,
            redis, mongo
<1>1. ASSUME NEW q \in Requests, CheckIdempotency(q) PROVE PaidForEachCheckout'
  BY <1>1 DEF PaidForEachCheckout, CheckIdempotency, Go, Idle
<1>2. ASSUME NEW q \in Requests, AcquireIdempotencyLock(q)
      PROVE  PaidForEachCheckout'
  BY <1>2 DEF PaidForEachCheckout, AcquireIdempotencyLock, Go, Finish, Idle
<1>3. ASSUME NEW q \in Requests, FindExistingCheckout(q)
      PROVE  PaidForEachCheckout'
  BY <1>3 DEF PaidForEachCheckout, FindExistingCheckout, Go, Idle
<1>4. ASSUME NEW q \in Requests, StoreIdempotencyResult(q)
      PROVE  PaidForEachCheckout'
  BY <1>4 DEF PaidForEachCheckout, StoreIdempotencyResult, Finish, Idle
<1>5. ASSUME NEW q \in Requests, StartTransaction(q) PROVE PaidForEachCheckout'
  BY <1>5 DEF PaidForEachCheckout, StartTransaction
<1>6. ASSUME NEW q \in Requests, PlaceOrder(q) PROVE PaidForEachCheckout'
  <2>1. /\ placed' = placed + 1 /\ rival' = rival /\ stock' = stock - 1
        /\ walletBalance' = walletBalance - walletAmount
        /\ walletAmount' = walletAmount
    BY <1>6, CommitSeesWhatIs DEF PlaceOrder, WriteCheckout
  <2>2. CASE walletAmount = 0
    BY <2>1, <2>2 DEF PaidForEachCheckout
  <2>3. CASE walletAmount = 1
    BY <2>1, <2>3 DEF PaidForEachCheckout
  <2> QED BY <2>2, <2>3
<1>7. ASSUME NEW q \in Requests, AbortTransaction(q) PROVE PaidForEachCheckout'
  BY <1>7 DEF PaidForEachCheckout, AbortTransaction, Go, Idle
<1>8. ASSUME NEW q \in Requests, ReleaseIdempotencyLock(q)
      PROVE  PaidForEachCheckout'
  BY <1>8 DEF PaidForEachCheckout, ReleaseIdempotencyLock, Finish, Idle
<1>9. ASSUME NEW q \in Requests, StoreIdempotencyError(q)
      PROVE  PaidForEachCheckout'
  BY <1>9 DEF PaidForEachCheckout, StoreIdempotencyError, Go, Finish, Idle
<1>10. ASSUME NEW q \in Requests, Die(q) PROVE PaidForEachCheckout'
  BY <1>10 DEF PaidForEachCheckout, Die, Finish, Idle
<1>11. ASSUME RivalBuys PROVE PaidForEachCheckout'
  BY <1>11 DEF PaidForEachCheckout, RivalBuys
<1>12. ASSUME LockExpires PROVE PaidForEachCheckout'
  BY <1>12 DEF PaidForEachCheckout, LockExpires
<1>13. ASSUME ErrorExpires PROVE PaidForEachCheckout'
  BY <1>13 DEF PaidForEachCheckout, ErrorExpires
<1>14. ASSUME KeyExpires PROVE PaidForEachCheckout'
  BY <1>14 DEF PaidForEachCheckout, KeyExpires
<1>15. ASSUME UNCHANGED placementVars PROVE PaidForEachCheckout'
  BY <1>15 DEF PaidForEachCheckout, placementVars
<1> QED BY <1>1, <1>2, <1>3, <1>4, <1>5, <1>6, <1>7, <1>8, <1>9, <1>10, <1>11,
<1>12, <1>13, <1>14, <1>15 DEF PlacementNext, KeyStep, TransactionStep

(* A step places no second checkout. *)
LEMMA OnceStep ==
    ASSUME PlacementIInv, [PlacementNext]_placementVars
    PROVE  PlacedOnce'
<1> USE DEF PlacementIInv, PlacementTypeOK, RequestState, STAGE, At, client,
            redis, mongo
<1>1. ASSUME NEW q \in Requests, CheckIdempotency(q) PROVE PlacedOnce'
  BY <1>1 DEF PlacedOnce, CheckIdempotency, Go, Idle
<1>2. ASSUME NEW q \in Requests, AcquireIdempotencyLock(q) PROVE PlacedOnce'
  BY <1>2 DEF PlacedOnce, AcquireIdempotencyLock, Go, Finish, Idle
<1>3. ASSUME NEW q \in Requests, FindExistingCheckout(q) PROVE PlacedOnce'
  BY <1>3 DEF PlacedOnce, FindExistingCheckout, Go, Idle
<1>4. ASSUME NEW q \in Requests, StoreIdempotencyResult(q) PROVE PlacedOnce'
  BY <1>4 DEF PlacedOnce, StoreIdempotencyResult, Finish, Idle
<1>5. ASSUME NEW q \in Requests, StartTransaction(q) PROVE PlacedOnce'
  BY <1>5 DEF PlacedOnce, StartTransaction
<1>6. ASSUME NEW q \in Requests, PlaceOrder(q) PROVE PlacedOnce'
  <2>1. groups' = groups + 1 /\ UNCHANGED client
    BY <1>6 DEF PlaceOrder, WriteCheckout
  <2> QED BY <1>6, <2>1, CommitSeesWhatIs DEF PlacedOnce
<1>7. ASSUME NEW q \in Requests, AbortTransaction(q) PROVE PlacedOnce'
  BY <1>7 DEF PlacedOnce, AbortTransaction, Go, Idle
<1>8. ASSUME NEW q \in Requests, ReleaseIdempotencyLock(q) PROVE PlacedOnce'
  BY <1>8 DEF PlacedOnce, ReleaseIdempotencyLock, Finish, Idle
<1>9. ASSUME NEW q \in Requests, StoreIdempotencyError(q) PROVE PlacedOnce'
  BY <1>9 DEF PlacedOnce, StoreIdempotencyError, Go, Finish, Idle
<1>10. ASSUME NEW q \in Requests, Die(q) PROVE PlacedOnce'
  BY <1>10 DEF PlacedOnce, Die, Finish, Idle
<1>11. ASSUME RivalBuys PROVE PlacedOnce'
  BY <1>11 DEF PlacedOnce, RivalBuys
<1>12. ASSUME LockExpires PROVE PlacedOnce'
  BY <1>12 DEF PlacedOnce, LockExpires
<1>13. ASSUME ErrorExpires PROVE PlacedOnce'
  BY <1>13 DEF PlacedOnce, ErrorExpires
<1>14. ASSUME KeyExpires PROVE PlacedOnce'
  BY <1>14 DEF PlacedOnce, KeyExpires
<1>15. ASSUME UNCHANGED placementVars PROVE PlacedOnce'
  BY <1>15 DEF PlacedOnce, placementVars
<1> QED BY <1>1, <1>2, <1>3, <1>4, <1>5, <1>6, <1>7, <1>8, <1>9, <1>10, <1>11,
<1>12, <1>13, <1>14, <1>15 DEF PlacementNext, KeyStep, TransactionStep

(* Whoever writes overtakes every open transaction. *)
LEMMA FreshStep ==
    ASSUME PlacementIInv, [PlacementNext]_placementVars
    PROVE  Fresh'
<1> USE DEF PlacementIInv, PlacementTypeOK, RequestState, STAGE, At, client,
            redis, mongo
<1>1. ASSUME NEW q \in Requests, CheckIdempotency(q) PROVE Fresh'
  BY <1>1 DEF Fresh, Overtaken, CheckIdempotency, Go, Idle
<1>2. ASSUME NEW q \in Requests, AcquireIdempotencyLock(q) PROVE Fresh'
  BY <1>2 DEF Fresh, Overtaken, AcquireIdempotencyLock, Go, Finish, Idle
<1>3. ASSUME NEW q \in Requests, FindExistingCheckout(q) PROVE Fresh'
  BY <1>3 DEF Fresh, Overtaken, FindExistingCheckout, Go, Idle
<1>4. ASSUME NEW q \in Requests, StoreIdempotencyResult(q) PROVE Fresh'
  BY <1>4 DEF Fresh, Overtaken, StoreIdempotencyResult, Finish, Idle
<1>5. ASSUME NEW q \in Requests, StartTransaction(q) PROVE Fresh'
  BY <1>5 DEF Fresh, Overtaken, StartTransaction
<1>6. ASSUME NEW q \in Requests, PlaceOrder(q) PROVE Fresh'
  BY <1>6, CommitSeesWhatIs DEF Fresh, Overtaken, PlaceOrder, WriteCheckout,
       Commit, Idle
<1>7. ASSUME NEW q \in Requests, AbortTransaction(q) PROVE Fresh'
  BY <1>7 DEF Fresh, Overtaken, AbortTransaction, Go, Idle
<1>8. ASSUME NEW q \in Requests, ReleaseIdempotencyLock(q) PROVE Fresh'
  BY <1>8 DEF Fresh, Overtaken, ReleaseIdempotencyLock, Finish, Idle
<1>9. ASSUME NEW q \in Requests, StoreIdempotencyError(q) PROVE Fresh'
  BY <1>9 DEF Fresh, Overtaken, StoreIdempotencyError, Go, Finish, Idle
<1>10. ASSUME NEW q \in Requests, Die(q) PROVE Fresh'
  BY <1>10 DEF Fresh, Overtaken, Die, Finish, Idle
<1>11. ASSUME RivalBuys PROVE Fresh'
  BY <1>11 DEF Fresh, Overtaken, RivalBuys
<1>12. ASSUME LockExpires PROVE Fresh'
  BY <1>12 DEF Fresh, Overtaken, LockExpires
<1>13. ASSUME ErrorExpires PROVE Fresh'
  BY <1>13 DEF Fresh, Overtaken, ErrorExpires
<1>14. ASSUME KeyExpires PROVE Fresh'
  BY <1>14 DEF Fresh, Overtaken, KeyExpires
<1>15. ASSUME UNCHANGED placementVars PROVE Fresh'
  BY <1>15 DEF Fresh, Overtaken, placementVars
<1> QED BY <1>1, <1>2, <1>3, <1>4, <1>5, <1>6, <1>7, <1>8, <1>9, <1>10, <1>11,
<1>12, <1>13, <1>14, <1>15 DEF PlacementNext, KeyStep, TransactionStep

(* The cart is emptied with the checkout. *)
LEMMA CartStep ==
    ASSUME PlacementIInv, [PlacementNext]_placementVars
    PROVE  FullCart'
<1> USE DEF PlacementIInv, PlacementTypeOK, RequestState, STAGE, At, client,
            redis, mongo
<1>1. ASSUME NEW q \in Requests, CheckIdempotency(q) PROVE FullCart'
  BY <1>1 DEF FullCart, CheckIdempotency, Go, Idle
<1>2. ASSUME NEW q \in Requests, AcquireIdempotencyLock(q) PROVE FullCart'
  BY <1>2 DEF FullCart, AcquireIdempotencyLock, Go, Finish, Idle
<1>3. ASSUME NEW q \in Requests, FindExistingCheckout(q) PROVE FullCart'
  BY <1>3 DEF FullCart, FindExistingCheckout, Go, Idle
<1>4. ASSUME NEW q \in Requests, StoreIdempotencyResult(q) PROVE FullCart'
  BY <1>4 DEF FullCart, StoreIdempotencyResult, Finish, Idle
<1>5. ASSUME NEW q \in Requests, StartTransaction(q) PROVE FullCart'
  BY <1>5 DEF FullCart, StartTransaction
<1>6. ASSUME NEW q \in Requests, PlaceOrder(q) PROVE FullCart'
  BY <1>6, CommitSeesWhatIs DEF FullCart, PlaceOrder, WriteCheckout, Commit,
       Idle
<1>7. ASSUME NEW q \in Requests, AbortTransaction(q) PROVE FullCart'
  BY <1>7 DEF FullCart, AbortTransaction, Go, Idle
<1>8. ASSUME NEW q \in Requests, ReleaseIdempotencyLock(q) PROVE FullCart'
  BY <1>8 DEF FullCart, ReleaseIdempotencyLock, Finish, Idle
<1>9. ASSUME NEW q \in Requests, StoreIdempotencyError(q) PROVE FullCart'
  BY <1>9 DEF FullCart, StoreIdempotencyError, Go, Finish, Idle
<1>10. ASSUME NEW q \in Requests, Die(q) PROVE FullCart'
  BY <1>10 DEF FullCart, Die, Finish, Idle
<1>11. ASSUME RivalBuys PROVE FullCart'
  BY <1>11 DEF FullCart, RivalBuys
<1>12. ASSUME LockExpires PROVE FullCart'
  BY <1>12 DEF FullCart, LockExpires
<1>13. ASSUME ErrorExpires PROVE FullCart'
  BY <1>13 DEF FullCart, ErrorExpires
<1>14. ASSUME KeyExpires PROVE FullCart'
  BY <1>14 DEF FullCart, KeyExpires
<1>15. ASSUME UNCHANGED placementVars PROVE FullCart'
  BY <1>15 DEF FullCart, placementVars
<1> QED BY <1>1, <1>2, <1>3, <1>4, <1>5, <1>6, <1>7, <1>8, <1>9, <1>10, <1>11,
<1>12, <1>13, <1>14, <1>15 DEF PlacementNext, KeyStep, TransactionStep

(* Only the holder of the lock goes to work. *)
LEMMA AloneStep ==
    ASSUME PlacementIInv, [PlacementNext]_placementVars
    PROVE  (OneAtATime /\ Alone)'
<1> USE DEF PlacementIInv, PlacementTypeOK, RequestState, STAGE, At, client,
            redis, mongo
<1>1. ASSUME NEW q \in Requests, CheckIdempotency(q)
      PROVE  (OneAtATime /\ Alone)'
  BY <1>1 DEF OneAtATime, Alone, AtWork, CheckIdempotency, Go, Idle
<1>2. ASSUME NEW q \in Requests, AcquireIdempotencyLock(q)
      PROVE  (OneAtATime /\ Alone)'
  <2>1. CASE LockFree
    <3>1. /\ lock' /\ request' = [request EXCEPT ![q] = [Idle EXCEPT !.stage = "locked"]]
          /\ UNCHANGED <<keyed, overruns, groups>>
      BY <1>2, <2>1 DEF AcquireIdempotencyLock, Go
    <3>2. keyed /\ overruns = 0 => \A r \in Requests : ~AtWork(r)
      BY <2>1 DEF LockFree, Alone
    <3> QED BY <3>1, <3>2 DEF OneAtATime, Alone, AtWork, Idle
  <2>2. CASE ~LockFree
    BY <1>2, <2>2 DEF AcquireIdempotencyLock, Finish, Idle, OneAtATime, Alone,
         AtWork
  <2> QED BY <2>1, <2>2
<1>3. ASSUME NEW q \in Requests, FindExistingCheckout(q)
      PROVE  (OneAtATime /\ Alone)'
  BY <1>3 DEF OneAtATime, Alone, AtWork, FindExistingCheckout, Go, Idle
<1>4. ASSUME NEW q \in Requests, StoreIdempotencyResult(q)
      PROVE  (OneAtATime /\ Alone)'
  BY <1>4 DEF OneAtATime, Alone, AtWork, StoreIdempotencyResult, Finish, Idle
<1>5. ASSUME NEW q \in Requests, StartTransaction(q)
      PROVE  (OneAtATime /\ Alone)'
  BY <1>5 DEF OneAtATime, Alone, AtWork, StartTransaction
<1>6. ASSUME NEW q \in Requests, PlaceOrder(q) PROVE (OneAtATime /\ Alone)'
  BY <1>6 DEF OneAtATime, Alone, AtWork, PlaceOrder, WriteCheckout, Commit,
       Idle
<1>7. ASSUME NEW q \in Requests, AbortTransaction(q)
      PROVE  (OneAtATime /\ Alone)'
  BY <1>7 DEF OneAtATime, Alone, AtWork, AbortTransaction, Go, Idle
<1>8. ASSUME NEW q \in Requests, ReleaseIdempotencyLock(q)
      PROVE  (OneAtATime /\ Alone)'
  BY <1>8 DEF OneAtATime, Alone, AtWork, ReleaseIdempotencyLock, Finish, Idle
<1>9. ASSUME NEW q \in Requests, StoreIdempotencyError(q)
      PROVE  (OneAtATime /\ Alone)'
  BY <1>9 DEF OneAtATime, Alone, AtWork, StoreIdempotencyError, Go, Finish,
       Idle
<1>10. ASSUME NEW q \in Requests, Die(q) PROVE (OneAtATime /\ Alone)'
  BY <1>10 DEF OneAtATime, Alone, AtWork, Die, Finish, Idle
<1>11. ASSUME RivalBuys PROVE (OneAtATime /\ Alone)'
  BY <1>11 DEF OneAtATime, Alone, AtWork, RivalBuys
<1>12. ASSUME LockExpires PROVE (OneAtATime /\ Alone)'
  BY <1>12 DEF OneAtATime, Alone, AtWork, LockExpires
<1>13. ASSUME ErrorExpires PROVE (OneAtATime /\ Alone)'
  BY <1>13 DEF OneAtATime, Alone, AtWork, ErrorExpires
<1>14. ASSUME KeyExpires PROVE (OneAtATime /\ Alone)'
  BY <1>14 DEF OneAtATime, Alone, AtWork, KeyExpires
<1>15. ASSUME UNCHANGED placementVars PROVE (OneAtATime /\ Alone)'
  BY <1>15 DEF OneAtATime, Alone, AtWork, placementVars
<1> QED BY <1>1, <1>2, <1>3, <1>4, <1>5, <1>6, <1>7, <1>8, <1>9, <1>10, <1>11,
<1>12, <1>13, <1>14, <1>15 DEF PlacementNext, KeyStep, TransactionStep

----------------------------------------------------------------------------
LEMMA PlacementInitInductive == PlacementInit => PlacementIInv
<1> SUFFICES ASSUME PlacementInit PROVE PlacementIInv
  OBVIOUS
<1> USE DEF PlacementInit
<1>1. PlacementTypeOK
  <2>1. Idle \in RequestState
    BY DEF Idle, RequestState, STAGE
  <2>2. request \in [Requests -> RequestState]
    BY <2>1
  <2>3. overruns \in 0..MaxOverruns
    BY OverrunsAssumption
  <2>4. /\ groups \in Nat /\ placed \in Nat /\ rival \in Nat
        /\ stock \in Nat /\ walletBalance \in Nat
    BY StockAssumption, BalanceAssumption
  <2>5. lock \in BOOLEAN /\ result \in BOOLEAN /\ error \in BOOLEAN /\ cart \in BOOLEAN
    BY Zenon
  <2> QED BY <2>2, <2>3, <2>4, <2>5, Zenon DEF PlacementTypeOK
<1>2. PaidForEachCheckout
  BY StockAssumption, BalanceAssumption DEF PaidForEachCheckout
<1>3. PlacedOnce /\ FullCart
  BY DEF PlacedOnce, FullCart
<1>4. OneAtATime /\ Fresh /\ Alone
  BY DEF OneAtATime, Fresh, Alone, AtWork, At, Idle
<1> QED BY <1>1, <1>2, <1>3, <1>4 DEF PlacementIInv

(* The inductive invariant holds in every reachable state. *)
THEOREM PlacementInductive == PlacementSpec => []PlacementIInv
<1>1. PlacementIInv /\ [PlacementNext]_placementVars => PlacementIInv'
  BY TypeStep, MoneyStep, OnceStep, FreshStep, CartStep, AloneStep
     DEF PlacementIInv
<1> QED BY <1>1, PlacementInitInductive, PTL DEF PlacementSpec

(* Balance and stock never go below zero, for any number of requests.      *)
THEOREM PlacementTypeCorrect == PlacementSpec => []PlacementTypeOK
<1>1. PlacementIInv => PlacementTypeOK
  BY DEF PlacementIInv
<1> QED BY <1>1, PlacementInductive, PTL

(* However many requests, retries and expired locks there are, a key has   *)
(* one checkout at a time and a cart is ordered once.                      *)
THEOREM CheckoutPlacedOnce == PlacementSpec => []PlacedOnce
<1>1. PlacementIInv => PlacedOnce
  BY DEF PlacementIInv
<1> QED BY <1>1, PlacementInductive, PTL

(* Whatever runs at once, wallet and stock account for every checkout.     *)
THEOREM EveryCheckoutIsPaid == PlacementSpec => []PaidForEachCheckout
<1>1. PlacementIInv => PaidForEachCheckout
  BY DEF PlacementIInv
<1> QED BY <1>1, PlacementInductive, PTL

(* Until a lock expires under a request, the key's lock excludes, though   *)
(* it is dropped without a look at its owner.                              *)
THEOREM LockExcludes == PlacementSpec => []OneAtATime
<1>1. PlacementIInv => OneAtATime
  BY DEF PlacementIInv
<1> QED BY <1>1, PlacementInductive, PTL

----------------------------------------------------------------------------
(* Every step is a step of the serial placement, or none of it.            *)
LEMMA SerialStep ==
    ASSUME PlacementIInv, [PlacementNext]_placementVars
    PROVE  [Serial!SerialNext]_(Serial!serialVars)
<1> USE DEF Serial!serialVars, Serial!client, client, mongo, redis
<1>1. ASSUME NEW q \in Requests, PlaceOrder(q) PROVE Serial!PlaceCheckout
  <2>1. Feasible(q)
    BY <1>1 DEF PlaceOrder
  <2>2. source = "CART" => cart
    BY <1>1, <2>1 DEF PlacementIInv, Fresh, Feasible, PlaceOrder
  <2>3. keyed => groups = 0
    BY <1>1, CommitSeesWhatIs
  <2> QED BY <1>1, <2>2, <2>3, CommitSeesWhatIs
          DEF PlaceOrder, WriteCheckout, Serial!PlaceCheckout
<1>2. CASE RivalBuys
  BY <1>2 DEF RivalBuys, Serial!SerialNext, Serial!SellToRival
<1>3. CASE KeyExpires
  BY <1>3 DEF KeyExpires, Serial!SerialNext, Serial!ForgetKey
<1>4. ASSUME NEW q \in Requests, KeyStep(q) PROVE UNCHANGED Serial!serialVars
  BY <1>4 DEF KeyStep, CheckIdempotency, AcquireIdempotencyLock,
     FindExistingCheckout, StoreIdempotencyResult, StoreIdempotencyError,
     ReleaseIdempotencyLock
<1>5. ASSUME NEW q \in Requests, StartTransaction(q) \/ AbortTransaction(q) \/ Die(q)
      PROVE  UNCHANGED Serial!serialVars
  BY <1>5 DEF StartTransaction, AbortTransaction, Die
<1>6. CASE LockExpires \/ ErrorExpires \/ UNCHANGED placementVars
  BY <1>6 DEF LockExpires, ErrorExpires, placementVars
<1> QED
  BY <1>1, <1>2, <1>3, <1>4, <1>5, <1>6
  DEF PlacementNext, TransactionStep, Serial!SerialNext

(* Overlapping requests are serializable, for any number of them and any   *)
(* number of locks that expire under a request: each checkout is placed as *)
(* if nothing else were under way.                                         *)
THEOREM PlacementIsSerial == PlacementSpec => PlacementKept
<1>1. PlacementInit => Serial!SerialInit
  BY DEF PlacementInit, Serial!SerialInit
<1> QED
  BY <1>1, SerialStep, PlacementInductive, PTL
  DEF PlacementSpec, PlacementKept, Serial!SerialSpec
============================================================================
