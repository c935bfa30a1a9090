------------------------- MODULE OrderSearchProofs -------------------------
(* The search for a rider: why it comes to an end although the Bull worker *)
(* and the sweep end the same attempts, each on what it read some time     *)
(* ago, and neither update tests the attempt.                              *)
(*                                                                         *)
(* The measure is a floor: the least attempt anybody still works from.  A  *)
(* worker that has read attempt a writes a + 1, so a late worker may set   *)
(* the search back, but only to the attempt after the one it has read, and *)
(* only once: what it reads next is no lower than the floor.               *)
EXTENDS OrderProgressProofs

sweep == timeoutRead["sweep"]
bull  == timeoutRead["bull"]

Searching ==
    workflowStatus = "DELIVERY_SEARCH" /\ "noRiderAvailable" \notin alerts

(* What a worker has read, if anything, is no older than attempt k. *)
Fresh(read, k) == read = 0 \/ read >= k

----------------------------------------------------------------------------
(* A search begins with its first attempt. *)
AttemptInv == workflowStatus = "DELIVERY_SEARCH" => attempt # 0

(* What one step of any handler does to the search while it goes on: it    *)
(* leaves it alone, or lets its window end, or one worker reads or ends an *)
(* attempt.                                                                *)
Untouched ==
    /\ UNCHANGED <<attempt, timeoutRead>>
    /\ "search" \in expired => "search" \in expired'

Reads(w, other) ==
    /\ timeoutRead[w] = 0
    /\ timeoutRead'[w] \in {0, attempt}
    /\ timeoutRead'[other] = timeoutRead[other]
    /\ UNCHANGED <<attempt, expired>>

Widens(w, other) ==
    /\ timeoutRead[w] # 0
    /\ timeoutRead'[w] = 0
    /\ timeoutRead'[other] = timeoutRead[other]
    /\ attempt' = timeoutRead[w] + 1

SearchMoves ==
    \/ Untouched
    \/ Reads("bull", "sweep") \/ Reads("sweep", "bull")
    \/ Widens("bull", "sweep") \/ Widens("sweep", "bull")

LEMMA StepMovesSearch ==
  ASSUME TypeOK, Searching, Searching', crashes' = crashes, [Next]_vars
  PROVE  SearchMoves
<1> USE DEF SearchMoves, Untouched, Searching, TypeOK, TimeoutWorkers, orderVars
<1>1. CASE AfterPlaceOrder \/ SellerAcceptJobs \/ DeliveryAcceptJobs \/ PollRead \/ PollWrite
  BY <1>1 DEF AfterPlaceOrder, SellerAcceptJobs, DeliveryAcceptJobs, PollRead, PollWrite
<1>2. CASE HandleOnlineOrderFinance \/ MoveOrderToSellerPending
  BY <1>2 DEF HandleOnlineOrderFinance, MoveOrderToSellerPending, AwaitsPayment
<1>3. CASE PaymentFailed \/ CancelOnlinePaymentAttempt
  BY <1>3 DEF PaymentFailed, CancelOnlinePaymentAttempt, CancelUnpaidOrder
<1>4. CASE SellerReject \/ CustomerCancel \/ PaymentTimeoutSweep
  BY <1>4 DEF SellerReject, CustomerCancel, CancelPendingOrder, PaymentTimeoutSweep,
     WriteCancelled
<1>5. CASE SellerAccept
  BY <1>5 DEF SellerAccept
<1>6. CASE ReleaseReservedStock \/ SaveRelease \/ ReverseOrderFinance
  BY <1>6 DEF ReleaseReservedStock, SaveRelease, ReverseOrderFinance, CompensationFrame
<1>7. CASE BullSellerTimeout \/ SweepSellerTimeout
  BY <1>7 DEF BullSellerTimeout, SweepSellerTimeout, RaiseSellerDelay
<1>8. CASE BullDeliveryTimeout
  <2>1. Reads("bull", "sweep")
    BY <1>8 DEF BullDeliveryTimeout, ReadDeliveryTimeout, Reads
  <2> QED BY <2>1
<1>9. CASE SweepDeliveryTimeout
  <2>1. Reads("sweep", "bull")
    BY <1>9 DEF SweepDeliveryTimeout, ReadDeliveryTimeout, Reads
  <2> QED BY <2>1
<1>10. CASE FinishDeliveryTimeout("bull")
  <2>1. MoreAttempts(timeoutRead["bull"])
    BY <1>10 DEF FinishDeliveryTimeout, SearchIsOver
  <2>2. timeoutRead["bull"] # 0 /\ attempt' = timeoutRead["bull"] + 1
    BY <1>10, <2>1 DEF FinishDeliveryTimeout
  <2>3. timeoutRead' = [timeoutRead EXCEPT !["bull"] = 0]
    BY <1>10 DEF FinishDeliveryTimeout
  <2>4. Widens("bull", "sweep")
    BY <2>2, <2>3 DEF Widens
  <2> QED BY <2>4
<1>11. CASE FinishDeliveryTimeout("sweep")
  <2>1. MoreAttempts(timeoutRead["sweep"])
    BY <1>11 DEF FinishDeliveryTimeout, SearchIsOver
  <2>2. timeoutRead["sweep"] # 0 /\ attempt' = timeoutRead["sweep"] + 1
    BY <1>11, <2>1 DEF FinishDeliveryTimeout
  <2>3. timeoutRead' = [timeoutRead EXCEPT !["sweep"] = 0]
    BY <1>11 DEF FinishDeliveryTimeout
  <2>4. Widens("sweep", "bull")
    BY <2>2, <2>3 DEF Widens
  <2> QED BY <2>4
<1>12. CASE \E r \in Riders : \/ DeliveryAccept(r) \/ SkipOrder(r)
                             \/ MarkArrivedAtStore(r) \/ ConfirmPickup(r)
                             \/ RequestHandoffOtp(r)
                             \/ \E t \in Taps : VerifyOtp(t, r)
  BY <1>12 DEF DeliveryAccept, SkipOrder, MarkArrivedAtStore, ConfirmPickup, RiderMoves,
     RequestHandoffOtp, VerifyOtp
<1>13. CASE \E t \in Taps : \/ ConsumeOtp(t) \/ FinalizeDelivery(t)
                           \/ ApplyDeliveredSettlement(t)
  BY <1>13 DEF ConsumeOtp, FinalizeDelivery, ApplyDeliveredSettlement
<1>14. CASE SellerWindowEnds \/ SearchWindowEnds \/ ReservationEnds
  BY <1>14 DEF SellerWindowEnds, SearchWindowEnds, ReservationEnds, WindowEnds
<1>15. ~Crash
  <2>1. crashes \in Nat BY CrashesAssumption
  <2> QED BY <2>1 DEF Crash
<1>16. CASE UNCHANGED vars
  BY <1>16 DEF vars
<1> QED
  BY <1>1, <1>2, <1>3, <1>4, <1>5, <1>6, <1>7, <1>8, <1>9, <1>10, <1>11,
     <1>12, <1>13, <1>14, <1>15, <1>16 DEF Next, TimeoutWorkers

LEMMA AttemptInvNext ==
  ASSUME TypeOK, AttemptInv, [Next]_vars
  PROVE  AttemptInv'
<1> USE DEF AttemptInv, TypeOK, orderVars
<1>1. CASE AfterPlaceOrder \/ SellerAcceptJobs \/ DeliveryAcceptJobs \/ PollRead \/ PollWrite
  BY <1>1 DEF AfterPlaceOrder, SellerAcceptJobs, DeliveryAcceptJobs, PollRead, PollWrite
<1>2. CASE HandleOnlineOrderFinance \/ MoveOrderToSellerPending
  BY <1>2 DEF HandleOnlineOrderFinance, MoveOrderToSellerPending, AwaitsPayment
<1>3. CASE PaymentFailed \/ CancelOnlinePaymentAttempt
  BY <1>3 DEF PaymentFailed, CancelOnlinePaymentAttempt, CancelUnpaidOrder, WriteCancelled
<1>4. CASE SellerReject \/ CustomerCancel \/ PaymentTimeoutSweep
  BY <1>4 DEF SellerReject, CustomerCancel, CancelPendingOrder, PaymentTimeoutSweep,
     WriteCancelled
<1>5. CASE SellerAccept
  BY <1>5 DEF SellerAccept
<1>6. CASE ReleaseReservedStock \/ SaveRelease \/ ReverseOrderFinance
  BY <1>6 DEF ReleaseReservedStock, SaveRelease, ReverseOrderFinance, CompensationFrame
<1>7. CASE BullSellerTimeout \/ SweepSellerTimeout
  BY <1>7 DEF BullSellerTimeout, SweepSellerTimeout, RaiseSellerDelay
<1>8. CASE BullDeliveryTimeout \/ SweepDeliveryTimeout
  BY <1>8 DEF BullDeliveryTimeout, SweepDeliveryTimeout, ReadDeliveryTimeout
<1>9. CASE \E w \in TimeoutWorkers : FinishDeliveryTimeout(w)
  <2>1. PICK w \in TimeoutWorkers : FinishDeliveryTimeout(w) BY <1>9
  <2>2. /\ attempt' = attempt \/ attempt' = timeoutRead[w] + 1
        /\ UNCHANGED orderVars
    BY <2>1 DEF FinishDeliveryTimeout
  <2>3. timeoutRead[w] + 1 # 0 BY AttemptsAssumption
  <2> QED BY <2>2, <2>3
<1>10. CASE \E r \in Riders : \/ DeliveryAccept(r) \/ SkipOrder(r)
                             \/ MarkArrivedAtStore(r) \/ ConfirmPickup(r)
                             \/ RequestHandoffOtp(r)
                             \/ \E t \in Taps : VerifyOtp(t, r)
  BY <1>10 DEF DeliveryAccept, SkipOrder, MarkArrivedAtStore, ConfirmPickup, RiderMoves,
     RequestHandoffOtp, VerifyOtp
<1>11. CASE \E t \in Taps : \/ ConsumeOtp(t) \/ FinalizeDelivery(t)
                           \/ ApplyDeliveredSettlement(t)
  BY <1>11 DEF ConsumeOtp, FinalizeDelivery, ApplyDeliveredSettlement
<1>12. CASE SellerWindowEnds \/ SearchWindowEnds \/ ReservationEnds
  BY <1>12 DEF SellerWindowEnds, SearchWindowEnds, ReservationEnds, WindowEnds
<1>13. CASE Crash
  BY <1>13 DEF Crash
<1>14. CASE UNCHANGED vars
  BY <1>14 DEF vars
<1> QED
  BY <1>1, <1>2, <1>3, <1>4, <1>5, <1>6, <1>7, <1>8, <1>9, <1>10, <1>11,
     <1>12, <1>13, <1>14 DEF Next

SearchInv == TypeOK /\ AttemptInv

LEMMA SearchInvHolds == Spec => []SearchInv
<1>1. Init => SearchInv
  BY TypeInit DEF Init, SearchInv, AttemptInv, PlacedStatus
<1>2. SearchInv /\ [Next]_vars => SearchInv'
  BY TypeNext, AttemptInvNext DEF SearchInv
<1> QED BY <1>1, <1>2, PTL DEF Spec

----------------------------------------------------------------------------
(* One round.  The order is searching, at attempt k or later, and the      *)
(* sweep has read none that would set it back below k.                     *)
Floor(k) == Searching /\ attempt >= k /\ Fresh(sweep, k - 1)

(* The system from some point on: no handler dies any more, clocks advance *)
(* and the sweep goes on.                                                  *)
Runs(c) ==
    /\ []SearchInv /\ [][Next]_vars /\ []GuardsEnable /\ [](crashes = c)
    /\ WF_vars(SearchWindowEnds)
    /\ WF_vars(SweepDeliveryTimeout)
    /\ WF_vars(FinishDeliveryTimeout("sweep"))

(* Where the sweep stands in a round, while what the Bull worker has read  *)
(* stays in B.                                                             *)
Round(k, B)   == Floor(k) /\ bull \in B
Behind(k, B)  == Round(k, B) /\ sweep # 0 /\ sweep < k
Abreast(k, B) == Round(k, B) /\ Fresh(sweep, k)
Ready(k, B)   == Round(k, B) /\ sweep # 0 /\ sweep >= k
Over(k, B)    == Round(k, B) /\ sweep = 0 /\ "search" \in expired
RoundOut(k, B) == ~Searching \/ bull \notin B \/ Round(k + 1, B)

(* B is closed: a worker that is idle or becomes idle stays in it only if  *)
(* all it can write is k + 1 or more.                                      *)
Closed(k, B) == 0 \in B => \A v \in B : Fresh(v, k)

LEMMA RoundSteps ==
  ASSUME NEW k \in Nat \ {0}, NEW B, Closed(k, B),
         SearchInv, crashes' = crashes, [Next]_vars
  PROVE  /\ Round(k, B) => Round(k, B)' \/ RoundOut(k, B)'
         /\ Abreast(k, B) => Abreast(k, B)' \/ RoundOut(k, B)'
         /\ Ready(k, B) => Ready(k, B)' \/ RoundOut(k, B)'
         /\ Over(k, B) => Over(k, B)' \/ Ready(k, B)' \/ RoundOut(k, B)'
<1> SUFFICES ASSUME Round(k, B), Searching'
             PROVE  /\ Round(k, B)' \/ RoundOut(k, B)'
                    /\ Abreast(k, B) => Abreast(k, B)' \/ RoundOut(k, B)'
                    /\ Ready(k, B) => Ready(k, B)' \/ RoundOut(k, B)'
                    /\ Over(k, B) => Over(k, B)' \/ Ready(k, B)' \/ RoundOut(k, B)'
  BY DEF RoundOut, Abreast, Ready, Over
<1> USE DEF Round, Abreast, Ready, Over, RoundOut, Floor, Fresh, sweep, bull
<1>1. SearchMoves
  BY StepMovesSearch DEF SearchInv
<1>2. /\ attempt \in Nat /\ attempt' \in Nat
      /\ timeoutRead["sweep"] \in Nat /\ timeoutRead["bull"] \in Nat
  BY TypeNext, AttemptsAssumption DEF SearchInv, TypeOK, TimeoutWorkers
<1>3. CASE Untouched
  BY <1>3 DEF Untouched
<1>4. CASE Reads("bull", "sweep")
  BY <1>2, <1>4 DEF Reads
<1>5. CASE Reads("sweep", "bull")
  BY <1>2, <1>5 DEF Reads
<1>6. CASE Widens("bull", "sweep")
  BY <1>2, <1>6 DEF Widens, Closed
<1>7. CASE Widens("sweep", "bull")
  BY <1>2, <1>7 DEF Widens
<1> QED BY <1>1, <1>3, <1>4, <1>5, <1>6, <1>7 DEF SearchMoves

RoundTerminates(c, k, B) == Runs(c) => (Round(k, B) ~> RoundOut(k, B))

(* A round ends: the sweep catches up, the window ends, the sweep reads    *)
(* the attempt and ends it, unless the Bull worker intervenes.             *)
LEMMA RoundEnds ==
  ASSUME NEW c, NEW k \in Nat \ {0}, NEW B, Closed(k, B)
  PROVE  RoundTerminates(c, k, B)
<1> USE DEF RoundTerminates
<1> DEFINE Calm == crashes = c
           Idle == sweep = 0
           Shut == "search" \in expired
           N == SearchInv /\ Calm /\ Calm' /\ [Next]_vars
           Kept == Round(k, B)
           Behind1 == Behind(k, B)
           Abreast1 == Abreast(k, B)
           Ready1 == Ready(k, B)
           Over1 == Over(k, B)
           Out == RoundOut(k, B)
<1>1. N /\ Kept => Kept' \/ Out'
  BY RoundSteps
<1>2. N /\ Abreast1 => Abreast1' \/ Out'
  BY RoundSteps
<1>3. N /\ Ready1 => Ready1' \/ Out'
  BY RoundSteps
<1>4. N /\ Over1 => Over1' \/ Ready1' \/ Out'
  BY RoundSteps
<1>5. SearchInv /\ Kept => Behind1 \/ Abreast1
  <2>1. SearchInv => sweep \in Nat
    BY AttemptsAssumption DEF SearchInv, TypeOK, sweep, TimeoutWorkers
  <2> QED BY <2>1 DEF Behind, Abreast, Fresh
<1>6. Abreast1 => Ready1 \/ Idle
  BY DEF Abreast, Ready, Fresh
<1>7. Behind1 => Kept
  BY DEF Behind
<1>8. Behind1 \/ Ready1 => ~Idle
  BY DEF Behind, Ready
<1>9. SearchInv /\ <<FinishDeliveryTimeout("sweep")>>_vars => Idle'
  BY DEF FinishDeliveryTimeout, SearchInv, TypeOK, TimeoutWorkers, sweep
<1>10. Abreast1 /\ Idle /\ Shut => Over1
  BY DEF Abreast, Over
<1>11. <<SearchWindowEnds>>_vars => Shut'
  BY DEF SearchWindowEnds, WindowEnds
<1>12. SearchInv /\ Over1 /\ <<SweepDeliveryTimeout>>_vars => ~Idle'
  BY DEF SweepDeliveryTimeout, ReadDeliveryTimeout, SearchInv, AttemptInv, TypeOK,
     TimeoutWorkers, sweep
<1>13. ~Idle /\ GuardsEnable => ENABLED <<FinishDeliveryTimeout("sweep")>>_vars
  BY DEF GuardsEnable, sweep
<1>14. SearchInv /\ Kept /\ ~Shut /\ GuardsEnable
          => ENABLED <<SearchWindowEnds>>_vars
  BY DEF GuardsEnable, SearchInv, AttemptInv, Round, Floor, Searching, searchStarted
<1>15. SearchInv /\ Over1 /\ GuardsEnable => ENABLED <<SweepDeliveryTimeout>>_vars
  BY DEF GuardsEnable, SearchInv, AttemptInv, Over, Round, Floor, Searching,
     searchStarted, sweep
<1>16. Over1 => Idle /\ Kept
  BY DEF Over
<1>17. Behind1 \/ Abreast1 \/ Ready1 => Kept
  BY DEF Behind, Abreast, Ready
<1>18. Runs(c) => (Ready1 ~> Out)
  BY <1>3, <1>8, <1>9, <1>13, PTL DEF Runs
<1>19. Runs(c) => (Over1 ~> Out)
  BY <1>4, <1>12, <1>15, <1>16, <1>18, PTL DEF Runs
<1>20. Runs(c) => (Abreast1 ~> Out)
  BY <1>2, <1>6, <1>10, <1>11, <1>14, <1>17, <1>18, <1>19, PTL DEF Runs
<1>21. Runs(c) => (Behind1 ~> Abreast1 \/ Out)
  BY <1>1, <1>5, <1>7, <1>8, <1>9, <1>13, PTL DEF Runs
<1> QED BY <1>5, <1>20, <1>21, PTL DEF Runs

----------------------------------------------------------------------------
(* A worker that stays late does no harm: while the Bull worker holds on   *)
(* to what it has read, the sweep widens the search until it is over.      *)
BullMovesOn(c, b) == Runs(c) => (Searching /\ bull = b ~> ~Searching \/ bull # b)

LEMMA BullMovesOrSearchEnds ==
  ASSUME NEW c, NEW b \in Nat, MaxAttempts <= 3
  PROVE  BullMovesOn(c, b)
<1> DEFINE Busy == Searching /\ bull = b
           Out == ~Searching \/ bull # b
           R(k) == Round(k, {b})
<1>1. \A k \in Nat \ {0} : Closed(k, {b})
  BY DEF Closed, Fresh
<1>2. RoundTerminates(c, 1, {b}) /\ RoundTerminates(c, 2, {b}) /\ RoundTerminates(c, 3, {b})
  BY <1>1, RoundEnds
<1>3. Runs(c) => (R(1) ~> RoundOut(1, {b}))
  BY <1>2 DEF RoundTerminates
<1>4. Runs(c) => (R(2) ~> RoundOut(2, {b}))
  BY <1>2 DEF RoundTerminates
<1>5. Runs(c) => (R(3) ~> RoundOut(3, {b}))
  BY <1>2 DEF RoundTerminates
<1>6. SearchInv /\ Busy => R(1)
  <2>1. SearchInv /\ Searching => attempt >= 1 /\ sweep \in Nat
    BY AttemptsAssumption
       DEF SearchInv, TypeOK, AttemptInv, Searching, sweep, TimeoutWorkers
  <2> QED BY <2>1 DEF Round, Floor, Fresh
<1>7. SearchInv => ~R(4)
  BY AttemptsAssumption DEF Round, Floor, SearchInv, TypeOK
<1>8. /\ RoundOut(1, {b}) => Out \/ R(2)
      /\ RoundOut(2, {b}) => Out \/ R(3)
      /\ RoundOut(3, {b}) => Out \/ R(4)
  BY DEF RoundOut
<1>9. Runs(c) => (Busy ~> Out)
  BY <1>3, <1>4, <1>5, <1>6, <1>7, <1>8, PTL DEF Runs
<1> QED BY <1>9 DEF BullMovesOn

(* Nobody works from an attempt before k. *)
Level(k) == Floor(k) /\ Fresh(bull, k - 1)

(* The attempts that do not set the search back below k + 1. *)
Current(k) == {v \in Nat : Fresh(v, k)}

(* No step lowers the floor: what a worker reads is the attempt, and what  *)
(* it writes comes after the one it has read.                              *)
LEMMA FloorKept ==
  ASSUME NEW k \in Nat \ {0}, SearchInv, Searching', crashes' = crashes, [Next]_vars
  PROVE  /\ Level(k) => Level(k)'
         /\ Round(k, Current(k)) => Round(k, Current(k))'
<1> SUFFICES ASSUME Searching
             PROVE  /\ Level(k) => Level(k)'
                    /\ Round(k, Current(k)) => Round(k, Current(k))'
  BY DEF Level, Round, Floor
<1> USE DEF Level, Round, Floor, Current, Fresh, sweep, bull
<1>1. SearchMoves
  BY StepMovesSearch DEF SearchInv
<1>2. /\ attempt \in Nat /\ attempt' \in Nat
      /\ timeoutRead["sweep"] \in Nat /\ timeoutRead["bull"] \in Nat
      /\ timeoutRead'["sweep"] \in Nat /\ timeoutRead'["bull"] \in Nat
  BY TypeNext, AttemptsAssumption DEF SearchInv, TypeOK, TimeoutWorkers
<1>3. CASE Untouched
  BY <1>2, <1>3 DEF Untouched
<1>4. CASE Reads("bull", "sweep")
  BY <1>2, <1>4 DEF Reads
<1>5. CASE Reads("sweep", "bull")
  BY <1>2, <1>5 DEF Reads
<1>6. CASE Widens("bull", "sweep")
  BY <1>2, <1>6 DEF Widens
<1>7. CASE Widens("sweep", "bull")
  BY <1>2, <1>7 DEF Widens
<1> QED BY <1>1, <1>3, <1>4, <1>5, <1>6, <1>7 DEF SearchMoves

(* The floor rises, or the search ends: a late Bull worker moves on, and   *)
(* then the round at attempt k ends.                                       *)
LevelGivesWay(c, k) == Runs(c) => (Level(k) ~> ~Searching \/ Level(k + 1))

LEMMA LevelRises ==
  ASSUME NEW c, NEW k \in Nat \ {0}, MaxAttempts <= 3
  PROVE  LevelGivesWay(c, k)
<1> DEFINE Calm == crashes = c
           N == SearchInv /\ Calm /\ Calm' /\ [Next]_vars
           L == Level(k)
           Fine == Round(k, Current(k))
           Late == Searching /\ bull = k - 1
           Past == ~Searching \/ bull # k - 1
           Gone == ~Searching
           Up == Level(k + 1)
           Out == RoundOut(k, Current(k))
<1>1. N /\ L => L' \/ Gone'
  BY FloorKept
<1>2. N /\ Fine => Fine' \/ Gone'
  BY FloorKept
<1>3. SearchInv /\ L => Fine \/ Late
  <2>1. SearchInv => bull \in Nat
    BY AttemptsAssumption DEF SearchInv, TypeOK, bull, TimeoutWorkers
  <2> QED BY <2>1 DEF Level, Round, Floor, Current, Fresh
<1>4. SearchInv /\ L /\ Past => Fine \/ Gone
  BY <1>3
<1>5. Runs(c) => (Late ~> Past)
  <2>1. BullMovesOn(c, k - 1)
    BY BullMovesOrSearchEnds
  <2> QED BY <2>1 DEF BullMovesOn
<1>6. Runs(c) => (Fine ~> Out)
  <2>1. Closed(k, Current(k))
    BY DEF Closed, Current
  <2>2. RoundTerminates(c, k, Current(k))
    BY <2>1, RoundEnds
  <2> QED BY <2>2 DEF RoundTerminates
<1>7. Fine /\ Out => Gone \/ Up
  BY DEF Round, RoundOut, Level, Current
<1>8. Runs(c) => (L ~> Fine \/ Gone)
  BY <1>1, <1>3, <1>4, <1>5, PTL DEF Runs
<1>9. Runs(c) => (Fine ~> Gone \/ Up)
  BY <1>2, <1>6, <1>7, PTL DEF Runs
<1>10. Runs(c) => (L ~> Gone \/ Up)
  BY <1>8, <1>9, PTL DEF Runs
<1> QED BY <1>10 DEF LevelGivesWay

(* From the point where no handler dies any more every search ends. *)
LEMMA SearchEnds ==
  ASSUME NEW c, MaxAttempts <= 3
  PROVE  Runs(c) => (Searching ~> ~Searching)
<1> DEFINE Gone == ~Searching
           L(k) == Level(k)
<1>1. LevelGivesWay(c, 1) /\ LevelGivesWay(c, 2) /\ LevelGivesWay(c, 3)
  BY LevelRises
<1>2. Runs(c) => (L(1) ~> Gone \/ L(1 + 1))
  BY <1>1 DEF LevelGivesWay
<1>3. Runs(c) => (L(2) ~> Gone \/ L(2 + 1))
  BY <1>1 DEF LevelGivesWay
<1>4. Runs(c) => (L(3) ~> Gone \/ L(3 + 1))
  BY <1>1 DEF LevelGivesWay
<1>5. SearchInv /\ Searching => L(1)
  <2>1. SearchInv /\ Searching => attempt >= 1 /\ sweep \in Nat /\ bull \in Nat
    BY AttemptsAssumption
       DEF SearchInv, TypeOK, AttemptInv, Searching, sweep, bull, TimeoutWorkers
  <2> QED BY <2>1 DEF Level, Floor, Fresh
<1>6. SearchInv => ~L(4)
  BY AttemptsAssumption DEF Level, Floor, SearchInv, TypeOK
<1>7. (L(1 + 1) => L(2)) /\ (L(2 + 1) => L(3)) /\ (L(3 + 1) => L(4))
  <2>1. 1 + 1 = 2 /\ 2 + 1 = 3 /\ 3 + 1 = 4
    OBVIOUS
  <2> QED BY <2>1, Zenon
<1> QED BY <1>2, <1>3, <1>4, <1>5, <1>6, <1>7, PTL DEF Runs

----------------------------------------------------------------------------
(* The alert, for behaviours in which c handlers die and then no more. *)
RaisedAfter(c) == FairSpec /\ []GuardsEnable /\ <>[](crashes = c) => FailedSearchIsRaised

LEMMA SearchIsRaised ==
  ASSUME MaxAttempts <= 3, NEW c
  PROVE  RaisedAfter(c)
<1> DEFINE Q == workflowStatus # "DELIVERY_SEARCH" \/ "noRiderAvailable" \in alerts
<1>1. Runs(c) => (Searching ~> ~Searching)
  BY SearchEnds
<1>2. FairSpec => /\ Spec /\ WF_vars(SearchWindowEnds) /\ WF_vars(SweepDeliveryTimeout)
                  /\ WF_vars(FinishDeliveryTimeout("sweep"))
  BY PTL DEF FairSpec, Fairness
<1>3. FairSpec /\ []GuardsEnable /\ <>[](crashes = c) => <>Runs(c)
  BY <1>2, SearchInvHolds, PTL DEF Runs, Spec
<1>4. <>Runs(c) => []<>~Searching
  BY <1>1, PTL
<1>5. ~Searching => Q
  BY DEF Searching
<1>6. FairSpec /\ []GuardsEnable /\ <>[](crashes = c) =>
          (workflowStatus = "DELIVERY_SEARCH" ~> Q)
  BY <1>3, <1>4, <1>5, PTL
<1> QED BY <1>6 DEF FailedSearchIsRaised, RaisedAfter

(* A search no rider answers ends in the alert, however the Bull worker    *)
(* and the sweep overlap: for any number of riders, verify requests and    *)
(* crashes, once the crashes have come to an end, and for as many attempts *)
(* as the service makes unless it is configured otherwise (three).         *)
THEOREM FailedSearchesAreRaised ==
  ASSUME MaxAttempts <= 3, NEW c
  PROVE  FairSpec /\ []GuardsEnable /\ <>[](crashes = c) => FailedSearchIsRaised
BY SearchIsRaised DEF RaisedAfter

(* Only a crash counts as one. *)
LEMMA CrashesCounted ==
  ASSUME TypeOK, [Next]_vars
  PROVE  crashes' = crashes \/ (crashes < MaxCrashes /\ crashes' = crashes + 1)
<1>1. CASE AfterPlaceOrder \/ SellerAcceptJobs \/ DeliveryAcceptJobs \/ PollRead \/ PollWrite
  BY <1>1 DEF AfterPlaceOrder, SellerAcceptJobs, DeliveryAcceptJobs, PollRead, PollWrite
<1>2. CASE HandleOnlineOrderFinance \/ MoveOrderToSellerPending \/ SellerAccept
  BY <1>2 DEF HandleOnlineOrderFinance, MoveOrderToSellerPending, SellerAccept
<1>3. CASE PaymentFailed \/ CancelOnlinePaymentAttempt
  BY <1>3 DEF PaymentFailed, CancelOnlinePaymentAttempt, CancelUnpaidOrder
<1>4. CASE SellerReject \/ CustomerCancel \/ PaymentTimeoutSweep
  BY <1>4 DEF SellerReject, CustomerCancel, CancelPendingOrder, PaymentTimeoutSweep
<1>5. CASE ReleaseReservedStock \/ SaveRelease \/ ReverseOrderFinance
  BY <1>5 DEF ReleaseReservedStock, SaveRelease, ReverseOrderFinance, CompensationFrame
<1>6. CASE BullSellerTimeout \/ SweepSellerTimeout
  BY <1>6 DEF BullSellerTimeout, SweepSellerTimeout, RaiseSellerDelay
<1>7. CASE BullDeliveryTimeout \/ SweepDeliveryTimeout
  BY <1>7 DEF BullDeliveryTimeout, SweepDeliveryTimeout, ReadDeliveryTimeout
<1>8. CASE \E w \in TimeoutWorkers : FinishDeliveryTimeout(w)
  BY <1>8 DEF FinishDeliveryTimeout
<1>9. CASE \E r \in Riders : \/ DeliveryAccept(r) \/ SkipOrder(r)
                            \/ MarkArrivedAtStore(r) \/ ConfirmPickup(r)
                            \/ RequestHandoffOtp(r)
                            \/ \E t \in Taps : VerifyOtp(t, r)
  BY <1>9 DEF DeliveryAccept, SkipOrder, MarkArrivedAtStore, ConfirmPickup, RiderMoves,
     RequestHandoffOtp, VerifyOtp
<1>10. CASE \E t \in Taps : \/ ConsumeOtp(t) \/ FinalizeDelivery(t)
                           \/ ApplyDeliveredSettlement(t)
  BY <1>10 DEF ConsumeOtp, FinalizeDelivery, ApplyDeliveredSettlement
<1>11. CASE SellerWindowEnds \/ SearchWindowEnds \/ ReservationEnds
  BY <1>11 DEF SellerWindowEnds, SearchWindowEnds, ReservationEnds, WindowEnds
<1>12. CASE Crash
  BY <1>12 DEF Crash
<1>13. CASE UNCHANGED vars
  BY <1>13 DEF vars
<1> QED
  BY <1>1, <1>2, <1>3, <1>4, <1>5, <1>6, <1>7, <1>8, <1>9, <1>10, <1>11,
     <1>12, <1>13 DEF Next

(* With one crash at most, as in the run, the crashes do come to an end.   *)
THEOREM OneCrashDelaysNoSearch ==
  ASSUME MaxAttempts <= 3, MaxCrashes <= 1
  PROVE  FairSpec /\ []GuardsEnable => FailedSearchIsRaised
<1> DEFINE None == crashes = 0
           One == crashes = 1
<1>1. TypeOK => None \/ One
  BY CrashesAssumption DEF TypeOK
<1>2. TypeOK /\ One /\ [Next]_vars => One'
  BY CrashesCounted, CrashesAssumption
<1>3. FairSpec /\ []GuardsEnable /\ <>[]None => FailedSearchIsRaised
  <2>1. RaisedAfter(0)
    BY SearchIsRaised
  <2> QED BY <2>1 DEF RaisedAfter
<1>4. FairSpec /\ []GuardsEnable /\ <>[]One => FailedSearchIsRaised
  <2>1. RaisedAfter(1)
    BY SearchIsRaised
  <2> QED BY <2>1 DEF RaisedAfter
<1>5. FairSpec => Spec
  BY PTL DEF FairSpec
<1> QED BY <1>1, <1>2, <1>3, <1>4, <1>5, TypeCorrect, PTL DEF Spec

----------------------------------------------------------------------------
(* What becomes of a search that is exhausted. *)
GivenUp == paymentMode = "ONLINE" /\ workflowStatus' = "CANCELLED"

LEMMA ExhaustedStep ==
  ASSUME TypeOK, SearchExhausted, [Next]_vars
  PROVE  SearchExhausted' \/ GivenUp
<1> USE AttemptsAssumption
<1> USE DEF SearchExhausted, TypeOK, TimeoutWorkers, orderVars
<1>1. CASE AfterPlaceOrder \/ SellerAcceptJobs \/ DeliveryAcceptJobs \/ PollRead \/ PollWrite
  BY <1>1 DEF AfterPlaceOrder, SellerAcceptJobs, DeliveryAcceptJobs, PollRead, PollWrite
<1>2. CASE HandleOnlineOrderFinance \/ MoveOrderToSellerPending
  BY <1>2 DEF HandleOnlineOrderFinance, MoveOrderToSellerPending, AwaitsPayment
<1>3. CASE PaymentFailed \/ CancelOnlinePaymentAttempt
  BY <1>3 DEF PaymentFailed, CancelOnlinePaymentAttempt, CancelUnpaidOrder, WriteCancelled,
     GivenUp
<1>4. ~(SellerAccept \/ SellerReject \/ CustomerCancel \/ PaymentTimeoutSweep)
  BY DEF SellerAccept, SellerReject, CustomerCancel, CancelPendingOrder, Cancellable,
     PaymentTimeoutSweep
<1>5. CASE ReleaseReservedStock \/ SaveRelease \/ ReverseOrderFinance
  BY <1>5 DEF ReleaseReservedStock, SaveRelease, ReverseOrderFinance, CompensationFrame
<1>6. CASE BullSellerTimeout \/ SweepSellerTimeout
  BY <1>6 DEF BullSellerTimeout, SweepSellerTimeout, RaiseSellerDelay
<1>7. CASE BullDeliveryTimeout \/ SweepDeliveryTimeout
  BY <1>7 DEF BullDeliveryTimeout, SweepDeliveryTimeout, ReadDeliveryTimeout
<1>8. CASE \E w \in TimeoutWorkers : FinishDeliveryTimeout(w)
  <2>1. PICK w \in TimeoutWorkers : FinishDeliveryTimeout(w) BY <1>8
  <2>2. ~MoreAttempts(timeoutRead[w])
    BY <2>1 DEF FinishDeliveryTimeout, MoreAttempts
  <2>3. /\ timeoutRead' = [timeoutRead EXCEPT ![w] = 0]
        /\ UNCHANGED <<attempt, expired, orderVars>>
    BY <2>1, <2>2 DEF FinishDeliveryTimeout
  <2> QED BY <2>3
<1>9. ~\E r \in Riders : DeliveryAccept(r)
  BY DEF DeliveryAccept
<1>10. CASE \E r \in Riders : \/ SkipOrder(r)
                             \/ MarkArrivedAtStore(r) \/ ConfirmPickup(r)
                             \/ RequestHandoffOtp(r)
                             \/ \E t \in Taps : VerifyOtp(t, r)
  BY <1>10 DEF SkipOrder, MarkArrivedAtStore, ConfirmPickup, RiderMoves,
     RequestHandoffOtp, VerifyOtp
<1>11. CASE \E t \in Taps : \/ ConsumeOtp(t) \/ FinalizeDelivery(t)
                           \/ ApplyDeliveredSettlement(t)
  BY <1>11 DEF ConsumeOtp, FinalizeDelivery, MayFinalize, ApplyDeliveredSettlement
<1>12. CASE SellerWindowEnds \/ SearchWindowEnds \/ ReservationEnds
  BY <1>12 DEF SellerWindowEnds, SearchWindowEnds, ReservationEnds, WindowEnds
<1>13. CASE Crash
  <2>1. UNCHANGED <<attempt, expired, orderVars>>
    BY <1>13 DEF Crash
  <2>2. \/ timeoutRead' = timeoutRead
        \/ \E w \in TimeoutWorkers : timeoutRead' = [timeoutRead EXCEPT ![w] = 0]
    BY <1>13 DEF Crash, CrashHandler, CrashCompensation, CrashTimeoutWorker, CrashVerify
  <2> QED BY <2>1, <2>2
<1>14. CASE UNCHANGED vars
  BY <1>14 DEF vars
<1> QED
  BY <1>1, <1>2, <1>3, <1>4, <1>5, <1>6, <1>7, <1>8, <1>9, <1>10, <1>11,
     <1>12, <1>13, <1>14 DEF Next

(* Once the last attempt is over nothing in the workflow service opens the *)
(* search again: neither a rider, a late worker, a crash nor a             *)
(* cancellation changes it, only an online payment that is given up.       *)
THEOREM ExhaustedSearchesStay == Spec => ExhaustedSearchStays
<1>1. TypeOK /\ [Next]_vars
         => [SearchExhausted =>
               \/ SearchExhausted'
               \/ paymentMode = "ONLINE" /\ workflowStatus' = "CANCELLED"]_vars
  BY ExhaustedStep DEF GivenUp
<1> QED BY <1>1, TypeCorrect, PTL DEF Spec, ExhaustedSearchStays

(* A cash order whose search is exhausted is there for good: the workflow  *)
(* service never delivers it, cancels it or gives its stock back.          *)
THEOREM CashOrderIsStranded ==
  Spec => [](SearchExhausted /\ paymentMode = "COD" => []SearchExhausted)
<1> DEFINE P == SearchExhausted /\ paymentMode = "COD"
<1>1. TypeOK /\ P /\ [Next]_vars => P'
  <2>1. TypeOK /\ [Next]_vars => paymentMode' = paymentMode
    BY StepTakesNothingBack DEF NothingTakenBack
  <2> QED BY <2>1, ExhaustedStep DEF GivenUp
<1>2. P => SearchExhausted
  OBVIOUS
<1> QED BY <1>1, <1>2, TypeCorrect, PTL DEF Spec

============================================================================
