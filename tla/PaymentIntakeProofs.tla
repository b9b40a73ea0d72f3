------------------------- MODULE PaymentIntakeProofs -------------------------
(***************************************************************************)
(* Proofs about PaymentIntake, for any payments, orders, challenges and    *)
(* requests, any limits and any number of restarts.                        *)
(***************************************************************************)
EXTENDS PaymentIntake, FiniteSetTheorems, TLAPS

-----------------------------------------------------------------------------
(* Types.                                                                  *)

LEMMA InitTypes == Init => TypeOK
  BY IdsAreDistinct, PaymentsName, LimitsArePositive
  DEF Init, TypeOK, Watcher, Idle, Order, Challenge, OrderIds

\* The event at hand is one of the chain.
LEMMA CurrentIsPayment ==
  ASSUME TypeOK, Handling \/ watcher.pc = "handling"
  PROVE  /\ Current \in Payments
         /\ watcher.next \in 1 .. watcher.last
         /\ watcher.last \in 1 .. Len(chain)
         /\ watcher.pc # "idle"
  <1>1. /\ watcher.next \in Nat /\ watcher.last \in Nat /\ Len(chain) \in Nat
        /\ watcher.pc # "idle"
    BY DEF TypeOK, Watcher, Handling
  <1>2. watcher.next \in 1 .. watcher.last + 1 /\ watcher.next <= watcher.last
    BY <1>1 DEF TypeOK, Handling
  <1>3. watcher.last <= Len(chain)
    BY DEF TypeOK
  <1>4. watcher.next \in 1 .. Len(chain) /\ watcher.next \in 1 .. watcher.last
    BY <1>1, <1>2, <1>3
  <1> QED
    BY <1>1, <1>3, <1>4 DEF TypeOK, Current

LEMMA HandlingFields ==
  ASSUME NEW w \in Watcher
  PROVE  LET v == [w EXCEPT !.pc = "handling"] IN
           v \in Watcher /\ v.pc = "handling" /\ v.next = w.next /\ v.last = w.last
  BY DEF Watcher

\* A watcher that goes on with the batch, or drops it, stays within the chain.
LEMMA NextWatcherTypes ==
  ASSUME TypeOK, Handling \/ watcher.pc = "handling", chain' = chain,
         \/ watcher' = Passed
         \/ watcher' = Idle
         \/ watcher' = [watcher EXCEPT !.pc = "handling"]
  PROVE  /\ watcher' \in Watcher
         /\ watcher'.last <= Len(chain')
         /\ watcher'.pc # "idle" => watcher'.next \in 1 .. watcher'.last + 1
         /\ watcher'.pc = "handling" => watcher'.next <= watcher'.last
  <1>1. watcher \in Watcher /\ watcher.next \in 1 .. watcher.last /\ watcher.last \in 1 .. Len(chain)
    BY CurrentIsPayment DEF TypeOK
  <1>2. watcher.next \in Nat /\ watcher.last \in Nat /\ Len(chain) \in Nat
    BY <1>1 DEF Watcher, TypeOK
  <1>3. CASE watcher' = Passed
    <2>1. /\ watcher' \in Watcher /\ watcher'.pc = "batch"
          /\ watcher'.next = watcher.next + 1 /\ watcher'.last = watcher.last
      BY <1>2, <1>3 DEF Passed, Watcher
    <2> QED
      BY <1>1, <1>2, <2>1
  <1>4. CASE watcher' = Idle
    BY <1>2, <1>4 DEF Idle, Watcher
  <1>5. CASE watcher' = [watcher EXCEPT !.pc = "handling"]
    <2>1. /\ watcher' \in Watcher /\ watcher'.pc = "handling"
          /\ watcher'.next = watcher.next /\ watcher'.last = watcher.last
      BY <1>1, <1>5, HandlingFields
    <2> QED
      BY <1>1, <1>2, <2>1
  <1> QED
    BY <1>3, <1>4, <1>5

\* Forgetting a counter keeps the counters in their range.
LEMMA ForgetTypes ==
  ASSUME TypeOK, NEW p \in Payments, Forget(p)
  PROVE  failures' \in [Payments -> 0 .. MAX_DISPATCH_RETRIES - 1]
  BY LimitsArePositive DEF TypeOK, Forget

LEMMA RecordedTypes ==
  ASSUME TypeOK, NEW p \in Payments, Unmatched(p) \/ DeadLettered(p)
  PROVE  unmatched' \subseteq Payments /\ deadletter' \subseteq Payments /\ swallowed' \subseteq Payments
  BY DEF TypeOK, Unmatched, DeadLettered, InsertFails

\* One step of the watcher keeps the types.
LEMMA WatcherTypes ==
  ASSUME TypeOK, WatcherStep
  PROVE  TypeOK'
  <1>1. CASE Poll
    <2>1. PICK last \in cursor + 1 .. Len(chain) :
            watcher' = [pc |-> "batch", next |-> cursor + 1, last |-> last]
      BY <1>1 DEF Poll
    <2>2. cursor \in Nat /\ Len(chain) \in Nat
      BY DEF TypeOK
    <2>3. /\ watcher' \in Watcher /\ watcher'.last <= Len(chain)
          /\ watcher'.next \in 1 .. watcher'.last + 1 /\ watcher'.pc = "batch"
      BY <2>1, <2>2 DEF Watcher
    <2> QED
      BY <1>1, <2>3 DEF Poll, TypeOK, mppVars, ledgerVars, recordVars
  <1>2. CASE PollOutOfRange
    <2>1. PICK resume \in forgotten .. Len(chain) :
            /\ cursor' = resume
            /\ missed' = missed \cup {chain[i] : i \in cursor + 1 .. resume}
      BY <1>2 DEF PollOutOfRange
    <2>2. cursor \in Nat /\ Len(chain) \in Nat /\ forgotten \in Nat
      BY DEF TypeOK
    <2>3. cursor' \in 0 .. Len(chain) /\ \A i \in cursor + 1 .. resume : i \in 1 .. Len(chain)
      BY <2>1, <2>2
    <2>4. missed' \subseteq Payments
      BY <2>1, <2>3 DEF TypeOK
    <2> QED
      BY <1>2, <2>3, <2>4 DEF PollOutOfRange, TypeOK, mppVars, ledgerVars, recordVars
  <1>3. CASE BatchDone
    <2>1. watcher.last \in 0 .. Len(chain) /\ Len(chain) \in Nat
      BY DEF TypeOK, Watcher
    <2> QED
      BY <1>3, <2>1 DEF BatchDone, TypeOK, mppVars, ledgerVars, recordVars, Idle, Watcher
  <1>4. CASE GarbledEvent
    <2>1. Current \in Payments
      BY <1>4, CurrentIsPayment DEF GarbledEvent
    <2>2. unmatched' \subseteq Payments /\ deadletter' \subseteq Payments /\ swallowed' \subseteq Payments
      BY <1>4, <2>1, RecordedTypes DEF GarbledEvent
    <2>3. chain' = chain
      BY <1>4 DEF GarbledEvent, ledgerVars
    <2> QED
      BY <1>4, <2>2, <2>3, NextWatcherTypes DEF GarbledEvent, TypeOK, mppVars, ledgerVars, recordVars
  <1>5. CASE PaymentClaimed
    <2>1. Current \in Payments /\ Names[Current] \in OrderIds
      BY <1>5, CurrentIsPayment DEF PaymentClaimed, Accepts
    <2>2. order' \in [OrderIds -> Order]
      BY <1>5, <2>1 DEF PaymentClaimed, TypeOK, Claimed, Order
    <2>3. chain' = chain
      BY <1>5 DEF PaymentClaimed, ledgerVars
    <2> QED
      BY <1>5, <2>2, <2>3, NextWatcherTypes DEF PaymentClaimed, TypeOK, mppVars, ledgerVars, recordVars
  <1>6. CASE HandlerReturned
    <2>1. Current \in Payments
      BY <1>6, CurrentIsPayment DEF HandlerReturned
    <2>2. failures' \in [Payments -> 0 .. MAX_DISPATCH_RETRIES - 1]
      BY <1>6, <2>1, ForgetTypes DEF HandlerReturned
    <2>3. chain' = chain
      BY <1>6 DEF HandlerReturned, ledgerVars
    <2> QED
      BY <1>6, <2>2, <2>3, NextWatcherTypes DEF HandlerReturned, TypeOK, mppVars, ledgerVars, recordVars
  <1>7. CASE PaymentUnmatched
    <2>1. Current \in Payments
      BY <1>7, CurrentIsPayment DEF PaymentUnmatched
    <2>2. failures' \in [Payments -> 0 .. MAX_DISPATCH_RETRIES - 1]
      BY <1>7, <2>1, ForgetTypes DEF PaymentUnmatched
    <2>3. unmatched' \subseteq Payments /\ deadletter' \subseteq Payments /\ swallowed' \subseteq Payments
      BY <1>7, <2>1, RecordedTypes DEF PaymentUnmatched
    <2>4. chain' = chain
      BY <1>7 DEF PaymentUnmatched, ledgerVars
    <2> QED
      BY <1>7, <2>2, <2>3, <2>4, NextWatcherTypes DEF PaymentUnmatched, TypeOK, mppVars, ledgerVars, recordVars
  <1>8. CASE DispatchThrows
    <2>1. Current \in Payments
      BY <1>8, CurrentIsPayment DEF DispatchThrows
    <2>2. Bump(Current) \in Nat
      BY <2>1, LimitsArePositive DEF Bump, TypeOK
    <2>3. /\ failures' \in [Payments -> 0 .. MAX_DISPATCH_RETRIES - 1]
          /\ unmatched' \subseteq Payments /\ deadletter' \subseteq Payments /\ swallowed' \subseteq Payments
      <3>1. CASE /\ Bump(Current) < MAX_DISPATCH_RETRIES
                 /\ failures' = [failures EXCEPT ![Current] = Bump(Current)]
                 /\ UNCHANGED recordVars
        BY <2>1, <2>2, <3>1, LimitsArePositive DEF TypeOK, recordVars
      <3>2. CASE Forget(Current) /\ DeadLettered(Current)
        BY <2>1, <3>2, ForgetTypes, RecordedTypes
      <3> QED
        BY <1>8, <3>1, <3>2 DEF DispatchThrows
    <2>4. chain' = chain /\ (watcher' = Passed \/ watcher' = Idle)
      BY <1>8 DEF DispatchThrows, AfterFailure, ledgerVars
    <2> QED
      BY <1>8, <2>3, <2>4, NextWatcherTypes DEF DispatchThrows, TypeOK, mppVars, ledgerVars, recordVars
  <1> QED
    BY <1>1, <1>2, <1>3, <1>4, <1>5, <1>6, <1>7, <1>8 DEF WatcherStep

\* A request, the ledger, time and a restart keep the types.
LEMMA OtherTypes ==
  ASSUME TypeOK, [Next]_vars, ~WatcherStep
  PROVE  TypeOK'
  <1>1. CASE \E a \in Attempts : MppStep(a)
    <2>1. PICK a \in Attempts : MppStep(a)
      BY <1>1
    <2>2. CASE VerifyBegins(a)
      BY <2>2 DEF VerifyBegins, AttemptTo, TypeOK, ledgerVars, recordVars
    <2>3. CASE VerifyRefuses(a)
      BY <2>3 DEF VerifyRefuses, AttemptTo, TypeOK, ledgerVars, recordVars
    <2>4. CASE Redeem(a)
      <3>1. /\ Credential[a].payment \in Payments /\ Credential[a].challenge \in Challenges
            /\ a \in OrderIds
        BY PaymentsName DEF OrderIds
      <3>2. order' \in [OrderIds -> Order]
        <4>1. CASE order' = [order EXCEPT ![a] = Claimed(Credential[a].payment)]
          BY <3>1, <4>1 DEF Claimed, TypeOK, Order
        <4>2. CASE order' = [order EXCEPT ![a].status = "pending_payment"]
          BY <3>1, <4>2 DEF TypeOK, Order
        <4> QED
          BY <2>4, <4>1, <4>2 DEF Redeem
      <3>3. challenge' \in [Challenges -> Challenge]
        BY <2>4, <3>1 DEF Redeem, TypeOK, Challenge
      <3>4. attempt' \in [Attempts -> {"new", "verifying", "answered"}]
        BY <2>4 DEF Redeem, AttemptTo, TypeOK
      <3> QED
        BY <2>4, <3>2, <3>3, <3>4 DEF Redeem, TypeOK, ledgerVars, recordVars
    <2> QED
      BY <2>1, <2>2, <2>3, <2>4 DEF MppStep
  <1>2. CASE \E p \in Payments : PaymentLands(p)
    <2>1. PICK p \in Payments : PaymentLands(p)
      BY <1>2
    <2>2. chain' \in Seq(Payments) /\ Len(chain') = Len(chain) + 1 /\ Len(chain) \in Nat
      BY <2>1 DEF PaymentLands, TypeOK
    <2>3. /\ forgotten' \in 0 .. Len(chain') /\ cursor' \in 0 .. Len(chain')
          /\ watcher'.last <= Len(chain')
      BY <2>1, <2>2 DEF PaymentLands, TypeOK, Watcher
    <2> QED
      BY <2>1, <2>2, <2>3 DEF PaymentLands, TypeOK, mppVars, recordVars
  <1>3. CASE \E o \in OrderIds : ExpireStaleOrder(o)
    <2>1. PICK o \in OrderIds : ExpireStaleOrder(o)
      BY <1>3
    <2>2. order' \in [OrderIds -> Order]
      BY <2>1 DEF ExpireStaleOrder, TypeOK, Order
    <2> QED
      BY <2>1, <2>2 DEF ExpireStaleOrder, TypeOK, mppVars, ledgerVars, recordVars
  <1>4. CASE \E c \in Challenges : ChallengeExpires(c)
    <2>1. PICK c \in Challenges : ChallengeExpires(c)
      BY <1>4
    <2>2. challenge' \in [Challenges -> Challenge]
      BY <2>1 DEF ChallengeExpires, TypeOK, Challenge
    <2> QED
      BY <2>1, <2>2 DEF ChallengeExpires, TypeOK, ledgerVars, recordVars
  <1>5. CASE RpcForgets
    BY <1>5 DEF RpcForgets, TypeOK, mppVars, recordVars
  <1>6. CASE Crash
    BY <1>6, LimitsArePositive DEF Crash, TypeOK, Idle, Watcher, ledgerVars, recordVars
  <1>7. CASE UNCHANGED vars
    BY <1>7 DEF vars, mppVars, ledgerVars, recordVars, TypeOK
  <1> QED
    BY <1>1, <1>2, <1>3, <1>4, <1>5, <1>6, <1>7 DEF Next

\* Every reachable state is well typed, and no retry count reaches its limit.
THEOREM TypeCorrect == Spec => []TypeOK
  <1>1. TypeOK /\ [Next]_vars => TypeOK'
    BY WatcherTypes, OtherTypes
  <1> QED
    BY InitTypes, <1>1, PTL DEF Spec

-----------------------------------------------------------------------------
(* Which order a payment pays for.                                         *)

OrdersInv == (\A o \in OrderIds : PaidByItsOwn(o)) /\ OneOrderPerChallenge

\* Two orders that one payment paid for are the same: an order id is no challenge, and
\* a challenge has one order.
LEMMA OwnPaymentIsUnique ==
  ASSUME TypeOK, OrdersInv
  PROVE  PaymentBuysOneOrder
  <1> SUFFICES ASSUME NEW p \in Payments, NEW o \in OrderIds, NEW q \in OrderIds,
                      order[o].txid = p, order[q].txid = p
               PROVE  o = q
    BY DEF PaymentBuysOneOrder
  <1>1. /\ p # NoPayment
        /\ order[o].status = "ordering" /\ order[q].status = "ordering"
    BY IdsAreDistinct DEF OrdersInv, PaidByItsOwn
  <1>2. /\ \/ Names[p] = o
           \/ o \in Attempts /\ Names[p] = Credential[o].challenge
        /\ \/ Names[p] = q
           \/ q \in Attempts /\ Names[p] = Credential[q].challenge
    BY <1>1 DEF OrdersInv, PaidByItsOwn
  <1>3. CASE Names[p] \in OrderIds
    BY <1>2, <1>3, IdsAreDistinct, PaymentsName
  <1>4. CASE Names[p] \notin OrderIds
    BY <1>1, <1>2, <1>4 DEF OrdersInv, OneOrderPerChallenge
  <1> QED
    BY <1>3, <1>4

\* An order that a step moves on without a payment, or claims with its own, is fine.
LEMMA PaidByItsOwnKept ==
  ASSUME NEW o \in OrderIds, PaidByItsOwn(o), order'[o] = order[o]
  PROVE  PaidByItsOwn(o)'
  BY DEF PaidByItsOwn

LEMMA OrdersInvUnchanged ==
  ASSUME OrdersInv, order' = order
  PROVE  OrdersInv'
  BY DEF OrdersInv, PaidByItsOwn, OneOrderPerChallenge

\* The claim of the watcher.
LEMMA ClaimKeepsOrders ==
  ASSUME TypeOK, OrdersInv, PaymentClaimed
  PROVE  OrdersInv'
  <1> DEFINE n == Names[Current]
  <1>1. /\ n \in OrderIds /\ order[n].status = "pending_payment"
        /\ order' = [order EXCEPT ![n] = [status |-> "ordering", txid |-> Current]]
    BY DEF PaymentClaimed, Accepts, Payable, Claimed
  <1>2. \A o \in OrderIds : o # n => order'[o] = order[o]
    BY <1>1 DEF TypeOK
  <1>3. order'[n] = [status |-> "ordering", txid |-> Current]
    BY <1>1 DEF TypeOK
  <1>4. ASSUME NEW o \in OrderIds
        PROVE  PaidByItsOwn(o)'
    <2>1. CASE o = n
      BY <1>3, <2>1 DEF PaidByItsOwn
    <2>2. CASE o # n
      BY <1>2, <2>2, PaidByItsOwnKept DEF OrdersInv
    <2> QED
      BY <2>1, <2>2
  <1>5. \A o \in OrderIds : order'[o].status # "none" => order[o].status # "none"
    BY <1>1, <1>2
  <1>6. OneOrderPerChallenge'
    BY <1>5 DEF OrdersInv, OneOrderPerChallenge, OrderIds
  <1> QED
    BY <1>4, <1>6 DEF OrdersInv

\* An order that nobody paid in time.
LEMMA ExpiryKeepsOrders ==
  ASSUME TypeOK, OrdersInv, NEW n \in OrderIds, ExpireStaleOrder(n)
  PROVE  OrdersInv'
  <1>1. /\ order[n].status = "pending_payment"
        /\ order' = [order EXCEPT ![n].status = "expired"]
    BY DEF ExpireStaleOrder
  <1>2. \A o \in OrderIds : o # n => order'[o] = order[o]
    BY <1>1 DEF TypeOK
  <1>3. order'[n].status = "expired" /\ order'[n].txid = order[n].txid
    BY <1>1 DEF TypeOK, Order
  <1>4. order[n].txid = NoPayment
    BY <1>1 DEF OrdersInv, PaidByItsOwn
  <1>5. ASSUME NEW o \in OrderIds
        PROVE  PaidByItsOwn(o)'
    <2>1. CASE o = n
      BY <1>3, <1>4, <2>1 DEF PaidByItsOwn
    <2>2. CASE o # n
      BY <1>2, <2>2, PaidByItsOwnKept DEF OrdersInv
    <2> QED
      BY <2>1, <2>2
  <1>6. \A o \in OrderIds : order'[o].status # "none" => order[o].status # "none"
    BY <1>1, <1>2
  <1>7. OneOrderPerChallenge'
    BY <1>6 DEF OrdersInv, OneOrderPerChallenge, OrderIds
  <1> QED
    BY <1>5, <1>7 DEF OrdersInv

\* An MPP request that gets its order.
LEMMA RedeemKeepsOrders ==
  ASSUME TypeOK, OrdersInv, NEW a \in Attempts, Redeem(a)
  PROVE  OrdersInv'
  <1> DEFINE c == Credential[a].challenge
             p == Credential[a].payment
  <1>1. /\ a \in OrderIds /\ p \in Payments /\ c \in Challenges
        /\ Names[p] = c /\ OrdersOfChallenge(c) = {}
    BY PaymentsName DEF OrderIds, Redeem, Verified, ChallengeIsFree
  <1>2. order[a].status = "none" /\ order[a].txid = NoPayment
    BY <1>1 DEF OrdersOfChallenge, OrdersInv, PaidByItsOwn
  <1>3. \A o \in OrderIds : o # a => order'[o] = order[o]
    BY DEF Redeem, TypeOK
  <1>4. \/ order'[a] = [status |-> "ordering", txid |-> p]
        \/ order'[a].status = "pending_payment" /\ order'[a].txid = NoPayment
    <2>1. order[a] \in Order
      BY <1>1 DEF TypeOK
    <2>2. CASE order' = [order EXCEPT ![a] = Claimed(p)]
      BY <1>1, <2>2 DEF TypeOK, Claimed
    <2>3. CASE order' = [order EXCEPT ![a].status = "pending_payment"]
      BY <1>1, <1>2, <2>1, <2>3 DEF TypeOK, Order
    <2> QED
      BY <2>2, <2>3 DEF Redeem
  <1>5. ASSUME NEW o \in OrderIds
        PROVE  PaidByItsOwn(o)'
    <2>1. CASE o = a
      BY <1>1, <1>4, <2>1 DEF PaidByItsOwn
    <2>2. CASE o # a
      BY <1>3, <2>2, PaidByItsOwnKept DEF OrdersInv
    <2> QED
      BY <2>1, <2>2
  <1>6. \A b \in Attempts : b # a /\ Credential[b].challenge = c => order'[b].status = "none"
    BY <1>1, <1>3 DEF OrdersOfChallenge, OrderIds
  <1>7. \A b \in Attempts : b # a => order'[b] = order[b]
    BY <1>3 DEF OrderIds
  <1>8. OneOrderPerChallenge'
    BY <1>6, <1>7 DEF OrdersInv, OneOrderPerChallenge
  <1> QED
    BY <1>5, <1>8 DEF OrdersInv

LEMMA StepKeepsOrders ==
  ASSUME TypeOK, OrdersInv, [Next]_vars
  PROVE  OrdersInv'
  <1>1. CASE PaymentClaimed
    BY <1>1, ClaimKeepsOrders
  <1>2. CASE \E o \in OrderIds : ExpireStaleOrder(o)
    BY <1>2, ExpiryKeepsOrders
  <1>3. CASE \E a \in Attempts : Redeem(a)
    BY <1>3, RedeemKeepsOrders
  <1>4. CASE order' = order
    BY <1>4, OrdersInvUnchanged
  <1>5. CASE Poll \/ PollOutOfRange \/ BatchDone \/ GarbledEvent \/ HandlerReturned
               \/ PaymentUnmatched \/ DispatchThrows
    BY <1>5, <1>4 DEF Poll, PollOutOfRange, BatchDone, GarbledEvent, HandlerReturned,
                      PaymentUnmatched, DispatchThrows
  <1>6. CASE \E a \in Attempts : VerifyBegins(a) \/ VerifyRefuses(a)
    BY <1>6, <1>4 DEF VerifyBegins, VerifyRefuses
  <1>7. CASE \/ \E p \in Payments : PaymentLands(p)
             \/ \E c \in Challenges : ChallengeExpires(c)
             \/ RpcForgets \/ Crash
    BY <1>7, <1>4 DEF PaymentLands, ChallengeExpires, RpcForgets, Crash
  <1>8. CASE UNCHANGED vars
    BY <1>8, <1>4 DEF vars
  <1> QED
    BY <1>1, <1>2, <1>3, <1>5, <1>6, <1>7, <1>8 DEF Next, WatcherStep, MppStep

LEMMA InitOrders == Init => OrdersInv
  BY IdsAreDistinct DEF Init, OrdersInv, PaidByItsOwn, OneOrderPerChallenge, OrderIds

\* However often the watcher sees a payment and whoever presents it, it pays for one
\* order at most.
THEOREM PaymentBuysOne == Spec => []PaymentBuysOneOrder
  <1>1. TypeOK /\ OrdersInv /\ [Next]_vars => OrdersInv'
    BY StepKeepsOrders
  <1>2. TypeOK /\ OrdersInv => PaymentBuysOneOrder
    BY OwnPaymentIsUnique
  <1> QED
    BY InitOrders, TypeCorrect, <1>1, <1>2, PTL DEF Spec

-----------------------------------------------------------------------------
(* What the cursor passes.                                                 *)

\* A payment that bought an order stays on it: no action takes a claim back.
LEMMA AcceptedKept ==
  ASSUME TypeOK, OrdersInv, [Next]_vars, NEW p \in Payments, Accepted(p)
  PROVE  Accepted(p)'
  <1>1. PICK o \in OrderIds : order[o].txid = p
    BY DEF Accepted
  <1>2. order[o].status = "ordering"
    BY <1>1, IdsAreDistinct DEF OrdersInv, PaidByItsOwn
  <1>3. CASE PaymentClaimed
    BY <1>1, <1>2, <1>3 DEF PaymentClaimed, Accepts, Payable, TypeOK, Accepted
  <1>4. CASE \E n \in OrderIds : ExpireStaleOrder(n)
    BY <1>1, <1>2, <1>4 DEF ExpireStaleOrder, TypeOK, Accepted
  <1>5. CASE \E a \in Attempts : Redeem(a)
    <2>1. PICK a \in Attempts : Redeem(a)
      BY <1>5
    <2>2. order[a].status = "none"
      BY <2>1 DEF Redeem, ChallengeIsFree, OrdersOfChallenge
    <2>3. order'[o] = order[o]
      BY <1>2, <2>1, <2>2 DEF Redeem, TypeOK
    <2> QED
      BY <1>1, <2>3 DEF Accepted
  <1>6. CASE order' = order
    BY <1>1, <1>6 DEF Accepted
  <1>7. CASE Poll \/ PollOutOfRange \/ BatchDone \/ GarbledEvent \/ HandlerReturned
               \/ PaymentUnmatched \/ DispatchThrows
    BY <1>7, <1>6 DEF Poll, PollOutOfRange, BatchDone, GarbledEvent, HandlerReturned,
                      PaymentUnmatched, DispatchThrows
  <1>8. CASE \E a \in Attempts : VerifyBegins(a) \/ VerifyRefuses(a)
    BY <1>8, <1>6 DEF VerifyBegins, VerifyRefuses
  <1>9. CASE \/ \E q \in Payments : PaymentLands(q)
             \/ \E c \in Challenges : ChallengeExpires(c)
             \/ RpcForgets \/ Crash
    BY <1>9, <1>6 DEF PaymentLands, ChallengeExpires, RpcForgets, Crash
  <1>10. CASE UNCHANGED vars
    BY <1>10, <1>6 DEF vars
  <1> QED
    BY <1>3, <1>4, <1>5, <1>7, <1>8, <1>9, <1>10 DEF Next, WatcherStep, MppStep

\* Nothing is deleted from the tables for operators.
LEMMA TablesGrow ==
  ASSUME [Next]_vars
  PROVE  /\ unmatched \subseteq unmatched' /\ deadletter \subseteq deadletter'
         /\ swallowed \subseteq swallowed' /\ missed \subseteq missed'
  <1> USE DEF recordVars
  <1>1. CASE GarbledEvent \/ PaymentUnmatched \/ DispatchThrows
    BY <1>1 DEF GarbledEvent, PaymentUnmatched, DispatchThrows, Unmatched, DeadLettered, InsertFails
  <1>2. CASE Poll \/ PollOutOfRange \/ BatchDone \/ PaymentClaimed \/ HandlerReturned
    BY <1>2 DEF Poll, PollOutOfRange, BatchDone, PaymentClaimed, HandlerReturned
  <1>3. CASE \E a \in Attempts : MppStep(a)
    BY <1>3 DEF MppStep, VerifyBegins, VerifyRefuses, Redeem
  <1>4. CASE \/ \E p \in Payments : PaymentLands(p)
             \/ \E o \in OrderIds : ExpireStaleOrder(o)
             \/ \E c \in Challenges : ChallengeExpires(c)
             \/ RpcForgets \/ Crash
    BY <1>4 DEF PaymentLands, ExpireStaleOrder, ChallengeExpires, RpcForgets, Crash
  <1>5. CASE UNCHANGED vars
    BY <1>5 DEF vars
  <1> QED
    BY <1>1, <1>2, <1>3, <1>4, <1>5 DEF Next, WatcherStep

LEMMA AccountedKept ==
  ASSUME TypeOK, OrdersInv, [Next]_vars, NEW p \in Payments, Accounted(p)
  PROVE  Accounted(p)'
  BY AcceptedKept, TablesGrow DEF Accounted

\* What the cursor and the batch have behind them.
BatchInv == BatchIsAccounted /\ LossesAreExplained

\* The positions behind the cursor and in the batch are positions of the chain.
LEMMA PositionsAreOnChain ==
  ASSUME TypeOK
  PROVE  /\ cursor \in Nat /\ Len(chain) \in Nat
         /\ \A i \in 1 .. cursor : i \in 1 .. Len(chain) /\ chain[i] \in Payments
         /\ watcher.pc # "idle" =>
              /\ watcher.next \in Nat /\ watcher.last \in Nat
              /\ \A i \in 1 .. watcher.next - 1 : i \in 1 .. Len(chain) /\ chain[i] \in Payments
  <1>1. cursor \in Nat /\ Len(chain) \in Nat /\ cursor <= Len(chain)
    BY DEF TypeOK
  <1>2. \A i \in 1 .. Len(chain) : chain[i] \in Payments
    BY DEF TypeOK
  <1>3. \A i \in 1 .. cursor : i \in 1 .. Len(chain)
    BY <1>1
  <1>4. ASSUME watcher.pc # "idle"
        PROVE  /\ watcher.next \in Nat /\ watcher.last \in Nat
               /\ \A i \in 1 .. watcher.next - 1 : i \in 1 .. Len(chain)
    <2>1. watcher.last \in Nat /\ watcher.last <= Len(chain)
      BY DEF TypeOK, Watcher
    <2>2. watcher.next \in 1 .. watcher.last + 1
      BY <1>4 DEF TypeOK
    <2> QED
      BY <1>1, <2>1, <2>2
  <1> QED
    BY <1>1, <1>2, <1>3, <1>4

\* A step that leaves chain, cursor and watcher alone.
LEMMA StillKeepsBatch ==
  ASSUME TypeOK, OrdersInv, BatchInv, [Next]_vars,
         chain' = chain, cursor' = cursor, watcher' = watcher
  PROVE  BatchInv'
  <1>1. LossesAreExplained'
    BY PositionsAreOnChain, AccountedKept DEF BatchInv, LossesAreExplained
  <1>2. ASSUME watcher.pc # "idle"
        PROVE  \A i \in 1 .. watcher.next - 1 : Accounted(chain[i])'
    BY <1>2, PositionsAreOnChain, AccountedKept DEF BatchInv, BatchIsAccounted
  <1>3. ASSUME watcher.pc = "handling"
        PROVE  Accepted(Current)'
    <2>1. Current \in Payments /\ Accepted(Current)
      BY <1>3, CurrentIsPayment DEF BatchInv, BatchIsAccounted
    <2>2. Current' = Current
      BY DEF Current
    <2> QED
      BY <2>1, <2>2, AcceptedKept
  <1>4. BatchIsAccounted'
    BY <1>2, <1>3 DEF BatchIsAccounted
  <1> QED
    BY <1>1, <1>4 DEF BatchInv

\* A step of the batch: its event is accounted for when the watcher passes it.
LEMMA BatchStepKeepsBatch ==
  ASSUME TypeOK, OrdersInv, BatchInv, [Next]_vars,
         Handling \/ watcher.pc = "handling", chain' = chain, cursor' = cursor,
         NEW p \in Payments, p = Current,
         watcher' = Idle \/ (watcher' = Passed /\ Accounted(p)')
  PROVE  BatchInv'
  <1>1. LossesAreExplained'
    BY PositionsAreOnChain, AccountedKept DEF BatchInv, LossesAreExplained
  <1>2. CASE watcher' = Idle
    BY <1>1, <1>2 DEF Idle, BatchInv, BatchIsAccounted
  <1>3. CASE watcher' = Passed /\ Accounted(p)'
    <2>1. watcher.pc # "idle" /\ watcher.next \in Nat
      BY CurrentIsPayment, PositionsAreOnChain
    <2>2. watcher'.pc = "batch" /\ watcher'.next = watcher.next + 1
      BY <1>3 DEF Passed
    <2>3. ASSUME NEW i \in 1 .. watcher.next
          PROVE  Accounted(chain[i])'
      <3>1. CASE i = watcher.next
        <4>1. chain'[i] = p
          BY <3>1 DEF Current
        <4> QED
          BY <4>1, <1>3 DEF Accounted, Accepted
      <3>2. CASE i # watcher.next
        <4>1. i \in 1 .. watcher.next - 1
          BY <2>1, <3>2
        <4> QED
          BY <2>1, <4>1, PositionsAreOnChain, AccountedKept DEF BatchInv, BatchIsAccounted
      <3> QED
        BY <3>1, <3>2
    <2>4. watcher'.next - 1 = watcher.next
      BY <2>1, <2>2
    <2> QED
      BY <1>1, <2>2, <2>3, <2>4 DEF BatchInv, BatchIsAccounted
  <1> QED
    BY <1>2, <1>3

\* The watcher keeps it.
LEMMA WatcherKeepsBatch ==
  ASSUME TypeOK, OrdersInv, BatchInv, WatcherStep
  PROVE  BatchInv'
  <1> USE DEF ledgerVars, mppVars
  <1>0. [Next]_vars
    BY DEF Next
  <1>1. CASE Poll
    <2>1. /\ chain' = chain /\ cursor' = cursor /\ watcher'.pc = "batch"
          /\ watcher'.next = cursor + 1
      BY <1>1 DEF Poll
    <2>2. LossesAreExplained'
      BY <1>0, <2>1, PositionsAreOnChain, AccountedKept DEF BatchInv, LossesAreExplained
    <2>3. watcher'.next - 1 = cursor'
      BY <2>1, PositionsAreOnChain
    <2>4. BatchIsAccounted'
      BY <2>1, <2>2, <2>3 DEF BatchIsAccounted, LossesAreExplained
    <2> QED
      BY <2>2, <2>4 DEF BatchInv
  <1>2. CASE PollOutOfRange
    <2>1. PICK resume \in forgotten .. Len(chain) :
            /\ cursor' = resume
            /\ missed' = missed \cup {chain[i] : i \in cursor + 1 .. resume}
      BY <1>2 DEF PollOutOfRange
    <2>2. chain' = chain /\ watcher' = watcher /\ watcher.pc = "idle"
      BY <1>2 DEF PollOutOfRange
    <2>3. ASSUME NEW i \in 1 .. cursor'
          PROVE  Accounted(chain[i])'
      <3>1. cursor \in Nat /\ cursor' \in Nat
        BY <2>1, PositionsAreOnChain DEF TypeOK
      <3>2. CASE i \in 1 .. cursor
        BY <1>0, <2>2, <3>2, PositionsAreOnChain, AccountedKept DEF BatchInv, LossesAreExplained
      <3>3. CASE i \in cursor + 1 .. resume
        BY <2>1, <2>2, <3>3 DEF Accounted
      <3> QED
        BY <2>1, <3>1, <3>2, <3>3
    <2>4. LossesAreExplained' /\ BatchIsAccounted'
      BY <2>2, <2>3 DEF LossesAreExplained, BatchIsAccounted
    <2> QED
      BY <2>4 DEF BatchInv
  <1>3. CASE BatchDone
    <2>1. /\ chain' = chain /\ watcher' = Idle /\ cursor' = watcher.last
          /\ watcher.pc = "batch" /\ watcher.next > watcher.last
      BY <1>3 DEF BatchDone
    <2>2. watcher.next - 1 = watcher.last
      <3>1. watcher.last \in Nat /\ watcher.next \in 1 .. watcher.last + 1
        BY <2>1 DEF TypeOK, Watcher
      <3> QED
        BY <2>1, <3>1
    <2>3. LossesAreExplained'
      BY <1>0, <2>1, <2>2, PositionsAreOnChain, AccountedKept
      DEF BatchInv, LossesAreExplained, BatchIsAccounted
    <2> QED
      BY <2>1, <2>3 DEF BatchInv, BatchIsAccounted, Idle
  <1>4. CASE GarbledEvent
    <2>1. Current \in Payments
      BY <1>4, CurrentIsPayment DEF GarbledEvent
    <2>2. Current \in deadletter' \cup swallowed'
      BY <1>4 DEF GarbledEvent, DeadLettered, InsertFails
    <2>3. \A p \in Payments : p = Current => Accounted(p)'
      BY <2>2 DEF Accounted
    <2> QED
      BY <1>0, <1>4, <2>1, <2>3, BatchStepKeepsBatch DEF GarbledEvent
  <1>5. CASE PaymentClaimed
    <2>1. /\ Current \in Payments /\ Names[Current] \in OrderIds /\ watcher.pc = "batch"
          /\ chain' = chain /\ cursor' = cursor /\ watcher \in Watcher
      BY <1>5, CurrentIsPayment DEF PaymentClaimed, Accepts, Handling, TypeOK
    <2>2. watcher'.pc = "handling" /\ watcher'.next = watcher.next
      BY <1>5, <2>1, HandlingFields DEF PaymentClaimed
    <2>3. order'[Names[Current]].txid = Current
      BY <1>5, <2>1 DEF PaymentClaimed, Claimed, TypeOK
    <2>4. LossesAreExplained'
      BY <1>0, <2>1, PositionsAreOnChain, AccountedKept DEF BatchInv, LossesAreExplained
    <2>5. \A i \in 1 .. watcher.next - 1 : Accounted(chain[i])'
      BY <1>0, <2>1, PositionsAreOnChain, AccountedKept DEF BatchInv, BatchIsAccounted
    <2>6. Current' = Current
      BY <2>1, <2>2 DEF Current
    <2>7. Accepted(Current)'
      BY <2>1, <2>3, <2>6 DEF Accepted
    <2> QED
      BY <2>2, <2>4, <2>5, <2>7 DEF BatchInv, BatchIsAccounted
  <1>6. CASE HandlerReturned
    <2>1. Current \in Payments /\ Accepted(Current)
      BY <1>6, CurrentIsPayment DEF HandlerReturned, BatchInv, BatchIsAccounted
    <2>2. \A p \in Payments : p = Current => Accounted(p)'
      BY <1>0, <2>1, AcceptedKept DEF Accounted
    <2> QED
      BY <1>0, <1>6, <2>1, <2>2, BatchStepKeepsBatch DEF HandlerReturned
  <1>7. CASE PaymentUnmatched
    <2>1. Current \in Payments
      BY <1>7, CurrentIsPayment DEF PaymentUnmatched
    <2>2. Current \in unmatched' \cup swallowed'
      BY <1>7 DEF PaymentUnmatched, Unmatched, InsertFails
    <2>3. \A p \in Payments : p = Current => Accounted(p)'
      BY <2>2 DEF Accounted
    <2> QED
      BY <1>0, <1>7, <2>1, <2>3, BatchStepKeepsBatch DEF PaymentUnmatched
  <1>8. CASE DispatchThrows
    <2>1. Current \in Payments
      BY <1>8, CurrentIsPayment DEF DispatchThrows
    <2>2. Bump(Current) \in Nat
      BY <2>1, LimitsArePositive DEF Bump, TypeOK
    <2>3. CASE Bump(Current) < MAX_DISPATCH_RETRIES
      <3>1. watcher' = Idle
        BY <1>8, <2>3 DEF DispatchThrows, AfterFailure
      <3> QED
        BY <1>0, <1>8, <2>1, <3>1, BatchStepKeepsBatch DEF DispatchThrows
    <2>4. CASE ~(Bump(Current) < MAX_DISPATCH_RETRIES)
      <3>1. watcher' = Passed /\ Current \in deadletter' \cup swallowed'
        BY <1>8, <2>4 DEF DispatchThrows, AfterFailure, DeadLettered, InsertFails
      <3>2. \A p \in Payments : p = Current => Accounted(p)'
        BY <3>1 DEF Accounted
      <3> QED
        BY <1>0, <1>8, <2>1, <3>1, <3>2, BatchStepKeepsBatch DEF DispatchThrows
    <2> QED
      BY <2>3, <2>4
  <1> QED
    BY <1>1, <1>2, <1>3, <1>4, <1>5, <1>6, <1>7, <1>8 DEF WatcherStep

LEMMA StepKeepsBatch ==
  ASSUME TypeOK, OrdersInv, BatchInv, [Next]_vars
  PROVE  BatchInv'
  <1>1. CASE WatcherStep
    BY <1>1, WatcherKeepsBatch
  <1>2. CASE \E p \in Payments : PaymentLands(p)
    <2>1. PICK p \in Payments : PaymentLands(p)
      BY <1>2
    <2>2. /\ chain' = Append(chain, p) /\ cursor' = cursor /\ watcher' = watcher
          /\ chain \in Seq(Payments)
      BY <2>1 DEF PaymentLands, TypeOK
    <2>3. \A i \in 1 .. Len(chain) : chain'[i] = chain[i]
      BY <2>2
    <2>4. LossesAreExplained'
      BY <2>2, <2>3, PositionsAreOnChain, AccountedKept DEF BatchInv, LossesAreExplained
    <2>5. ASSUME watcher.pc # "idle"
          PROVE  \A i \in 1 .. watcher.next - 1 : Accounted(chain[i])'
      BY <2>2, <2>3, <2>5, PositionsAreOnChain, AccountedKept DEF BatchInv, BatchIsAccounted
    <2>6. ASSUME watcher.pc = "handling"
          PROVE  Accepted(Current)'
      <3>1. /\ Current \in Payments /\ Accepted(Current)
            /\ watcher.next \in 1 .. watcher.last /\ watcher.last \in 1 .. Len(chain)
        BY <2>6, CurrentIsPayment DEF BatchInv, BatchIsAccounted
      <3>2. watcher.next \in 1 .. Len(chain)
        BY <3>1 DEF TypeOK
      <3>3. Current' = Current
        BY <2>2, <2>3, <3>2 DEF Current
      <3> QED
        BY <3>1, <3>3, AcceptedKept
    <2> QED
      BY <2>2, <2>4, <2>5, <2>6 DEF BatchInv, BatchIsAccounted
  <1>3. CASE \E a \in Attempts : MppStep(a)
    BY <1>3, StillKeepsBatch DEF MppStep, VerifyBegins, VerifyRefuses, Redeem, ledgerVars
  <1>4. CASE \/ \E o \in OrderIds : ExpireStaleOrder(o)
             \/ \E c \in Challenges : ChallengeExpires(c)
             \/ RpcForgets
    BY <1>4, StillKeepsBatch DEF ExpireStaleOrder, ChallengeExpires, RpcForgets, ledgerVars
  <1>5. CASE Crash
    <2>1. chain' = chain /\ cursor' = cursor /\ watcher' = Idle
      BY <1>5 DEF Crash, ledgerVars
    <2>2. LossesAreExplained'
      BY <2>1, PositionsAreOnChain, AccountedKept DEF BatchInv, LossesAreExplained
    <2> QED
      BY <2>1, <2>2 DEF BatchInv, BatchIsAccounted, Idle
  <1>6. CASE UNCHANGED vars
    BY <1>6, StillKeepsBatch DEF vars
  <1> QED
    BY <1>1, <1>2, <1>3, <1>4, <1>5, <1>6 DEF Next

LEMMA InitBatch == Init => BatchInv
  BY DEF Init, BatchInv, BatchIsAccounted, LossesAreExplained, Idle

\* The inductive invariant of the intake, batch and orders together.
THEOREM IntakeInvariant == Spec => []IntakeInv
  <1>1. TypeOK /\ IntakeInv /\ [Next]_vars => IntakeInv'
    BY StepKeepsOrders, StepKeepsBatch DEF IntakeInv, OrdersInv, BatchInv
  <1>2. Init => IntakeInv
    BY InitOrders, InitBatch DEF IntakeInv, OrdersInv, BatchInv
  <1> QED
    BY TypeCorrect, <1>1, <1>2, PTL DEF Spec

\* The cursor passes no payment that is neither accepted nor recorded, unless its own
\* INSERT failed or the RPC had lost the cursor, whatever throws and crashes.
THEOREM OnlyExplainedLosses == Spec => []LossesAreExplained
  <1>1. IntakeInv => LossesAreExplained
    BY DEF IntakeInv
  <1> QED
    BY IntakeInvariant, <1>1, PTL

-----------------------------------------------------------------------------
(* The map of the retry counters.                                          *)

RetryInv == IsFiniteSet(Tracked) /\ RetryMapBounded

\* A step after which no new event is counted.
LEMMA NothingNewTracked ==
  ASSUME RetryInv, Tracked' \subseteq Tracked
  PROVE  RetryInv'
  <1>1. IsFiniteSet(Tracked') /\ Cardinality(Tracked') <= Cardinality(Tracked)
    BY FS_Subset DEF RetryInv
  <1>2. Cardinality(Tracked') \in Nat /\ Cardinality(Tracked) \in Nat
    BY <1>1, FS_CardinalityType DEF RetryInv
  <1> QED
    BY <1>1, <1>2, LimitsArePositive DEF RetryInv, RetryMapBounded

\* A dispatch that throws: a counter more only where the map has room.
LEMMA ThrowKeepsRetries ==
  ASSUME TypeOK, RetryInv, DispatchThrows
  PROVE  RetryInv'
  <1>1. Current \in Payments
    BY CurrentIsPayment DEF DispatchThrows
  <1>2. CASE Forget(Current)
    <2>1. Tracked' \subseteq Tracked
      BY <1>1, <1>2 DEF Forget, Tracked, TypeOK
    <2> QED
      BY <2>1, NothingNewTracked
  <1>3. CASE /\ Bump(Current) < MAX_DISPATCH_RETRIES
             /\ failures' = [failures EXCEPT ![Current] = Bump(Current)]
    <2>1. Tracked' \subseteq Tracked \cup {Current}
      BY <1>1, <1>3 DEF Tracked, TypeOK
    <2>2. CASE failures[Current] > 0
      <3>1. Tracked' \subseteq Tracked
        BY <1>1, <2>1, <2>2 DEF Tracked
      <3> QED
        BY <3>1, NothingNewTracked
    <2>3. CASE ~(failures[Current] > 0)
      <3>1. failures[Current] = 0
        BY <1>1, <2>3 DEF TypeOK
      <3>2. Cardinality(Tracked) \in Nat /\ IsFiniteSet(Tracked)
        BY FS_CardinalityType DEF RetryInv
      <3>3. Cardinality(Tracked) + 1 <= DISPATCH_RETRY_CAP
        BY <1>3, <3>1, <3>2, LimitsArePositive DEF Bump
      <3>4. Current \notin Tracked
        BY <2>3 DEF Tracked
      <3>5. /\ IsFiniteSet(Tracked \cup {Current})
            /\ Cardinality(Tracked \cup {Current}) = Cardinality(Tracked) + 1
        BY <3>2, <3>4, FS_AddElement
      <3>6. IsFiniteSet(Tracked') /\ Cardinality(Tracked') <= Cardinality(Tracked) + 1
        BY <2>1, <3>5, FS_Subset
      <3>7. Cardinality(Tracked') \in Nat
        BY <3>6, FS_CardinalityType
      <3> QED
        BY <3>2, <3>3, <3>6, <3>7, LimitsArePositive DEF RetryInv, RetryMapBounded
    <2> QED
      BY <2>2, <2>3
  <1> QED
    BY <1>2, <1>3 DEF DispatchThrows

LEMMA StepKeepsRetries ==
  ASSUME TypeOK, RetryInv, [Next]_vars
  PROVE  RetryInv'
  <1>1. CASE DispatchThrows
    BY <1>1, ThrowKeepsRetries
  <1>2. CASE HandlerReturned \/ PaymentUnmatched
    <2>1. Current \in Payments /\ Forget(Current)
      BY <1>2, CurrentIsPayment DEF HandlerReturned, PaymentUnmatched
    <2>2. Tracked' \subseteq Tracked
      BY <2>1 DEF Forget, Tracked, TypeOK
    <2> QED
      BY <2>2, NothingNewTracked
  <1>3. CASE Crash
    <2>1. Tracked' \subseteq Tracked
      BY <1>3 DEF Crash, Tracked
    <2> QED
      BY <2>1, NothingNewTracked
  <1>4. CASE failures' = failures
    <2>1. Tracked' \subseteq Tracked
      BY <1>4 DEF Tracked
    <2> QED
      BY <2>1, NothingNewTracked
  <1>5. CASE Poll \/ PollOutOfRange \/ BatchDone \/ GarbledEvent \/ PaymentClaimed
    BY <1>5, <1>4 DEF Poll, PollOutOfRange, BatchDone, GarbledEvent, PaymentClaimed
  <1>6. CASE \E a \in Attempts : MppStep(a)
    BY <1>6, <1>4 DEF MppStep, VerifyBegins, VerifyRefuses, Redeem
  <1>7. CASE \/ \E p \in Payments : PaymentLands(p)
             \/ \E o \in OrderIds : ExpireStaleOrder(o)
             \/ \E c \in Challenges : ChallengeExpires(c)
             \/ RpcForgets
    BY <1>7, <1>4 DEF PaymentLands, ExpireStaleOrder, ChallengeExpires, RpcForgets
  <1>8. CASE UNCHANGED vars
    BY <1>8, <1>4 DEF vars
  <1> QED
    BY <1>1, <1>2, <1>3, <1>5, <1>6, <1>7, <1>8 DEF Next, WatcherStep

\* The map of the retry counters never outgrows its cap, though no entry is evicted.
THEOREM RetriesBounded == Spec => []RetryMapBounded
  <1>1. Init => RetryInv
    <2> SUFFICES ASSUME Init PROVE RetryInv
      OBVIOUS
    <2>1. Tracked = {}
      BY DEF Init, Tracked
    <2> QED
      BY <2>1, FS_EmptySet, LimitsArePositive DEF RetryInv, RetryMapBounded
  <1>2. TypeOK /\ RetryInv /\ [Next]_vars => RetryInv'
    BY StepKeepsRetries
  <1>3. RetryInv => RetryMapBounded
    BY DEF RetryInv
  <1> QED
    BY TypeCorrect, <1>1, <1>2, <1>3, PTL DEF Spec

=============================================================================
