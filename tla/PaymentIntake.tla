---------------------------- MODULE PaymentIntake ----------------------------
(***************************************************************************)
(* How a payment on the Stellar ledger becomes the payment of an order:    *)
(* the watcher that reads the events of the receiver contract              *)
(* (payments/stellar.js), the acceptance of a payment                      *)
(* (payment-handler.js up to its claim) and the second way in, a client    *)
(* that presents its payment itself (mpp/verify.js, mpp/challenge.js).     *)
(*                                                                         *)
(* The watcher is one loop: it asks the RPC for the events after its       *)
(* cursor, hands them to handlePayment one at a time, awaiting each, and    *)
(* saves the cursor when the batch is through.  A crash or an error makes  *)
(* the batch come again.  What becomes of a claimed order is               *)
(* OrderFulfillment's subject, where the claim is ClaimPayment.            *)
(***************************************************************************)
EXTENDS Naturals, Sequences, FiniteSets

CONSTANTS
  Payments,              \* payment events of the contract, one transaction each
  NoPayment,
  Orders,                \* orders of POST /v1/orders, waiting for payment
  Challenges,            \* MPP challenges that were handed out
  Attempts,              \* MPP requests with a credential, at most an order each
  Unknown,               \* an order id nobody knows
  Names,                 \* the order id in each payment event
  Covers,                \* the payments of at least the quoted amount, in a quoted asset
  Garbled,               \* the payments whose event does not parse
  Credential,            \* the challenge and the payment each attempt presents
  EVENT_BATCH_LIMIT, MAX_DISPATCH_RETRIES, DISPATCH_RETRY_CAP,
  MaxForgotten,          \* bound: events the RPC comes to forget
  MaxFaults              \* bound: process restarts and payments whose INSERT fails

OrderIds == Orders \cup Attempts

ASSUME IdsAreDistinct ==
  /\ Orders \cap Attempts = {} /\ Challenges \cap OrderIds = {}
  /\ Unknown \notin OrderIds \cup Challenges /\ NoPayment \notin Payments
ASSUME PaymentsName ==
  /\ Names \in [Payments -> OrderIds \cup Challenges \cup {Unknown}]
  /\ Covers \subseteq Payments /\ Garbled \subseteq Payments
  /\ Credential \in [Attempts -> [challenge: Challenges, payment: Payments]]
ASSUME LimitsArePositive ==
  /\ {EVENT_BATCH_LIMIT, MAX_DISPATCH_RETRIES, DISPATCH_RETRY_CAP} \subseteq Nat \ {0}
  /\ {MaxForgotten, MaxFaults} \subseteq Nat

VARIABLES
  chain,      \* external: the contract's events in ledger order
  forgotten,  \* external: how many of them the RPC no longer serves
  cursor,     \* stellar_cursor, or the start ledger: the events before it are done
  watcher,    \* poll: the batch in hand, in positions of chain
  failures,   \* dispatchRetries, in memory
  order,      \* the orders table: status, stellar_txid
  challenge,  \* the mpp_challenges table
  attempt,    \* verifyAndCreateMppOrder, per request
  unmatched,  \* payments with a row in unmatched_payments
  deadletter, \* payments with a row in stellar_dead_letter
  swallowed,  \* history: payments whose INSERT failed, its error only logged
  missed,     \* history: payments the watcher jumped over
  crashes     \* restarts so far

vars == <<chain, forgotten, cursor, watcher, failures, order, challenge, attempt,
          unmatched, deadletter, swallowed, missed, crashes>>
mppVars == <<challenge, attempt>>
ledgerVars == <<chain, forgotten>>
recordVars == <<unmatched, deadletter, swallowed>>

-----------------------------------------------------------------------------
\* "ordering" stands for every status an order has after its claim.
Order == [status: {"none", "pending_payment", "ordering", "expired"},
          txid: Payments \cup {NoPayment}]
Challenge == [redeemed: Payments \cup {NoPayment}, expired: BOOLEAN]
Watcher == [pc: {"idle", "batch", "handling"}, next: Nat, last: Nat]

Idle == [pc |-> "idle", next |-> 0, last |-> 0]
OnChain(p) == \E i \in DOMAIN chain : chain[i] = p
Current == chain[watcher.next]

-----------------------------------------------------------------------------
(* The ledger and time (external).                                         *)

PaymentLands(p) ==
  /\ ~OnChain(p)
  /\ chain' = Append(chain, p)
  /\ UNCHANGED <<forgotten, cursor, watcher, failures, order, mppVars,
                 recordVars, missed, crashes>>

RpcForgets ==
  /\ forgotten < Len(chain) /\ forgotten < MaxForgotten
  /\ forgotten' = forgotten + 1
  /\ UNCHANGED <<chain, cursor, watcher, failures, order, mppVars,
                 recordVars, missed, crashes>>

\* expireStaleOrders, for orders of both sources.
ExpireStaleOrder(o) ==
  /\ order[o].status = "pending_payment"
  /\ order' = [order EXCEPT ![o].status = "expired"]
  /\ UNCHANGED <<ledgerVars, cursor, watcher, failures, mppVars,
                 recordVars, missed, crashes>>

\* (Nobody asks any more once it is redeemed.)
ChallengeExpires(c) ==
  /\ challenge[c].redeemed = NoPayment
  /\ challenge' = [challenge EXCEPT ![c].expired = TRUE]
  /\ UNCHANGED <<ledgerVars, cursor, watcher, failures, order, attempt,
                 recordVars, missed, crashes>>

-----------------------------------------------------------------------------
(* poll: a batch.                                                          *)

\* A fault: the cursor is saved before the batch is handled.
PollSavesFirst ==
  /\ watcher.pc = "idle" /\ forgotten <= cursor
  /\ \E last \in cursor + 1 .. Len(chain) :
       /\ last <= cursor + EVENT_BATCH_LIMIT
       /\ watcher' = [pc |-> "batch", next |-> cursor + 1, last |-> last]
       /\ cursor' = last
  /\ UNCHANGED <<ledgerVars, failures, order, mppVars,
                 recordVars, missed, crashes>>

Poll ==
  /\ watcher.pc = "idle" /\ forgotten <= cursor
  /\ \E last \in cursor + 1 .. Len(chain) :
       /\ last <= cursor + EVENT_BATCH_LIMIT
       /\ watcher' = [pc |-> "batch", next |-> cursor + 1, last |-> last]
  /\ UNCHANGED <<ledgerVars, cursor, failures, order, mppVars,
                 recordVars, missed, crashes>>

\* The RPC answers that the cursor is out of its range: the watcher goes on a
\* hundred ledgers before the head, wherever in the range that is.
PollOutOfRange ==
  /\ watcher.pc = "idle" /\ cursor < forgotten
  /\ \E resume \in forgotten .. Len(chain) :
       /\ cursor' = resume
       /\ missed' = missed \cup {chain[i] : i \in cursor + 1 .. resume}
  /\ UNCHANGED <<ledgerVars, watcher, failures, order, mppVars,
                 recordVars, crashes>>

BatchDone ==
  /\ watcher.pc = "batch" /\ watcher.next > watcher.last
  /\ cursor' = watcher.last
  /\ watcher' = Idle
  /\ UNCHANGED <<ledgerVars, failures, order, mppVars,
                 recordVars, missed, crashes>>

-----------------------------------------------------------------------------
(* handlePaymentEvent and handlePayment.                                   *)

Handling == watcher.pc = "batch" /\ watcher.next <= watcher.last

Passed == [pc |-> "batch", next |-> watcher.next + 1, last |-> watcher.last]
Forget(p) == failures' = [failures EXCEPT ![p] = 0]

\* An INSERT whose error is caught and logged, and with it the row.
InsertFails(p) ==
  /\ Cardinality(swallowed \cup {p}) + crashes <= MaxFaults
  /\ swallowed' = swallowed \cup {p}
  /\ UNCHANGED <<unmatched, deadletter>>

Unmatched(p) ==
  \/ unmatched' = unmatched \cup {p} /\ UNCHANGED <<deadletter, swallowed>>
  \/ InsertFails(p)

DeadLettered(p) ==
  \/ deadletter' = deadletter \cup {p} /\ UNCHANGED <<unmatched, swallowed>>
  \/ InsertFails(p)

GarbledEvent ==
  /\ Handling /\ Current \in Garbled
  /\ DeadLettered(Current)
  /\ watcher' = Passed
  /\ UNCHANGED <<ledgerVars, cursor, failures, order, mppVars, missed, crashes>>

Payable(o, p) == order[o].status = "pending_payment" /\ p \in Covers

Accepts(p) == Names[p] \in OrderIds /\ Payable(Names[p], p)

\* The claim: pending_payment -> ordering.
Claimed(p) == [status |-> "ordering", txid |-> p]

PaymentClaimed ==
  /\ Handling /\ Current \notin Garbled
  /\ Accepts(Current)
  /\ order' = [order EXCEPT ![Names[Current]] = Claimed(Current)]
  /\ watcher' = [watcher EXCEPT !.pc = "handling"]
  /\ UNCHANGED <<ledgerVars, cursor, failures, mppVars, recordVars, missed, crashes>>

\* The order is through its invoice, its payment and its notification, or failed.
HandlerReturned ==
  /\ watcher.pc = "handling"
  /\ watcher' = Passed /\ Forget(Current)
  /\ UNCHANGED <<ledgerVars, cursor, order, mppVars, recordVars, missed, crashes>>

\* Unknown order, order not waiting, too little, not quoted.
PaymentUnmatched ==
  /\ Handling /\ Current \notin Garbled
  /\ ~Accepts(Current)
  /\ Unmatched(Current)
  /\ watcher' = Passed /\ Forget(Current)
  /\ UNCHANGED <<ledgerVars, cursor, order, mppVars, missed, crashes>>

\* The keys of dispatchRetries.
Tracked == {p \in Payments : failures[p] > 0}

\* A fault: a counter nobody finds again.
BumpFromScratch(p) == 1

\* bumpDispatchRetry: a new event that does not fit into the map is over the limit.
Bump(p) ==
  IF failures[p] = 0 /\ Cardinality(Tracked) >= DISPATCH_RETRY_CAP
  THEN MAX_DISPATCH_RETRIES ELSE failures[p] + 1

\* A fault: the error is swallowed and the batch goes on.
AfterSwallowed(n) == Passed

\* The error is thrown to poll, which will ask for the batch again, or the event
\* is given up.
AfterFailure(n) == IF n < MAX_DISPATCH_RETRIES THEN Idle ELSE Passed

\* handlePayment throws (the database does), before its claim or from its catch.
DispatchThrows ==
  /\ Handling \/ watcher.pc = "handling"
  /\ Current \notin Garbled
  /\ watcher' = AfterFailure(Bump(Current))
  /\ \/ /\ Bump(Current) < MAX_DISPATCH_RETRIES
        /\ failures' = [failures EXCEPT ![Current] = Bump(Current)]
        /\ UNCHANGED recordVars
     \/ /\ Bump(Current) >= MAX_DISPATCH_RETRIES
        /\ Forget(Current)
        /\ DeadLettered(Current)
  /\ UNCHANGED <<ledgerVars, cursor, order, mppVars, missed, crashes>>

-----------------------------------------------------------------------------
(* verifyAndCreateMppOrder.                                                *)

AttemptTo(a, pc) == attempt' = [attempt EXCEPT ![a] = pc]

\* The challenge is loaded and checked, then the RPC is asked for the transaction.
VerifyBegins(a) ==
  LET c == challenge[Credential[a].challenge] IN
    /\ attempt[a] = "new"
    /\ c.redeemed = NoPayment /\ ~c.expired
    /\ AttemptTo(a, "verifying")
    /\ UNCHANGED <<ledgerVars, cursor, watcher, failures, order, challenge,
                   recordVars, missed, crashes>>

\* Every refusal, also of a transaction that is not known yet: the client may come
\* again, and is then a new request.
VerifyRefuses(a) ==
  /\ attempt[a] = "verifying"
  /\ AttemptTo(a, "new")
  /\ UNCHANGED <<ledgerVars, cursor, watcher, failures, order, challenge,
                 recordVars, missed, crashes>>

Verified(a) ==
  LET p == Credential[a].payment IN
    OnChain(p) /\ p \notin Garbled /\ p \in Covers /\ Names[p] = Credential[a].challenge

OrdersOfChallenge(c) ==
  {a \in Attempts : Credential[a].challenge = c /\ order[a].status # "none"}

\* A fault: two orders may name the same challenge.
WithoutIndex(c) == TRUE

\* idx_orders_mpp_challenge_id is unique.
ChallengeIsFree(c) == OrdersOfChallenge(c) = {}

\* redeemChallenge: the same transaction may come again, another may not; the
\* index on redeemed_tx_hash is unique.
Redeems(c, p) ==
  \/ challenge[c].redeemed = p
  \/ /\ challenge[c].redeemed = NoPayment /\ ~challenge[c].expired
     /\ \A d \in Challenges : challenge[d].redeemed # p

\* The transaction inserts the order and redeems the challenge; handlePayment
\* follows without an await, and claims the order or throws before.
Redeem(a) ==
  LET c == Credential[a].challenge
      p == Credential[a].payment IN
    /\ attempt[a] = "verifying" /\ Verified(a)
    /\ ChallengeIsFree(c) /\ Redeems(c, p)
    /\ challenge' = [challenge EXCEPT ![c].redeemed = p]
    /\ \/ order' = [order EXCEPT ![a] = Claimed(p)]
       \/ order' = [order EXCEPT ![a].status = "pending_payment"]
    /\ AttemptTo(a, "answered")
    /\ UNCHANGED <<ledgerVars, cursor, watcher, failures,
                   recordVars, missed, crashes>>

-----------------------------------------------------------------------------
\* The process dies and is started again.
Crash ==
  /\ Cardinality(swallowed) + crashes < MaxFaults
  /\ crashes' = crashes + 1
  /\ watcher' = Idle
  /\ failures' = [p \in Payments |-> 0]
  /\ attempt' = [a \in Attempts |-> IF attempt[a] = "verifying" THEN "new" ELSE attempt[a]]
  /\ UNCHANGED <<ledgerVars, cursor, order, challenge, recordVars, missed>>

Init ==
  /\ chain = <<>> /\ forgotten = 0 /\ cursor = 0
  /\ watcher = Idle
  /\ failures = [p \in Payments |-> 0]
  /\ order = [o \in OrderIds |-> [status |-> IF o \in Orders THEN "pending_payment" ELSE "none",
                                  txid |-> NoPayment]]
  /\ challenge = [c \in Challenges |-> [redeemed |-> NoPayment, expired |-> FALSE]]
  /\ attempt = [a \in Attempts |-> "new"]
  /\ unmatched = {} /\ deadletter = {} /\ swallowed = {} /\ missed = {}
  /\ crashes = 0

WatcherStep ==
  \/ Poll \/ PollOutOfRange \/ BatchDone
  \/ GarbledEvent \/ PaymentClaimed \/ HandlerReturned \/ PaymentUnmatched \/ DispatchThrows

MppStep(a) == VerifyBegins(a) \/ VerifyRefuses(a) \/ Redeem(a)

Next ==
  \/ WatcherStep
  \/ \E a \in Attempts : MppStep(a)
  \/ \E p \in Payments : PaymentLands(p)
  \/ \E o \in OrderIds : ExpireStaleOrder(o)
  \/ \E c \in Challenges : ChallengeExpires(c)
  \/ RpcForgets \/ Crash

Spec == Init /\ [][Next]_vars

\* The loop of poll goes on: its timer is set again whatever happens, and every
\* await of a payment handler settles (for Horizon an assumption).
FairSpec == Spec /\ WF_vars(WatcherStep)

-----------------------------------------------------------------------------
(* Properties.                                                             *)

\* The type of every variable, with the retry counts below their limit.
TypeOK ==
  /\ chain \in Seq(Payments)
  /\ forgotten \in 0 .. Len(chain) /\ cursor \in 0 .. Len(chain)
  /\ watcher \in Watcher
  /\ watcher.last <= Len(chain)
  /\ watcher.pc # "idle" => watcher.next \in 1 .. watcher.last + 1
  /\ watcher.pc = "handling" => watcher.next <= watcher.last
  /\ failures \in [Payments -> 0 .. MAX_DISPATCH_RETRIES - 1]
  /\ order \in [OrderIds -> Order]
  /\ challenge \in [Challenges -> Challenge]
  /\ attempt \in [Attempts -> {"new", "verifying", "answered"}]
  /\ unmatched \subseteq Payments /\ deadletter \subseteq Payments
  /\ swallowed \subseteq Payments /\ missed \subseteq Payments
  /\ crashes \in Nat

Accepted(p) == \E o \in OrderIds : order[o].txid = p
Accounted(p) == Accepted(p) \/ p \in unmatched \cup deadletter \cup swallowed \cup missed

\* stellar.js 418-434 (a failing dispatch must not advance the cursor past a payment):
\* of the payments behind the cursor, each paid for an order or has its row for the
\* operators, but for those whose INSERT failed (that error is only logged, and the
\* cursor passes) and those jumped over when the RPC had lost the cursor.  Errors of
\* the dispatch, its retries, restarts and the MPP way in lose nothing else.
LossesAreExplained == \A i \in 1 .. cursor : Accounted(chain[i])

\* mpp/challenge.js 89-92, payment-handler.js 380-385: a payment pays for one order
\* at most, though the watcher sees it several times and several requests present it.
PaymentBuysOneOrder ==
  \A p \in Payments : \A o, q \in OrderIds : order[o].txid = p /\ order[q].txid = p => o = q

\* stellar.js 351-358: however many dispatches fail, the map of the counters stays
\* within its cap.
RetryMapBounded == Cardinality(Tracked) <= DISPATCH_RETRY_CAP

\* stellar.js 315-330, the poison pill: the watcher gets past every event, also past
\* one whose dispatch always throws.
EventsArePassed ==
  \A p \in Payments : OnChain(p) ~> \E i \in 1 .. cursor : chain[i] = p

-----------------------------------------------------------------------------
(* Why the properties hold: the inductive invariant.                       *)

\* The part of the batch that is through is accounted for, and the payment whose order
\* is being fulfilled is accepted.
BatchIsAccounted ==
  watcher.pc # "idle" =>
    /\ \A i \in 1 .. watcher.next - 1 : Accounted(chain[i])
    /\ watcher.pc = "handling" => Accepted(Current)

\* An order was paid by a payment that names it, or by the one its request presented
\* for its challenge.
PaidByItsOwn(o) ==
  /\ order[o].status # "ordering" => order[o].txid = NoPayment
  /\ order[o].txid # NoPayment =>
       \/ Names[order[o].txid] = o
       \/ /\ o \in Attempts /\ Credential[o].payment = order[o].txid
          /\ Names[order[o].txid] = Credential[o].challenge

\* A challenge has one order.
OneOrderPerChallenge ==
  \A a, b \in Attempts :
    order[a].status # "none" /\ order[b].status # "none"
      /\ Credential[a].challenge = Credential[b].challenge => a = b

\* Batch, cursor, orders and challenges together: what every step preserves.
IntakeInv ==
  /\ BatchIsAccounted /\ LossesAreExplained
  /\ \A o \in OrderIds : PaidByItsOwn(o)
  /\ OneOrderPerChallenge

=============================================================================
