# A verification of the Stellar_Card backend and its contract

Stellar_Card sells virtual cards to software agents. An agent posts an order, pays for it in
USDC or XLM to a Soroban contract, and the backend has the card made by a vendor, VCC, which it
pays in turn (through an address of CTX, on the Stellar ledger). This directory holds TLA+ models
of the backend and of the contract, the TLC runs that check them and TLAPS proofs of what matters most.

The models are translations of `src/stellar_card-backend/src` and of
`src/stellar_card-contract/src/lib.rs`; every action names the function it comes from and
`PROJECT.json` ("map") the lines. Documents are only quoted where they disagree with
the code.

## The system

| part | state | operations | talks to |
|---|---|---|---|
| order admission (`api/orders.js`, `middleware/auth.js`, `policy.js`) | `orders`, `api_keys`, `idempotency_keys`, `policy_decisions` | POST /v1/orders | dashboard, payment watcher (through `orders`) |
| approval and agent keys (`api/dashboard.js`) | `approval_requests`, `api_keys` | approve, reject, suspend, unsuspend, update, delete | admission (through `orders` and `api_keys`) |
| payment watcher (`payments/stellar.js`, `payments/parse-payment-event.js`) | event cursor, ledger anchor in `system_state`, dead letters, in-memory failure counts | poll, handlePaymentEvent, cursor reset | Soroban RPC, payment handler |
| payment handler (`payment-handler.js`) | `orders`, `unmatched_payments` | accept or set aside a payment; then invoice, pay CTX, notify | VCC client, Stellar submission, refunds |
| Stellar submission (`payments/xlm-sender.js`, `payments/xlm-price.js`) | treasury account, in-memory price cache | submitWithRetry, payCtxOrder, sendUsdc, sendXlm | Horizon |
| VCC client (`vcc-client.js`) | token, circuit breaker in memory | getInvoice, notifyPaid, getVccJobStatus | VCC |
| vendor callback (`api/vcc-callback.js`) | `orders`, `api_keys.total_spent_usdc` | fulfilled, failed | refunds, webhooks |
| refunds and webhooks (`fulfillment.js`) | `orders`, `webhook_queue`, webhook circuits in memory | scheduleRefund, refundOrQuarantine, enqueueWebhook | Stellar submission, agents' endpoints |
| jobs (`jobs.js`) | one running promise (`jobsRunning`) | expireStaleOrders, expireApprovalRequests, reconcileOrderingFulfillment, recoverStuckOrders, reconcileRefundQuarantine, retryWebhooks, prune* | all of the above |
| MPP (`mpp/*`, `payments/verify-stellar-payment.js`) | `mpp_challenges` | challenge, verify, redeem, wait for delivery | payment handler |
| agent claim (`api/agent-claim.js`), agent state (`lib/agent-state.js`) | `agent_claims`, `api_keys` | mint, redeem | agents |
| login (`api/auth.js`) | `auth_codes`, `sessions` | login, verify, logout | email |
| order and dashboard streams (`api/orders.js`, `api/dashboard.js`, `lib/event-bus.js`) | slots per key, listeners, in memory | stream, poll | agents, dashboards |
| alerts, audit, statistics, permissions, validation, vault (`lib/*`) | rules, logs | read the others | - |
| receiver contract (`stellar_card-contract`) | configuration, roles, blacklist, treasury proposal, upgrade approvals, escrows and balances, limits, payments per payer | pay, escrow, rescue, governance, decommission | payment watcher (through its events) |
| SDK, frontend, OpenAPI | - | - | the API |

The backend is **one Node process over one SQLite file**. Code between two awaits is never
interrupted, a SQL statement is atomic, a `db.transaction` too. What is concurrent is everything that
awaits: each order's payment handler, each request, the single job promise, each refund being sent.
A crash takes these promises and leaves the tables.

What is hard here:
- several parties decide the same order (handler, callback, two jobs), each after an await, some with a
  guarded UPDATE and some with an unconditional one;
- the money moves on a ledger the process cannot lock: a submission's outcome may be unknown, a crash may
  come before the checkpoint;
- VCC repeats, delays or never sends its callback, and does not answer;
- requests decide from an `api_keys` row read before their awaits;
- approvals are decided by the owner, by a suspension and by a timeout.

`PROJECT.json` ("hazards") lists these at their lines, with the properties that cover them.

### What makes each part correct

| part | correctness |
|---|---|
| fulfilment | a paid order ends as a card or as a refund, never both; the key is charged once for a card; a closed order stays closed; CTX is not paid, and a refund not sent, more often than the order was claimed for it; an unpaid order is decided in the end |
| admission | limits hold whatever races; an Idempotency-Key makes one order; a suspended key gets nothing |
| approval | approval and order agree; the first decision wins and stays |
| payment watcher, MPP | every payment event buys an order or is recorded, none buys two; the watcher gets past every event |
| webhooks | a notification is answered for, queued or being sent, unless a restart caught it on its first way; no two deliveries of one at once; a card is left out only when it was purged; late answers do not close a circuit |
| VCC client | what VCC signs can be verified whichever attempt made the job; an open breaker stays open for its cool-down; an order gets its job in the end |
| agent claims, funding | a code gives its credentials once and no failure before its commit takes it; a funded wallet is seen |
| login | one owner, the configured one; a code opens one session after a bounded number of guesses |
| streams | slots and counters are the open streams, however they end; an open stream tells the last status |
| contract | open escrows can be paid; limits hold in every window for what they count; a former admin is one no more; decommissioning is final |

## The modules

### OrderFulfillment

`OrderFulfillment.tla` is the life of an order from `pending_payment` on. One action is the code from
one await to the next, for nothing else runs between; only the process can die there. Where a piece commits two
statements that belong together (the card and its charge, `failed` and the claim of the refund), an action
of its own, named `...Interrupted`, commits the first and restarts the process.

| variable | code |
|---|---|
| `row` | the columns of `orders` the code decides from; `age` is how long ago `updated_at` was, in the cut-offs of the jobs (2, 10 and 30 minutes) |
| `spent` | `api_keys.total_spent_usdc`, counted in cards per order |
| `frozen` | `system_state.frozen` |
| `handler` | where `handlePayment` waits, and the transaction it submitted |
| `refunds` | `scheduleRefund` calls past their claim: still to submit (`start`), submitted (`held`); `claims` is history, and so is `skipped`: the freeze kept a refund back and said so |
| `jobs` | `runJobs`: which sub-job, the rows its SELECT returned (`snap`, stale by the time they are used), the ones left |
| `vcc`, `ledger` | outside the repository: the job at VCC and the treasury's transactions |
| `crashes` | history, for the bound |

| actions | code |
|---|---|
| `ClaimPayment`, `InvoiceAnswered`, `PersistInvoice`, `PaySubmit`, `PayAnswered`, `NotifyAnswered`, `NotifyAgainAnswered` | `handlePayment` from its claim |
| `HandlerFails`, `HandlerFailsInterrupted` | its catch, for each of the throws `HandlerThrows` |
| `CallbackFulfilled`, `CallbackFailed`, each also `...Interrupted` | `api/vcc-callback.js`; the two UPDATEs of the first are `StoreCard` and `Charge` |
| `ExpireStaleOrders` | `expireStaleOrders` |
| `ReconcileSelect` ... `RetryNotifyAnswered`, `HardFail*` with `HardFailInterrupted`, `AskBeforeHardFail` | `reconcileOrderingFulfillment` |
| `RecoverSelect`, `PollSays*` with `PollSaysFailedInterrupted`, `RecoverDone` | `recoverStuckOrders` |
| `RefundSubmit`, `RefundNotSubmitted`, `RefundAnswered` | `scheduleRefund` after its claim, `recordRefundSendFailure` |
| `TxLands`, `TxExpires`, `VccDelivers`, `VccFails` | environment |
| `GrowOlder`, `SetFrozen`, `Crash` | time, operators, the process |

The code has merge residue that the model keeps because it changes the outcome: `handlePayment` calls
`notifyPaid` twice and its catch calls `refundOrQuarantine` twice.

Where the model allows more than the code: the first order a reconcile tick hard-fails is decided
without an await in the code, in the model something may come between; both only add behaviours. A callback with
an invalid body, and a `sealCard` that throws, change nothing in the tables the model has. A `null` answer
of VCC in `recoverStuckOrders` is `PollSaysNothing`.

`OrderOutcome.tla` is the abstract specification: an order is open, expired, working or closed; it has
no outcome, a card or a refund; its key is charged with the card, if it has one and the process lives to do it, or never.
`ImplementsOrderOutcome` is the refinement.

### OrderAdmission

`OrderAdmission.tla` is one API key: its requests, the approval of expensive orders, the owner.

| variable | code |
|---|---|
| `key` | the row of `api_keys` (`spend_limit` and `total_spent` in units) |
| `policy` | its policy columns: the limit of one order, the threshold of approval, the daily limit. `UpdateKey` (PATCH) changes them at any time |
| `order`, `approval`, `idem` | the rows of `orders`, `approval_requests` and `idempotency_keys`, named after the request that made them |
| `req` | the request: not authenticated, authenticated with its snapshot of the key (`req.apiKey`), answered |
| `approving` | approve handlers waiting for the XLM price |
| `dayLimit`, `unreached`, `crashes` | history: the highest daily limit in force since midnight; the approvals a suspension died before rejecting; restarts |

`Authenticate`, `CreateOrder` and `Refuse` are POST /v1/orders; `CreateOrder` is its transaction, which
reads the spend limit from the snapshot and everything else from the tables. `ApproveClicked` and
`ApproveCommitted` are the two sides of the await in approve. What happens to a payable order is
reduced to the moves `OrderFulfillment` makes (`Pay`, `Deliver`, `Fail`, `Refund`,
`ExpireStaleOrder`); "failed" stands for `failed`, `refunded` and `pending_manual_recovery`, and
`Fail` and `Refund` allow more than the code does. Every refusal changes nothing and is `Refuse`: the
allowed hours and days, a frozen system, a webhook whose address is not safe, a conflict of
fingerprints. Reject, suspend and `expireApprovalRequests` update an approval and its order in two
statements without a transaction: `RejectInterrupted`, `SuspendInterrupted` and `ExpireInterrupted` are the restarts
between any two of them. `Deliver` may leave the card uncharged (the same window in the callback).

### PaymentIntake

`PaymentIntake.tla` is how a payment on the ledger becomes the payment of an order: the watcher, the acceptance in
`handlePayment`, and MPP, where the client presents its payment itself.

| variable | code |
|---|---|
| `chain`, `forgotten` | outside the repository: the contract's events in order, and how many the RPC has dropped |
| `cursor` | `stellar_cursor` (or the start ledger): events before it are done |
| `watcher` | `poll`: the batch and the event in hand; "handling" is the await of `handlePayment` after its claim |
| `failures` | `dispatchRetries`, 0 for no entry |
| `order` | status and `stellar_txid` of each order; "ordering" stands for all statuses after the claim |
| `challenge` | `mpp_challenges`: redeemed by which transaction, expired |
| `attempt` | requests in `verifyAndCreateMppOrder` |
| `unmatched`, `deadletter` | the tables for operators |
| `missed`, `swallowed` | history: the events a cursor reset jumped over, and those whose INSERT into one of these tables failed, an error that is only logged |

`Poll`, `PollOutOfRange`, `BatchDone` are `poll`; `GarbledEvent`, `PaymentClaimed`, `HandlerReturned`,
`PaymentUnmatched`, `DispatchThrows` are `handlePaymentEvent` with `handlePayment`; `VerifyBegins`, `VerifyRefuses`,
`Redeem` are the two sides of the RPC call in `verifyAndCreateMppOrder`, whose order row and redemption are one
transaction. `handlePayment` claims an MPP order before its first await, so the claim is part of `Redeem`. A claimed order goes
on in OrderFulfillment (`ClaimPayment` there).

Where the model allows more than the code: a batch may end anywhere up to the limit; a cursor reset lands anywhere the RPC still
serves (in the code, a hundred ledgers before the head); `DispatchThrows` needs no cause (a write or read of the database failed).

### WebhookDelivery

`WebhookDelivery.tla` is one call of `enqueueWebhook` after another, and the queue behind them.

| variable | code |
|---|---|
| `begun` | the notifications `enqueueWebhook` was called for |
| `queue` | `webhook_queue`: a row exists from the first failure on; `due` is `next_attempt <= now` |
| `card` | the sealed card of the notification's order: sealed, under a lost vault key, purged |
| `circuit` | `circuitBreakerState` of each origin; the failures that are left in the window, open or not |
| `fires` | `fireWebhook` calls between their awaits: resolving the address, sent, accepted by the endpoint |
| `jobsRunning` | the mutex of `runJobs` |
| `accepted` | outside the repository: how often the endpoint took the notification |
| `acked`, `blanked`, `lost`, `crashes` | history; `lost`: cut short by a restart on their first way, or refused by the queue (a failed INSERT, whose error nobody sees) |

`EnqueueWebhook`, `UrlRefused`, `FetchSent`, `FireSucceeds`, `FireBreaks`, `FireAnsweredError` are `enqueueWebhook` and `fireWebhook`
(a refused answer counts twice for the circuit, before the throw and in the catch); `RetryWebhooks`, `JobsDone`, `BackoffElapses` the
queue job; `PurgeOldCards`, `VaultKeyLost`, `Crash` what happens to cards and process. A retry of a row and the first fire of the
notification never overlap: the row is written when the first fire is over.

### VccClient

`VccClient.tla` is how the backend talks to VCC: `OrderFulfillment` has what the calls do to the job, this module what they need.

| variable | code |
|---|---|
| `breaker` | `_vccCircuit`; `recent`: the last failure is within `VCC_CIRCUIT_WINDOW_MS` |
| `stored` | `system_state.vcc_token`, sealed, or sealed under a lost key |
| `row` | the order: paid, ordering, failed; the tenant of its job; nonce and sealed secret of the callback |
| `calls` | calls between their awaits: registering, sent, taken by VCC, answered (the handler asks for a price before it writes) |
| `issued`, `revoked`, `jobs` | outside the repository: VCC's tokens, and its jobs, one per tenant and order |
| `lost`, `keyLost`, `troubles`, `crashes` | history and bounds |

`HandlePayment`, `HandlePaymentRefused`, `Reconcile`, `NotifyPaid` begin a call; `Register*`, `Call*`, `AnswerMalformed`,
`HandlerRecords` are its ends; `OtherCall*` are the calls of other orders, which share breaker and token. Random nonces are distinct.
The reconciler's last attempt is left out (it is in OrderFulfillment), so that `InvoicedInTheEnd` is not true for giving up.

### ReceiverContract

`ReceiverContract.tla` is the Soroban contract. A call is atomic, so an entrypoint is one action, and its guards are what makes it
fail. The source holds merge residue (several versions of some entrypoints); the model is the later one, with the packed `Config`.

| variable | code |
|---|---|
| `legacy`, `config`, `gone` | the layout of the storage, what `load_config` returns, `Decommissioned` |
| `role`, `blacklist` | `UserRole`, `Blacklist` |
| `proposal`, `signers`, `approvals`, `wasm` | the treasury migration and the upgrades |
| `token`, `held`, `escrow` | token contracts, the balances, the escrow records (they expire) |
| `limits`, `withdrawn` | `WithdrawLimit*`, `DailyWithdrawn` |
| `rate`, `recent` | `PaymentRateLimitConfig`, the recent payments of a payer: a set of payments, told apart by the number of the call, where the code has a `Vec` of their ledgers |
| `now`, `area`, `tries` | the ledger's time; the group of entrypoints of a run; the calls made, their numbers and a bound |
| `paid`, `rescued`, `drained`, `rateChanged`, `handedOver` | history |

`Governance`, `Payments` and `Custody` list the entrypoints. `Pay`, `PayWithMemo` and `PayBatch` all take a payment (`paid`); only the
first goes through `next_payment_rate_limit` and is `counted`. Time counts in ticks for ledgers and seconds alike. What a payment moves
goes from the payer to the treasury and leaves nothing in the contract: only the rate limit is kept of it. `Owed(t)` is the set of
units of token `t` that open escrows hold, so that `EscrowsCovered` can compare its cardinality with the balance.

### DashboardLogin

`DashboardLogin.tla` is login by an emailed code.

| variable | code |
|---|---|
| `code` | `auth_codes`; `mail` is what became of the mail that carries it |
| `role`, `session` | `users.role`, `sessions` |
| `faced`, `opened`, `crashes` | history |

`Login` and `MailAnswered` are the two sides of the await in POST /auth/login; `Verify` and `WrongGuess` are POST /auth/verify, which
commits statement by statement: `VerifyInterrupted` and `WrongGuessInterrupted` are the restarts between two of its commits.
`CodeExpires`, `PruneExpiredAuthCode`, `SessionEnds` are time, jobs and logout.

### OrderStream

`OrderStream.tla` is the two event streams and the slots they share. Its specification is `StreamSpec` (`StreamFairSpec` with fairness).

| variable | code |
|---|---|
| `order`, `now` | status and `updated_at` of the orders; the clock |
| `stream` | the closure of a handler: open, ended by the server, gone; `closed`, `lastUpdated`, the last status sent |
| `openStreamsByKey`, `openStreamsTotal` | the same |
| `listening` | the listeners on the event bus |

A connection whose handler threw before it could be closed is `leaked`: its slot is held until the process restarts.

`OpenOrderStream`, `OpenOrderStreamEnds`, `Tick` are GET /v1/orders/:id/stream, `OpenDashboardStream*` are GET /dashboard/stream, with
`OpenDashboardStreamThrows` for the read of the keys (`dashboard.js` 91-93) that throws between the acquisition of the slot and `req.on('close')`; `WriteThrows` and `ConnectionCloses` end either, in any order. Two updates of one order are taken to be at
least a millisecond apart: the stream tells versions apart by `updated_at` only.

### AgentOnboarding

`AgentOnboarding.tla` is an agent from its creation to its funds.

| variable | code |
|---|---|
| `agent` | `api_keys.agent_state`, `wallet_public_key` |
| `claim`, `expired` | `agent_claims`: used, pruned, and the key its payload is sealed with |
| `boxKey` | the sealing key of this process |
| `sweep`, `asking` | `checkAgentFundingStatus`: the rows it selected, the wallet Horizon is asked for |
| `funded` | outside the repository: wallets with funds |
| `answer`, `handed`, `burned`, `troubles` | history and bound |

`CreateAgent`, `SetWallet`, `DeleteAgent` are the owner's routes, `Redeem*` POST /v1/agent/claim (`RedeemFails` is the roll-back when the
payload cannot be opened, `RedeemInterrupted` the restart, or the throw (`agent-claim.js` 165-203), after its commit), `Report` the agent's status, `SweepBegins`, `AskHorizon`,
`NotFunded`, `FundsSeen` the funding job.

## The runs

Run with `tlc -config <run>.cfg <module>`. States are those TLC reports.

| run | instance | checks | states |
|---|---|---|---|
| `order_full` | 1 order, 1 attempt, 1 restart, 2 transactions, slow handlers, fair | `FulfillmentInv`, `NeverCardAndRefund`, `ChargedOncePerCard`, `OneCutShortPerRestart`, `RefundsFollowClaims`, `CtxPaidWithinAttempts`, `TerminalAbsorbing`, `CtxPaidIsNeverRefunded`, `ImplementsOrderOutcome`, `UnpaidOrderIsDecided` | 632 696 |
| `admission` | 3 requests (two share an Idempotency-Key), spend limit 3, two policies, 1 restart, symmetry | `DailyLimitKept`, `OneOrderPerIdempotencyKey`, `ApprovalsMatchOrders`, `AdmissionInv`, `SuspendedKeyGetsNothing`, `RejectionIsFinal` | 2 540 772 |
| `intake` | 3 payments, 1 order, 1 challenge, 2 requests for it, batches of 2, 2 dispatches, a map of 1, 1 restart or failed INSERT, fair | `LossesAreExplained`, `PaymentBuysOneOrder`, `IntakeInv`, `EventsArePassed` | 588 512 |
| `webhooks` | 2 notifications, 1 origin, 2 attempts, a circuit of 3, 1 restart | `DeliveryInv`, `LossesAreExplained`, `CardBlankedOnlyIfPurged`, `OpenCircuitStaysOpen` | 75 867 |
| `vcc` | 1 order among others, 4 tokens, 5 nonces, a breaker of 2, 3 faults, fair | `ClientInv`, `CallbackVerifiesUnlessLost`, `OpenBreakerStaysOpen`, `InvoicedInTheEnd` | 31 744 |
| `contract` | 3 accounts, 2 tokens, 2 escrows, 5 calls of one group (4 of the payments) or 3 of all, 3 ticks, symmetry | `FormerAdminHasNoAuthority`, `EscrowsCovered`, `CountedPaymentsWithinRate`, `RescuedWithinDailyLimit`, `DecommissionIsFinal` | 1 698 988 |
| `login` | 2 addresses, 3 codes, 1 session, 2 codes a window, 2 guesses, 1 restart, symmetry | `LoginInv` | 747 284 |
| `agents` | 2 agents, 1 wallet, 2 sealing keys, 1 trouble, fair | `ClaimInv`, `FundingIsSeen` | 301 542 |
| `streams` | 1 order, 1 dashboard, 3 streams, 2 slots, 5 clock values, fair | `StreamInv`, `OutcomeIsStreamed` | 513 632 |
| `order_ctx_twice`, `order_refund_twice`, `admission_limit` | as small as the counterexample allows | one property each, violated | - |

The type invariants are parts of the invariants checked, or, where the run has enough to carry, proved
instead (`TypeCorrect`); `RetryMapBounded` is proved and not run. Deadlock is checked in the runs of orders, admission and login, where
something can always happen; in the others the system may stop when its work is done or a bound is reached (`CHECK_DEADLOCK FALSE`).

### Bounds, and why they are enough

- *Orders.* One. Orders share the treasury's sequence number, the job loop and the frozen flag: a landing transaction that voids
  another order's is also `TxExpires`, a job loop that is busy with another order is one that takes its time, and anybody may
  freeze at any time. The invariants are proved for any number of orders.
- *MaxAttempts* 1: a retry, and the exhaustion after it. The code's default is 3; a further attempt is the first one again with the
  count one higher, and the proofs have no bound.
- *MaxTxs* 2: two payments, two refunds, or one of each.
- *MaxCrashes* 1: a crash forgets all promises, so a second adds only another forgotten one. It falls between any two
  statements where the model says so. In PaymentIntake one bound, `MaxFaults` 1, counts restarts and failed INSERTs; the theorems have both in any number.
- *Requests* 3: two that collide on their Idempotency-Key, and one that needs the owner; amounts 1, 1, 2
  against a spend limit of 3 (2 in `admission_limit`) and daily limits of both policies, so that every limit is reached exactly and
  exceeded by one. PATCH switches between two policies at any time.
- *Hooks* 2 at one origin, so that one notification's failures open the circuit of the other; two attempts (the default is
  three): one retry is left when the first fails. A circuit opens after three failures, so that the double count of a refused
  answer does not open it alone.
- *VccClient* has one order; the other orders are the actions `OtherCall*`, which need no bound except on what they do to the
  token. Three faults, four tokens (every fault can cost a registration) and five nonces, one more than an order can have jobs.
- *The contract* has three accounts (an admin, its successor and a third), one asset whose token can be switched, two escrows,
  amounts of 1. Its entrypoints come in groups that share little: five calls of governance or escrow, four of the payments (one more than the limit, and one that
  is not counted), or three of any. A window, and a day,
  has two ledgers, an escrow is locked for one tick and its record lives for two; three ticks contain every order of these.
- *Login*: three codes, two per window, so that two codes of one address are active while the other address has one;
  two guesses until the lock-out; one restart. *Agents*: two, so that the job has a rest to lose; one restart or change of the sealing key.
- *Streams*: three connections for two slots; the clock has five values, enough for one update of every kind.
- *Payments* 3: one for an order, one for a challenge that two requests present, one that does not parse, in any ledger
  order. Batches of 2, so that a batch has a first event to repeat and the chain a second batch; 2 dispatches
  (`MAX_DISPATCH_RETRIES` is 5), so that one retry happens before an event is given up; a map of 1 counter, so that it is full.
  The RPC forgets one event (`MaxForgotten`), which is enough for one reset. Runs of PaymentIntake may stop: once every
  payment is through nothing is left to do.

### What is left to the outside

Nothing that the code reckons with is switched off: VCC may fail a job that was not paid (`vcc-callback.js` 491-497), a transaction that Horizon
answered 404 for may still land within its 120 seconds (`xlm-sender.js` 136-152), the system may be frozen and unfrozen at any time, an
INSERT whose error is only logged may fail. `SlowHandlers` says whether a call of the payment handler may outlast the job cut-offs, which
it may, since the Horizon client has no timeout: `order_full` and `order_refund_twice` have it on. `order_ctx_twice` has it off, to show that
CTX is paid twice even when every handler is fast; the theorems hold for both values.

### Fairness

`UnpaidOrderIsDecided`: weak fairness of the jobs (a timer starts them; the job loop takes one order after another), of each
handler and refund (every `fetch` has a timeout; for Horizon this is an assumption) and of time. Nothing is asked of VCC's work: it may
leave a job where it is for ever. Strong fairness of the two answers that let a job close an order: where VCC has given a job up it may leave
any status request unanswered, but not all of them for ever. No fairness of callbacks (they may be lost), of landing, of freezing or of crashes.
The property has the two exceptions the code has: a frozen system decides nothing, and a job that stays `invoice_issued` for ever
postpones the hard fail for ever (`WaitsAtVcc`; `jobs.js` 291-292 says so itself).

`EventsArePassed`: weak fairness of the watcher's steps; `poll` sets its timer again on success and in its
catch (`stellar.js` 207, 266, 277). It does not say which step: a dispatch may throw as often as it likes.

`InvoicedInTheEnd`: the reconciler comes back (strong, because the breaker may open again and again), and VCC, asked again and again,
takes, refuses and answers in the end; the cool-down ends. A VCC that is down for ever is excluded, an order that its
handler failed too.

`FundingIsSeen`: the timer starts the job (`jobs.js` 1346-1352) and the job goes on to its next agent whatever Horizon says, for the request
has a timeout and its errors are caught; Horizon answers for a funded wallet in the end, if it is asked for it again and again.

`OutcomeIsStreamed`: the 500 ms `setInterval` of an open stream keeps firing. Nothing is assumed of clients, writes or orders.

## What the runs found

| run | what the code does | what it says |
|---|---|---|
| `order_ctx_twice` | a crash between the CTX payment and its checkpoint makes the reconciler pay again | `payment-handler.js` 14-16, `PAYMENT_HANDLER.md` 394 |
| `order_refund_twice` | the handler's catch sets `failed` over `refund_pending` or `refunded` and the refund is claimed and sent again | `fulfillment.js` 695-696 |
| `admission_limit` | the settled sum comes from the row read in auth, an order delivered meanwhile is counted nowhere | `orders.js` 428-440 |

Seen while modelling and not run:

*Orders and payments.*

- An order paid at CTX but not notified is never selected by the reconciler (`ctx_stellar_txid IS NULL`, `jobs.js` 323), against `jobs.js` 284 and
  `PAYMENT_HANDLER.md` 391.
- The card and its charge are two statements (`vcc-callback.js` 293-324): a restart between them leaves a card its key was not charged for, and the
  repeated callback is answered as a duplicate. The status `failed` and the claim of the refund are two as well (`payment-handler.js` 559,
  `vcc-callback.js` 414, `jobs.js` 408 and 621): a restart between them leaves a failed order nobody refunds, against `jobs.js` 562-565.
  `OneCutShortPerRestart` counts both.
- reject, suspend and `expireApprovalRequests` commit approval and order apart (`dashboard.js` 963-979, 676-693, `jobs.js` 892-911): a restart between
  leaves the order `awaiting_approval` for ever, and in flight for the limits. approve does not look at `suspended`: an approval that
  a suspension died before rejecting can still be approved.
- `handlePayment` awaits `notifyPaid` twice (`payment-handler.js` 535-536); when the card is delivered in between and the second call fails, the catch sets
  `delivered` to `failed`, against `architecture.md` 83.
- approve offers XLM and does not set `expected_xlm_amount` (`dashboard.js` 873), so the payment handler (`payment-handler.js` 335-337) sets such a payment aside.
- A batch that comes again records its accepted payments in `unmatched_payments`: there is no dedupe by txid (`stellar.js` 534, against 427-428 and
  `payment-handler.js` 210-211).
- Every MPP payment names its challenge, so the watcher records it as `unknown_order` for refund, also when it bought an order.
- A failed INSERT in `recordUnmatchedPayment` is swallowed and the cursor passes the payment; the comment there
  (`payment-handler.js` 209-213) has the watcher replay it. The same holds of a dead letter (`stellar.js` 456-458, 560-562).
  Such a payment is lost; `LossesAreExplained` says that nothing else but the reset cursor, the next point, loses one.
- A cursor out of range is reset to the head minus 100 ledgers (`stellar.js` 245); the comment above it says that what is skipped was
  "ALREADY lost", but the RPC still serves most of it.
- `verify.js` 234-235 has an MPP order whose `handlePayment` threw retried "via the stuck-order job"; it stays
  `pending_payment` and expires.
- `invoice_issued` counts as progress (`jobs.js` 92-103), so the hard fail of an
  exhausted order whose invoice was never paid is postponed as long as VCC keeps it: such an order is never decided (`WaitsAtVcc`).
- `refundOrQuarantine` does not quarantine a row that is already `failed` (`fulfillment.js` 815-836), against
  `PAYMENT_FLOW.md` 216.

*VCC and webhooks.*

- The nonce of a callback is drawn before the request and stored after its answer (`vcc-client.js` 323, `jobs.js` 465): after a restart, or a lost answer, VCC
  signs with a nonce the row does not have, and `verifyVccSignature` (`lib/hmac.js` 103-105) refuses the callback of a genuine job. `recoverStuckOrders`, which polls, is what
  then delivers the card. This is why `CallbackVerifiesUnlessLost` excuses lost attempts.
- `retryWebhooks` computes the delay twice; the second expression (`jobs.js` 834) is merge residue that nothing uses.
- The comments at `app.js` 463 and `api/status.js` 134 take a webhook as failed for good at `attempts >= MAX_WEBHOOK_ATTEMPTS`; the queries below them,
  and the retries, use `>`.

*Streams, agents.*

- The comment at `dashboard.js` 96-98 has `req.on('close')` wired immediately after the slot is acquired; a read of the database comes between (91-93), and
  when it throws the slot is held until the process restarts. `StreamInv` counts these slots.
- When the first event of a dashboard stream cannot be written, `closeStream` runs while `unsubscribe` is null and the handler goes on to subscribe: the listener
  and the keep-alive of a closed stream stay (`dashboard.js` 152-182). `ListenersAreStreams` says so.
- Two updates of an order within one millisecond look like one to its streams.
- The funding job writes `funded` whatever the row says by then (`jobs.js` 1194, against 1078-1084): an agent whose wallet changed during the request is funded for the old one.
- A restart, or a throw, between the commit of a redemption and its answer burns the claim code (`ClaimInv` excuses it); deleting a key leaves its claim redeemable.

*The contract.*

- `release_escrow` reads the legacy `Treasury` key (about `lib.rs` 2095): once `save_config` has packed the configuration it always fails. Refunds remain.
- `rescue_tokens`, `decommission` and the switch of a token contract ask for no open escrow and can strand its money, against "held until fulfillment or
  refund" (1967-1968); `EscrowsCovered` excuses them (`drained`). An escrow record dies after about 14 days (2048-2056) and its tokens stay.
- `update_treasury` has no timelock (against 1368-1369) and works after the decommissioning (against 3277-3278).
- `approve_upgrade` asks for no proposal (against 2548), and the approvals outlive the installation; `upgrade` installs code on the admin's word alone.
- `pay_usdc_with_memo`, `pay_xlm_with_memo` and the two batch entrypoints take payments that are not counted against the rate limit, against 1547
  (`CountedPaymentsWithinRate` is about those that are); a wider window forgets the payments that were pruned (the property excuses a changed policy).
- The file as it is has duplicated definitions from a merge and does not compile.

## What is proved

For any set of orders, requests, payments, notifications, tokens, accounts, codes or agents, any limits, bounds and switches:

| module | theorem | property |
|---|---|---|
| all eight | `TypeCorrect` | `TypeOK` (of DashboardLogin in `DashboardProofs`) |
| `OrderFulfillmentProofs` | `FulfillmentInvariant` | `FulfillmentInv` |
| | `CardExcludesRefund` | `NeverCardAndRefund` |
| | `ChargedAtMostOnce` | `ChargedOncePerCard` |
| | `CutShortIsCounted` | `OneCutShortPerRestart` |
| | `TerminalStaysTerminal` | `TerminalAbsorbing` |
| | `CtxPaidStaysUnrefunded` | `CtxPaidIsNeverRefunded` |
| | `RefundsAreBooked` | `RefundsFollowClaims` |
| | `PaymentsAreBooked` | `CtxPaidWithinAttempts` |
| | `RefinesOrderOutcome` | `ImplementsOrderOutcome` |
| `OrderAdmissionProofs` | `AdmissionInvariant` | `AdmissionInv` |
| | `ApprovalsAgree` | `ApprovalsMatchOrders` |
| | `OneOrderPerKey` | `OneOrderPerIdempotencyKey` |
| | `KillSwitch` | `SuspendedKeyGetsNothing` |
| | `RejectedForGood` | `RejectionIsFinal` |
| | `DailyLimitHeld` | `DailyLimitKept` |
| `PaymentIntakeProofs` | `IntakeInvariant` | `IntakeInv` |
| | `OnlyExplainedLosses` | `LossesAreExplained` |
| | `PaymentBuysOne` | `PaymentBuysOneOrder` |
| | `RetriesBounded` | `RetryMapBounded` |
| `WebhookDeliveryProofs` | `DeliveriesMatchTheQueue` | `DeliveryInv` |
| | `OnlyExplainedLosses` | `LossesAreExplained` |
| | `CardShownUnlessPurged` | `CardBlankedOnlyIfPurged` |
| | `CircuitStaysOpen` | `OpenCircuitStaysOpen` |
| `VccClientProofs` | `ClientInvariant` | `ClientInv` |
| | `GenuineCallbackVerifies` | `CallbackVerifiesUnlessLost` |
| | `BreakerStaysOpen` | `OpenBreakerStaysOpen` |
| `ReceiverContractProofs` | `HandoverTakesAuthority` | `FormerAdminHasNoAuthority` |
| | `Decommissioned` | `DecommissionIsFinal` |
| | `RescuesWithinLimit` | `RescuedWithinDailyLimit` |
| | `EscrowsStayCovered` | `EscrowsCovered` |
| | `CountedRateHolds` | `CountedPaymentsWithinRate` |
| | `ContractInvariant` | `ContractInv`, all the parts together |
| | `DiscountIsExact` | `Discount` is `amount * bps / 10000`, at most the amount |
| `DashboardProofs` | `LoginIsGuarded` | `LoginInv` |
| | `StreamsAreBooked` | `StreamInv` |
| `AgentOnboardingProofs` | `CredentialsGivenOnce` | `ClaimInv` |

The assumptions are the named ASSUMEs of the modules: constants have their types, the values that stand for "none" are not among the
others, and the requests of OrderAdmission are finitely many (a process serves one after the other, and a sum over all of them has to be a
number). No theorem has a hypothesis of its own: what the outside may do is in the models.

*Why card and refund exclude each other.* The callback checks the row, and so does the refund's claim, but
`refund_pending` is no protection when the catch overwrites it. What protects is the order of two steps:
VCC works on an order only after it was told "paid", and everyone who tells it has written
`ctx_stellar_txid` first (`PaidBeforeWorkedOn`); the refund decision reads that column. So a delivered
order has the column set, and no refund starts from such a row. `order_full`'s mutant that decides by
`vcc_notified_at` instead shows that the column matters. `FulfillmentInv` adds what makes this inductive: a snapshot of the
job loop is never ahead of the row (`JobIdsAreReal`), card and refund close the order
(`OutcomesClose`), and nobody works on an unpaid order (`UnpaidIsUntouched`).

*Why the money that moves is bounded.* The code promises more than it keeps: one refund and one payment to CTX (`order_refund_twice`,
`order_ctx_twice`). What it keeps has the form of an account. `RefundsBooked`: every refund transaction, and every send that is still to start,
has a claim of its own, since only `RefundSubmit` submits and a submitted transaction is never submitted again, whatever its outcome. A claim
needs a status other than `refund_pending` and `refunded`, a claimed order is closed, and closed orders are claimed by nobody but the one
handler that overwrites their status; it does so once, in its last step. So there is one claim while the handler runs and a second at most when it is done.
`PaymentsBooked`: a payment to CTX, or the permission to make one, belongs to the handler, which pays once, or to an attempt that the
reconciler counted before it paid. None of this needs a handler to be fast, a vendor to be patient or a transaction to land in time, and none a bound
on orders, transactions or crashes.

*Why a restart cuts one order short.* `CutShort` is the set of orders with an uncharged card, or failed and neither refunded, parked nor kept back by the
freeze. Every step that commits the first of the two statements commits the second too or is the death of the process; so the set grows by one order
at most when `crashes` grows, and the proof is that no other step adds to it: it has to look at every UPDATE of a status.

*Why approvals and orders agree.* `AdmissionInv` adds that an unanswered request has left nothing in any
table, that an order with an Idempotency-Key wrote its row, and that nothing is pending while the key is
suspended. The last is what makes the kill switch hold against an approve that is already waiting for
its price: the compare-and-swap finds no pending approval.

*Why the limits hold.* The sums are cardinalities: `Total(S)` counts the units of the orders of `S`, pairs of a request and one of its
units, which makes the needed facts (an order adds its amount, a smaller set adds up to less) facts about finite sets. `CreateOrder` is the only
step that adds an order to a day, and its transaction reads the day's orders from the tables; everything else moves an order
within the day or, expired or rejected, out of it. The owner may lower the limit below what was admitted already, so the day is measured
by `dayLimit`, the highest limit in force since midnight. Of the spend limit nothing like it holds, for the settled sum comes from the snapshot of the
request: `admission_limit`.

*Why no payment is lost and none used twice.* The cursor is the end of a batch that is through, so `IntakeInv` says
that the part of the batch behind the watcher is settled, and that the payment whose handler is awaited already has its order;
an error drops the batch and leaves the cursor. What is not accounted for by an order or a table is in `missed` or `swallowed`, and only the two
steps that lose a payment write these. That a payment buys one order is not guarded by any
index on `stellar_txid`: it follows from the order id in the event. That id is an order, which only it pays for, or a
challenge, which has one order at most (`OneOrderPerChallenge`, a unique index), and no id is both.

*Why deliveries match the queue.* A row is written when the first fire is over, so the first fire and a retry never
overlap; two sweeps do not, because `runJobs` waits for all fires of a batch before it gives up its mutex. `RetriesMatchTheQueue` says this of
every fire, and that a retry carries the attempts of the row it was selected from; so a late answer cannot bring back an acknowledged notification.

*Why genuine callbacks verify.* `SecretSurvivesRetries` needs the secret to be written before the request goes out, and a retry to keep it;
`JobsMatchTheRows` follows a job's nonce from the request to the row. Between, it is in the call (`CallsMatchTheRows`: an order has one
call at a time, none of them a getInvoice once it has a job), and a call that ends without writing it is what `lost` records.

*Why a former admin is one no more.* The handover takes the Admin role from the old admin and gives it to the new one; nobody but `grant_role`
gives it again, and that takes the account off the list. `DecommissionIsFinal` needs `StaysClosed`: decommissioning pauses
the contract, every entrypoint that would clear the flag asks for `gone`, and those that rewrite the configuration without asking
(`update_treasury`) carry it along.
`RescuedWithinDailyLimit` needs `DayBooked`: what `DailyWithdrawn` says of today is what left today, also on the first rescue of a day.

*Why escrows are covered.* `CustodyInv`: the units that open escrows are owed are finitely many and all of them are in the contract's balance.
A deposit adds the same number to both, a release and a refund take one escrow's from both, an expired record takes it from what is owed
only; `rescue_tokens`, `decommission` and a switched token contract are the exceptions that `drained` records.

*Why no window has too many counted payments.* The code prunes what is older than the window that ends now and counts the rest. The limit is on every window, also
those that begin between two payments. `WindowKept` says that what is kept of a payer includes everything the current window covers, unless
the policy changed; a window that is too full would be so at its latest payment, and at that call the count was below the limit.

*Why slots are not lost.* Each connection is booked under one key from the moment it is open to the moment it is not, on each of the ways it
can end, and `closed` is the flag that keeps the second of them from booking it out again (`FlagsMatch`); so the counters are the
cardinalities of the connections that hold a slot, open or leaked (`SlotsMatch`), and the guards of `releaseStreamSlot` against a counter of zero are never needed. That an open stream has
told what it saw last (`SentMatchesLast`) needs its `lastUpdated` never to be ahead of the row.

*Why there is one owner.* POST /auth/verify makes the first user the owner and never looks at OWNER_EMAIL; what protects is that before the
first user only the owner can have a code (`CodesBeforeTheOwner`); OWNER_EMAIL is taken as fixed.
`GuessesBounded` counts a restart between the counting of a guess and the lock-out as one more guess.

*Why a claim code is worth its credentials once.* One UPDATE marks the claim and wipes its payload, inside a transaction that rolls back when the payload
cannot be opened; `ClaimInv` ties both to what was handed out and to the one exception, a restart or a throw after the commit.

Only model-checked: the liveness properties `UnpaidOrderIsDecided`, `EventsArePassed`, `InvoicedInTheEnd`, `FundingIsSeen` and
`OutcomeIsStreamed` (liveness under fairness is beyond the prover), and the three violations, which are counterexamples.
Every invariant and action property of a passing run is proved.

## Not modelled

See "components" in `PROJECT.json`. In short: reading routes and statistics, alerts, emails, audit (observers); permissions,
validation, signatures, the vault (sequential, refused requests never reach the modelled handlers); the frontend (no state an order depends on), the
SDK and the MCP server (clients of one agent, whose calls the models take from the outside in any order); OpenAPI, tests and tooling (no program). Of the contract: bounds on
amounts, splits of the treasury, events. These are most of the lines of the repository: page components, type
definitions, request wrappers and schema text hold few state changes.

What is left out of a modelled part is said in its component's note. Two hazards have no property because the code contradicts them (an order paid at CTX and not notified;
XLM offered by approve). Where the code loses something (a notification, a payment, a charge, a slot), the property says exactly what is lost and
that nothing else is.

## Plan

1. `StellarSubmit`: the loop of `submitWithRetry` (`xlm-sender.js`), shown to give only the answers `SubmitAnswer` of OrderFulfillment allows.
2. PaymentIntake and OrderFulfillment composed at the claim.
3. Proofs: what the refinement `OrderOutcome` promises, as theorems of that module, and lemmas that bind PaymentIntake's claim to
   OrderFulfillment's first step.
