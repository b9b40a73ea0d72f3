-------------------------- MODULE OrderFulfillment --------------------------
(***************************************************************************)
(* The life of an order once its payment instructions exist, and the       *)
(* money that moves because of it: the payment handler                     *)
(* (payment-handler.js), the HMAC callback of the card vendor VCC          *)
(* (api/vcc-callback.js), the background jobs that expire, reconcile and   *)
(* poll orders (jobs.js) and the refund / quarantine decision              *)
(* (fulfillment.js).                                                       *)
(*                                                                         *)
(* The backend is one Node process over one SQLite file.  Code between two *)
(* awaits runs without interruption, so one action below is the code from  *)
(* one await to the next; everything else may happen between two actions.  *)
(* Only the death of the process can fall between two SQL statements of    *)
(* one such piece: the actions named ...Interrupted.                       *)
(* `row` survives a crash; `handler`, `jobs` and the refunds being sent are *)
(* promises in memory and do not.  VCC and the Stellar ledger are outside  *)
(* the repository and modelled from how the code uses them.                *)
(***************************************************************************)
EXTENDS Naturals, Sequences, FiniteSets

CONSTANTS
  Orders,           \* order ids
  NoOrder,          \* "no current order" of the job loop
  MaxAttempts,      \* MAX_FULFILLMENT_ATTEMPTS
  MaxCrashes,       \* bound: process restarts explored
  MaxTxs,           \* bound: treasury transactions submitted per order
  SlowHandlers      \* a call in the payment handler may outlast the job cutoffs

ASSUME NoOrderIsNotAnOrder == NoOrder \notin Orders
ASSUME BoundsAreNaturals == {MaxAttempts, MaxCrashes, MaxTxs} \subseteq Nat
ASSUME SwitchesAreBoolean == SlowHandlers \in BOOLEAN

VARIABLES
  row,       \* the orders table
  spent,     \* api_keys.total_spent_usdc, in cards charged for each order
  frozen,    \* system_state.frozen
  handler,   \* handlePayment past its claim, per order
  refunds,   \* scheduleRefund past its claim, per order
  jobs,      \* the runJobs promise (one at a time: the jobsRunning mutex)
  vcc,       \* external: the status of the order's VCC job
  ledger,    \* external: treasury transactions submitted for the order
  crashes    \* restarts so far

vars == <<row, spent, frozen, handler, refunds, jobs, vcc, ledger, crashes>>

-----------------------------------------------------------------------------
(* The orders table.                                                       *)

Statuses == {"pending_payment", "ordering", "expired", "delivered", "failed",
             "refund_pending", "refunded", "pending_manual_recovery"}

TERMINAL == {"delivered", "failed", "refunded", "refund_pending",
             "pending_manual_recovery"}

\* How long ago updated_at was: under STUCK_RETRY_AFTER_MS, past it, past the
\* ten minutes of recoverStuckOrders, past STUCK_FAIL_AFTER_MS.
Ages == {"fresh", "retry", "stale", "fail"}
OlderThan == [fresh |-> "retry", retry |-> "stale", stale |-> "fail", fail |-> "fail"]

\* Nullable columns: BOOLEAN for "is not null"; a tx id is its index in ledger.
Row == [status: Statuses, vcc_job_id: BOOLEAN, xlm_sent_at: BOOLEAN,
        vcc_notified_at: BOOLEAN, ctx_stellar_txid: Nat, refund_stellar_txid: Nat,
        fulfillment_attempt: Nat, card: BOOLEAN, api_key_id: BOOLEAN, age: Ages]

NewRow == [status |-> "pending_payment", vcc_job_id |-> FALSE,
           xlm_sent_at |-> FALSE, vcc_notified_at |-> FALSE,
           ctx_stellar_txid |-> 0, refund_stellar_txid |-> 0,
           fulfillment_attempt |-> 0, card |-> FALSE, api_key_id |-> TRUE,
           age |-> "fresh"]

\* An UPDATE of one order; every one of them also sets updated_at.
Update(o, r) == row' = [row EXCEPT ![o] = [r EXCEPT !.age = "fresh"]]
Touch(o) == Update(o, row[o])

-----------------------------------------------------------------------------
(* The Stellar ledger (external).  All treasury sends use one account, so  *)
(* its sequence number lets a landing tx void every other tx already out,  *)
(* except one whose submitWithRetry is still there to rebuild it.          *)

Tx == [to: {"ctx", "sender"}, st: {"flying", "landed", "dead"}]

Held(o, i) ==
  \/ handler[o].pc = "pay" /\ handler[o].tx = i
  \/ jobs.pc = "retry_pay" /\ jobs.cur = o /\ jobs.tx = i
  \/ i \in refunds[o].held

Flying(o, i) == ledger[o][i].st = "flying"
Submit(o, dest) ==
  /\ Len(ledger[o]) < MaxTxs
  /\ ledger' = [ledger EXCEPT ![o] = Append(@, [to |-> dest, st |-> "flying"])]
Kill(o, i) == ledger' = [ledger EXCEPT ![o][i].st = "dead"]

TxLands(o, i) ==
  /\ Flying(o, i)
  /\ ledger' = [p \in Orders |-> [j \in DOMAIN ledger[p] |->
       IF p = o /\ j = i THEN [ledger[p][j] EXCEPT !.st = "landed"]
       ELSE IF Flying(p, j) /\ ~Held(p, j) THEN [ledger[p][j] EXCEPT !.st = "dead"]
       ELSE ledger[p][j]]]
  /\ UNCHANGED <<row, spent, frozen, handler, refunds, jobs, vcc, crashes>>

\* The 120s time bound of a tx nobody waits for any more.
TxExpires(o, i) ==
  /\ Flying(o, i) /\ ~Held(o, i)
  /\ Kill(o, i)
  /\ UNCHANGED <<row, spent, frozen, handler, refunds, jobs, vcc, crashes>>

\* How submitWithRetry answers for the tx it submitted last: it landed, the
\* verdict is stellarStatus 'unknown' or 'applied_failed' with a hash, or the
\* throw is one the callers take as definitive (result codes, 'not_landed').  A tx
\* Horizon answered 404 for ('not_landed') may still land within its time bound.
SubmitAnswer(o, i, outcome) ==
  \/ outcome = "ok" /\ ledger[o][i].st = "landed" /\ UNCHANGED ledger
  \/ outcome = "ambiguous" /\ UNCHANGED ledger
  \/ outcome = "ambiguous" /\ Flying(o, i) /\ Kill(o, i)
  \/ outcome = "definitive" /\ Flying(o, i) /\ Kill(o, i)
  \/ outcome = "definitive" /\ Flying(o, i) /\ UNCHANGED ledger

-----------------------------------------------------------------------------
(* VCC (external).  invoice is idempotent per order, paid moves            *)
(* invoice_issued on; "running" stands for queued and running.             *)

VccStatuses == {"none", "invoice_issued", "running", "delivered", "failed"}

VccInvoice(o) == vcc' = [vcc EXCEPT ![o] = IF @ = "none" THEN "invoice_issued" ELSE @]
VccPaid(o) == vcc' = [vcc EXCEPT ![o] = IF @ = "invoice_issued" THEN "running" ELSE @]

\* A call whose answer is an error may have reached VCC or not.
InvoiceCall(o, ok) == VccInvoice(o) \/ (~ok /\ UNCHANGED vcc)
PaidCall(o, ok) == VccPaid(o) \/ (~ok /\ UNCHANGED vcc)

CtxPaid(o) == \E i \in DOMAIN ledger[o] :
                 ledger[o][i].to = "ctx" /\ ledger[o][i].st = "landed"

VccDelivers(o) ==
  /\ vcc[o] = "running" /\ CtxPaid(o)
  /\ vcc' = [vcc EXCEPT ![o] = "delivered"]
  /\ UNCHANGED <<row, spent, frozen, handler, refunds, jobs, ledger, crashes>>

VccFails(o) ==
  /\ vcc[o] \in {"invoice_issued", "running"}
  /\ vcc' = [vcc EXCEPT ![o] = "failed"]
  /\ UNCHANGED <<row, spent, frozen, handler, refunds, jobs, ledger, crashes>>

-----------------------------------------------------------------------------
(* fulfillment.js: refund or quarantine.                                   *)

\* Faults the runs must notice: a claim that only looks for a finished refund, and
\* one that leaves failed orders alone.
RefundClaimableUnlessDone(r) == r.status # "refunded"
RefundClaimableUnlessClosed(r) == r.status \notin {"refund_pending", "refunded", "failed"}

\* The WHERE clause of scheduleRefund's claim.
RefundClaimable(r) == r.status \notin {"refund_pending", "refunded"}

\* scheduleRefund stops before its claim while the system is frozen.
RefundClaimed(r) == ~frozen /\ RefundClaimable(r)
ScheduleRefund(r) == IF RefundClaimed(r) THEN [r EXCEPT !.status = "refund_pending"] ELSE r

QuarantineForManualRecovery(r) ==
  IF r.status \notin TERMINAL THEN [r EXCEPT !.status = "pending_manual_recovery"] ELSE r

\* A fault: taking the last checkpoint for the one after the payment.
CtxLegNotified(r) == r.vcc_notified_at

\* The decision: was the CTX leg paid, as far as the row knows?
CtxLegRecorded(r) == r.ctx_stellar_txid # 0
RefundOrQuarantine(r) ==
  IF CtxLegRecorded(r) THEN QuarantineForManualRecovery(r) ELSE ScheduleRefund(r)

\* How many sends that starts: 0 or 1.
Sends(r) == IF ~CtxLegRecorded(r) /\ RefundClaimed(r) THEN 1 ELSE 0

\* Whether it reports refund.skipped_frozen instead, for an operator to look at.
SkippedFrozen(r) == frozen /\ ~CtxLegRecorded(r)

\* What is remembered of the refunds of an order: how many were ever claimed
\* (history), how many of these still have to be submitted, the txs whose answer
\* is awaited; whether one was skipped for the freeze (history).
RefundState == [claims: Nat, start: Nat, held: SUBSET Nat, skipped: BOOLEAN]

Claimed(f, n, skip) ==
  [claims |-> f.claims + n, start |-> f.start + n, held |-> f.held,
   skipped |-> f.skipped \/ skip]
Submitted(f, i) == [f EXCEPT !.start = @ - 1, !.held = @ \cup {i}]
Dropped(f) == [f EXCEPT !.start = @ - 1]
Answered(f, i) == [f EXCEPT !.held = @ \ {i}]
Forgotten(f) == [f EXCEPT !.start = 0, !.held = {}]

StartSends(o, n, skip) == refunds' = [refunds EXCEPT ![o] = Claimed(@, n, skip)]

\* Writing r and calling refundOrQuarantine: no await before the send.
Settle(o, r) ==
  /\ Update(o, RefundOrQuarantine(r))
  /\ StartSends(o, Sends(r), SkippedFrozen(r))

\* The handler's catch block calls it twice (through its test hook and directly).
SettleTwice(o, r) ==
  /\ Update(o, RefundOrQuarantine(RefundOrQuarantine(r)))
  /\ StartSends(o, Sends(r) + Sends(RefundOrQuarantine(r)), SkippedFrozen(r))

\* The send of a claimed refund: submitted, then answered.
RefundSubmit(o) ==
  /\ refunds[o].start > 0
  /\ Submit(o, "sender")
  /\ refunds' = [refunds EXCEPT ![o] = Submitted(@, Len(ledger'[o]))]
  /\ UNCHANGED <<row, spent, frozen, handler, jobs, vcc, crashes>>

\* A throw before anything was submitted (loadAccount, path probe).
RefundNotSubmitted(o) ==
  /\ refunds[o].start > 0
  /\ refunds' = [refunds EXCEPT ![o] = Dropped(@)]
  /\ UNCHANGED <<row, spent, frozen, handler, jobs, vcc, ledger, crashes>>

\* Sent: 'refunded'.  recordRefundSendFailure keeps the first hash it gets
\* ('not_landed' carries one too; result codes do not).
RefundAnswered(o, i) ==
  /\ i \in refunds[o].held
  /\ \E outcome \in {"ok", "ambiguous", "definitive"} :
       /\ SubmitAnswer(o, i, outcome)
       /\ \/ /\ outcome = "ok"
             /\ Update(o, [row[o] EXCEPT !.status = "refunded", !.refund_stellar_txid = i])
          \/ /\ outcome # "ok"
             /\ Update(o, [row[o] EXCEPT !.refund_stellar_txid = IF @ = 0 THEN i ELSE @])
          \/ /\ outcome = "definitive"
             /\ UNCHANGED row
  /\ refunds' = [refunds EXCEPT ![o] = Answered(@, i)]
  /\ UNCHANGED <<spent, frozen, handler, jobs, vcc, crashes>>

-----------------------------------------------------------------------------
(* Dying.                                                                  *)

Idle == [pc |-> "idle", tx |-> 0]

NoJob(pc) == [pc |-> pc, todo |-> {}, cur |-> NoOrder, tx |-> 0,
              snap |-> [o \in Orders |-> NewRow]]

\* The process dies and is started again: every promise is gone.
Dies ==
  /\ crashes < MaxCrashes
  /\ crashes' = crashes + 1
  /\ handler' = [o \in Orders |-> Idle]
  /\ refunds' = [o \in Orders |-> Forgotten(refunds[o])]
  /\ jobs' = NoJob("idle")

\* It dies after the UPDATE that closes an order, before scheduleRefund's claim.
DiesUnsettled(o, st) == Update(o, [row[o] EXCEPT !.status = st]) /\ Dies

-----------------------------------------------------------------------------
(* payment-handler.js: handlePayment from its atomic claim on.  (What it   *)
(* does with a payment it does not accept is PaymentIntake's subject and   *)
(* changes nothing here.)                                                  *)

HandlerAt(o, pc) == handler[o].pc = pc
HandlerTo(o, pc) == handler' = [handler EXCEPT ![o] = [pc |-> pc, tx |-> 0]]

\* pending_payment -> ordering, then getInvoice is called.
ClaimPayment(o) ==
  /\ row[o].status = "pending_payment"
  /\ Update(o, [row[o] EXCEPT !.status = "ordering"])
  /\ HandlerTo(o, "invoice")
  /\ UNCHANGED <<spent, frozen, refunds, jobs, vcc, ledger, crashes>>

InvoiceAnswered(o) ==
  /\ HandlerAt(o, "invoice")
  /\ VccInvoice(o)
  /\ HandlerTo(o, "price")
  /\ UNCHANGED <<row, spent, frozen, refunds, jobs, ledger, crashes>>

\* The price lookup is over: the job id and nonce are written, payCtxOrder called.
PersistInvoice(o) ==
  /\ HandlerAt(o, "price")
  /\ Update(o, [row[o] EXCEPT !.vcc_job_id = TRUE])
  /\ HandlerTo(o, "pay")
  /\ UNCHANGED <<spent, frozen, refunds, jobs, vcc, ledger, crashes>>

PaySubmit(o) ==
  /\ HandlerAt(o, "pay") /\ handler[o].tx = 0
  /\ Submit(o, "ctx")
  /\ handler' = [handler EXCEPT ![o].tx = Len(ledger'[o])]
  /\ UNCHANGED <<row, spent, frozen, refunds, jobs, vcc, crashes>>

\* Faults: a checkpoint that loses the hash or reopens the order.
PaidCheckpointNoHash(r, i) == [r EXCEPT !.xlm_sent_at = TRUE]
PaidCheckpointReopens(r, i) ==
  [r EXCEPT !.xlm_sent_at = TRUE, !.ctx_stellar_txid = i, !.status = "ordering"]

\* The checkpoint after a payment that went through, and the park after one
\* that may have: both whatever the row says by now.
PaidCheckpoint(r, i) == [r EXCEPT !.xlm_sent_at = TRUE, !.ctx_stellar_txid = i]
AmbiguousPark(r, i) == [r EXCEPT !.status = "failed", !.ctx_stellar_txid = i]

PayAnswered(o) ==
  /\ HandlerAt(o, "pay") /\ handler[o].tx # 0
  /\ \/ /\ SubmitAnswer(o, handler[o].tx, "ok")
        /\ Update(o, PaidCheckpoint(row[o], handler[o].tx))
        /\ HandlerTo(o, "notify")
     \/ /\ SubmitAnswer(o, handler[o].tx, "ambiguous")
        /\ Update(o, AmbiguousPark(row[o], handler[o].tx))
        /\ HandlerTo(o, "idle")
  /\ UNCHANGED <<spent, frozen, refunds, jobs, vcc, crashes>>

\* notifyPaid is awaited twice before the last checkpoint.
NotifyAnswered(o) ==
  /\ HandlerAt(o, "notify")
  /\ VccPaid(o)
  /\ HandlerTo(o, "notify_again")
  /\ UNCHANGED <<row, spent, frozen, refunds, jobs, ledger, crashes>>

NotifyAgainAnswered(o) ==
  /\ HandlerAt(o, "notify_again")
  /\ VccPaid(o)
  /\ Update(o, [row[o] EXCEPT !.vcc_notified_at = TRUE])
  /\ HandlerTo(o, "idle")
  /\ UNCHANGED <<spent, frozen, refunds, jobs, ledger, crashes>>

\* What throws: a call to VCC, a submission that never left or that definitively
\* failed.
HandlerThrows(o) ==
  \/ HandlerAt(o, "invoice") /\ InvoiceCall(o, FALSE) /\ UNCHANGED ledger
  \/ HandlerAt(o, "pay") /\ handler[o].tx = 0 /\ UNCHANGED <<vcc, ledger>>
  \/ /\ HandlerAt(o, "pay") /\ handler[o].tx # 0
     /\ SubmitAnswer(o, handler[o].tx, "definitive") /\ UNCHANGED vcc
  \/ /\ HandlerAt(o, "notify") \/ HandlerAt(o, "notify_again")
     /\ PaidCall(o, FALSE) /\ UNCHANGED ledger

\* The outer catch: 'failed' whatever the row says now, then refund or quarantine.
HandlerFails(o) ==
  /\ HandlerThrows(o)
  /\ SettleTwice(o, [row[o] EXCEPT !.status = "failed"])
  /\ HandlerTo(o, "idle")
  /\ UNCHANGED <<spent, frozen, jobs, crashes>>

HandlerFailsInterrupted(o) ==
  /\ HandlerThrows(o)
  /\ DiesUnsettled(o, "failed")
  /\ UNCHANGED <<spent, frozen>>

-----------------------------------------------------------------------------
(* api/vcc-callback.js: one synchronous handler per callback.  A callback  *)
(* verifies only once the job's nonce is stored, i.e. with vcc_job_id; it   *)
(* may be lost or repeated.                                                *)

\* Faults: a repeated callback, or one for an order being refunded, is let through.
DeliverableAgain(r) == r.status \notin {"failed", "refunded", "refund_pending",
                                        "pending_manual_recovery"}
DeliverableWhileRefunding(r) == r.status \notin {"delivered", "failed", "refunded"}

\* The two tests a fulfilled callback passes: the TERMINAL list, then the claim.
Deliverable(r) ==
  /\ r.status \notin TERMINAL
  /\ r.status \notin {"delivered", "failed", "refunded", "refund_pending"}

\* The first of the two UPDATEs: the card.
StoreCard(o) ==
  /\ vcc[o] = "delivered" /\ row[o].vcc_job_id
  /\ Deliverable(row[o])
  /\ Update(o, [row[o] EXCEPT !.status = "delivered", !.card = TRUE])

\* The second: total_spent_usdc of the key, if the order has one (MPP orders
\* have none).
Charge(o) == spent' = [spent EXCEPT ![o] = IF row[o].api_key_id THEN @ + 1 ELSE @]

CallbackFulfilled(o) ==
  /\ StoreCard(o) /\ Charge(o)
  /\ UNCHANGED <<frozen, handler, refunds, jobs, vcc, ledger, crashes>>

CallbackFulfilledInterrupted(o) ==
  /\ StoreCard(o) /\ Dies
  /\ UNCHANGED <<spent, frozen, vcc, ledger>>

\* A failed job: quarantined when the row has a CTX payment, else failed;
\* then refundOrQuarantine.
FailedTarget(r) == IF CtxLegRecorded(r) THEN "pending_manual_recovery" ELSE "failed"

FailureAccepted(o) ==
  vcc[o] = "failed" /\ row[o].vcc_job_id /\ row[o].status \notin TERMINAL

CallbackFailed(o) ==
  /\ FailureAccepted(o)
  /\ Settle(o, [row[o] EXCEPT !.status = FailedTarget(row[o])])
  /\ UNCHANGED <<spent, frozen, handler, jobs, vcc, ledger, crashes>>

CallbackFailedInterrupted(o) ==
  /\ FailureAccepted(o)
  /\ DiesUnsettled(o, FailedTarget(row[o]))
  /\ UNCHANGED <<spent, frozen, vcc, ledger>>

-----------------------------------------------------------------------------
(* jobs.js: runJobs, its sub-jobs in order, one tick at a time.            *)

\* The rows a SELECT returned, as they were then.
Selected(pc, S) == [NoJob(pc) EXCEPT
  !.todo = S, !.snap = [o \in Orders |-> IF o \in S THEN row[o] ELSE NewRow]]

JobAt(pc) == jobs.pc = pc
JobTo(pc) == jobs' = [jobs EXCEPT !.pc = pc, !.tx = 0]
Take(o, pc) == jobs' = [jobs EXCEPT !.pc = pc, !.cur = o, !.todo = @ \ {o}]

\* Done with order o: back to the loop.
Continue(o, loop) ==
  jobs' = [jobs EXCEPT !.pc = loop, !.cur = NoOrder, !.tx = 0,
                       !.todo = @ \ {o}, !.snap[o] = NewRow]

\* expireStaleOrders: the orders created over two hours ago, whichever they are.
ExpireStaleOrders ==
  /\ JobAt("idle")
  /\ \E S \in SUBSET {o \in Orders : row[o].status = "pending_payment"} :
       row' = [o \in Orders |-> IF o \in S
                 THEN [row[o] EXCEPT !.status = "expired", !.age = "fresh"] ELSE row[o]]
  /\ jobs' = NoJob("reconcile")
  /\ UNCHANGED <<spent, frozen, handler, refunds, vcc, ledger, crashes>>

\* A fault: orders without a VCC job are not looked for.
NeedsReconcileWithJob(r) ==
  /\ r.status = "ordering"
  /\ ~r.xlm_sent_at \/ ~r.vcc_notified_at
  /\ r.vcc_job_id
  /\ r.ctx_stellar_txid = 0
  /\ r.age # "fresh"

NeedsReconcile(r) ==
  /\ r.status = "ordering"
  /\ ~r.vcc_job_id \/ ~r.xlm_sent_at \/ ~r.vcc_notified_at
  /\ r.ctx_stellar_txid = 0
  /\ r.age # "fresh"

ReconcileSelect ==
  /\ JobAt("reconcile")
  /\ jobs' = IF frozen THEN NoJob("recover")
             ELSE Selected("reconciling", {o \in Orders : NeedsReconcile(row[o])})
  /\ UNCHANGED <<row, spent, frozen, handler, refunds, vcc, ledger, crashes>>

ReconcileDone ==
  /\ JobAt("reconciling") /\ jobs.todo = {}
  /\ jobs' = NoJob("recover")
  /\ UNCHANGED <<row, spent, frozen, handler, refunds, vcc, ledger, crashes>>

OutOfTime(r) == r.age = "fail" \/ r.fulfillment_attempt >= MaxAttempts

AskBeforeHardFail(o) ==
  /\ JobAt("reconciling") /\ o \in jobs.todo
  /\ OutOfTime(jobs.snap[o]) /\ jobs.snap[o].vcc_job_id
  /\ Take(o, "hard_fail_check")
  /\ UNCHANGED <<row, spent, frozen, handler, refunds, vcc, ledger, crashes>>

VCC_IN_PROGRESS == {"invoice_issued", "running", "delivered"}

\* VCC still has the job, or does not answer: the hard fail is postponed.
HardFailPostponed(o) ==
  /\ JobAt("hard_fail_check") /\ jobs.cur = o
  /\ Touch(o)
  /\ Continue(o, "reconciling")
  /\ UNCHANGED <<spent, frozen, handler, refunds, vcc, ledger, crashes>>

\* What lets the hard fail go on: there is no job to ask about, VCC says that it
\* has given the job up, or its answer has no status.
NoJobToAskAbout(o) ==
  /\ JobAt("reconciling") /\ o \in jobs.todo
  /\ OutOfTime(jobs.snap[o]) /\ ~jobs.snap[o].vcc_job_id

VccGaveUp(o) ==
  JobAt("hard_fail_check") /\ jobs.cur = o /\ vcc[o] \notin VCC_IN_PROGRESS

AnswerHasNoStatus(o) == JobAt("hard_fail_check") /\ jobs.cur = o

\* The hard fail: only a row still in 'ordering' is failed and settled.
HardFail(o) ==
  /\ \/ row[o].status = "ordering" /\ Settle(o, [row[o] EXCEPT !.status = "failed"])
     \/ row[o].status # "ordering" /\ UNCHANGED <<row, refunds>>
  /\ Continue(o, "reconciling")
  /\ UNCHANGED <<spent, frozen, handler, vcc, ledger, crashes>>

HardFailNoJob(o) == NoJobToAskAbout(o) /\ HardFail(o)
HardFailConfirmed(o) == VccGaveUp(o) /\ HardFail(o)
HardFailNoStatus(o) == AnswerHasNoStatus(o) /\ HardFail(o)

HardFailInterrupted(o) ==
  /\ NoJobToAskAbout(o) \/ VccGaveUp(o) \/ AnswerHasNoStatus(o)
  /\ row[o].status = "ordering" /\ DiesUnsettled(o, "failed")
  /\ UNCHANGED <<spent, frozen, vcc, ledger>>

\* Claiming an attempt, guarded by the attempt count the SELECT saw; the next
\* await is the first of the three steps the snapshot says is missing.
AttemptClaimable(o) ==
  /\ row[o].status = "ordering"
  /\ row[o].fulfillment_attempt = jobs.snap[o].fulfillment_attempt

FirstMissingStep(r) == IF ~r.vcc_job_id THEN "retry_invoice"
                       ELSE IF ~r.xlm_sent_at THEN "retry_status"
                       ELSE "retry_notify"

\* A fault: attempts are not counted.
AttemptUncounted(r) == r

AttemptCounted(r) == [r EXCEPT !.fulfillment_attempt = @ + 1]

ClaimAttempt(o) ==
  /\ JobAt("reconciling") /\ o \in jobs.todo
  /\ ~OutOfTime(jobs.snap[o])
  /\ \/ /\ AttemptClaimable(o)
        /\ Update(o, AttemptCounted(row[o]))
        /\ Take(o, FirstMissingStep(jobs.snap[o]))
     \/ /\ ~AttemptClaimable(o)
        /\ UNCHANGED row /\ Continue(o, "reconciling")
  /\ UNCHANGED <<spent, frozen, handler, refunds, vcc, ledger, crashes>>

\* Step 3 is skipped when the snapshot has vcc_notified_at.
ToNotify(o) == IF jobs.snap[o].vcc_notified_at THEN Continue(o, "reconciling")
               ELSE JobTo("retry_notify")

\* A throw in any step leaves the order in 'ordering' for the next tick.
RetryFails(o) == UNCHANGED row /\ Continue(o, "reconciling")

RetryInvoiceAnswered(o) ==
  /\ JobAt("retry_invoice") /\ jobs.cur = o
  /\ \E ok \in BOOLEAN :
       /\ InvoiceCall(o, ok)
       /\ \/ /\ ok
             /\ Update(o, [row[o] EXCEPT !.vcc_job_id = TRUE])
             /\ IF jobs.snap[o].xlm_sent_at THEN ToNotify(o) ELSE JobTo("retry_pay")
          \/ ~ok /\ RetryFails(o)
  /\ UNCHANGED <<spent, frozen, handler, refunds, ledger, crashes>>

\* A job past invoice_issued is taken as paid by an earlier run; an invoice that
\* is only issued, or an answer without a status, means paying.
RetryStatusAnswered(o) ==
  /\ JobAt("retry_status") /\ jobs.cur = o
  /\ \/ UNCHANGED row /\ JobTo("retry_pay")
     \/ /\ vcc[o] # "invoice_issued"
        /\ Update(o, [row[o] EXCEPT !.xlm_sent_at = TRUE])
        /\ ToNotify(o)
     \/ RetryFails(o)
  /\ UNCHANGED <<spent, frozen, handler, refunds, vcc, ledger, crashes>>

RetryPaySubmit(o) ==
  /\ JobAt("retry_pay") /\ jobs.cur = o /\ jobs.tx = 0
  /\ Submit(o, "ctx")
  /\ jobs' = [jobs EXCEPT !.tx = Len(ledger'[o])]
  /\ UNCHANGED <<row, spent, frozen, handler, refunds, vcc, crashes>>

RetryPayNotSubmitted(o) ==
  /\ JobAt("retry_pay") /\ jobs.cur = o /\ jobs.tx = 0
  /\ RetryFails(o)
  /\ UNCHANGED <<spent, frozen, handler, refunds, vcc, ledger, crashes>>

\* callPayCtxOrderWithAmbiguousPark and the checkpoint after it.
RetryPayAnswered(o) ==
  /\ JobAt("retry_pay") /\ jobs.cur = o /\ jobs.tx # 0
  /\ \E outcome \in {"ok", "ambiguous", "definitive"} :
       /\ SubmitAnswer(o, jobs.tx, outcome)
       /\ \/ outcome = "ok" /\ Update(o, PaidCheckpoint(row[o], jobs.tx)) /\ ToNotify(o)
          \/ /\ outcome = "ambiguous"
             /\ Update(o, AmbiguousPark(row[o], jobs.tx)) /\ Continue(o, "reconciling")
          \/ outcome = "definitive" /\ RetryFails(o)
  /\ UNCHANGED <<spent, frozen, handler, refunds, vcc, crashes>>

RetryNotifyAnswered(o) ==
  /\ JobAt("retry_notify") /\ jobs.cur = o
  /\ \E ok \in BOOLEAN :
       /\ PaidCall(o, ok)
       /\ \/ /\ ok
             /\ Update(o, [row[o] EXCEPT !.vcc_notified_at = TRUE])
             /\ Continue(o, "reconciling")
          \/ ~ok /\ RetryFails(o)
  /\ UNCHANGED <<spent, frozen, handler, refunds, ledger, crashes>>

\* recoverStuckOrders: polls VCC for rows untouched for ten minutes.
NeedsPoll(r) ==
  /\ r.status \in {"pending_payment", "ordering"}
  /\ r.vcc_job_id
  /\ r.age \in {"stale", "fail"}

RecoverSelect ==
  /\ JobAt("recover")
  /\ jobs' = Selected("recovering", {o \in Orders : NeedsPoll(row[o])})
  /\ UNCHANGED <<row, spent, frozen, handler, refunds, vcc, ledger, crashes>>

RecoverDone ==
  /\ JobAt("recovering") /\ jobs.todo = {}
  /\ jobs' = NoJob("idle")
  /\ UNCHANGED <<row, spent, frozen, handler, refunds, vcc, ledger, crashes>>

PollSaysDelivered(o) ==
  /\ JobAt("recovering") /\ o \in jobs.todo
  /\ vcc[o] = "delivered"
  /\ Touch(o)
  /\ Continue(o, "recovering")
  /\ UNCHANGED <<spent, frozen, handler, refunds, vcc, ledger, crashes>>

\* Whether CTX was paid is read from the snapshot, the claim is guarded by the
\* row of now, and refundOrQuarantine reads the row again.
FailurePolled(o) ==
  /\ JobAt("recovering") /\ o \in jobs.todo
  /\ vcc[o] = "failed" /\ row[o].status \in {"pending_payment", "ordering"}

PollSaysFailed(o) ==
  /\ FailurePolled(o)
  /\ Settle(o, [row[o] EXCEPT !.status = FailedTarget(jobs.snap[o])])
  /\ Continue(o, "recovering")
  /\ UNCHANGED <<spent, frozen, handler, vcc, ledger, crashes>>

PollSaysFailedInterrupted(o) ==
  /\ FailurePolled(o)
  /\ DiesUnsettled(o, FailedTarget(jobs.snap[o]))
  /\ UNCHANGED <<spent, frozen, vcc, ledger>>

\* Still in progress, no answer, or a failure that lost the claim.
PollSaysNothing(o) ==
  /\ JobAt("recovering") /\ o \in jobs.todo
  /\ Continue(o, "recovering")
  /\ UNCHANGED <<row, spent, frozen, handler, refunds, vcc, ledger, crashes>>

-----------------------------------------------------------------------------
(* Time, operators, crashes.                                               *)

\* Time passes.  Without SlowHandlers every await of the payment handler is
\* over before the first of the job cutoffs.
GrowOlder(o) ==
  /\ row[o].status = "ordering" /\ row[o].age # "fail"
  /\ SlowHandlers \/ HandlerAt(o, "idle")
  /\ row' = [row EXCEPT ![o].age = OlderThan[@]]
  /\ UNCHANGED <<spent, frozen, handler, refunds, jobs, vcc, ledger, crashes>>

\* The operator freezes in the database; platform.js unfreezes.
SetFrozen ==
  /\ frozen' = ~frozen
  /\ UNCHANGED <<row, spent, handler, refunds, jobs, vcc, ledger, crashes>>

Crash == Dies /\ UNCHANGED <<row, spent, frozen, vcc, ledger>>

-----------------------------------------------------------------------------
Init ==
  /\ \E keyed \in SUBSET Orders :
       row = [o \in Orders |-> [NewRow EXCEPT !.api_key_id = o \in keyed]]
  /\ spent = [o \in Orders |-> 0]
  /\ frozen = FALSE
  /\ handler = [o \in Orders |-> Idle]
  /\ refunds = [o \in Orders |-> [claims |-> 0, start |-> 0, held |-> {}, skipped |-> FALSE]]
  /\ jobs = NoJob("idle")
  /\ vcc = [o \in Orders |-> "none"]
  /\ ledger = [o \in Orders |-> <<>>]
  /\ crashes = 0

HandlerStep(o) ==
  \/ InvoiceAnswered(o) \/ PersistInvoice(o)
  \/ PaySubmit(o) \/ PayAnswered(o)
  \/ NotifyAnswered(o) \/ NotifyAgainAnswered(o)
  \/ HandlerFails(o)

CallbackStep(o) == CallbackFulfilled(o) \/ CallbackFailed(o)

RefundStep(o) ==
  \/ RefundSubmit(o) \/ RefundNotSubmitted(o)
  \/ \E i \in refunds[o].held : RefundAnswered(o, i)

ReconcileStep(o) ==
  \/ HardFailNoJob(o) \/ AskBeforeHardFail(o)
  \/ HardFailPostponed(o) \/ HardFailConfirmed(o) \/ HardFailNoStatus(o)
  \/ ClaimAttempt(o) \/ RetryInvoiceAnswered(o) \/ RetryStatusAnswered(o)
  \/ RetryPaySubmit(o) \/ RetryPayNotSubmitted(o) \/ RetryPayAnswered(o)
  \/ RetryNotifyAnswered(o)

RecoverStep(o) == PollSaysDelivered(o) \/ PollSaysFailed(o) \/ PollSaysNothing(o)

JobStep ==
  \/ ExpireStaleOrders
  \/ ReconcileSelect \/ ReconcileDone \/ \E o \in Orders : ReconcileStep(o)
  \/ RecoverSelect \/ RecoverDone \/ \E o \in Orders : RecoverStep(o)

\* Dying between the statements that close an order.
InterruptedStep(o) ==
  \/ HandlerFailsInterrupted(o)
  \/ CallbackFulfilledInterrupted(o) \/ CallbackFailedInterrupted(o)
  \/ HardFailInterrupted(o) \/ PollSaysFailedInterrupted(o)

VccStep(o) == VccDelivers(o) \/ VccFails(o)

LedgerStep(o) == \E i \in DOMAIN ledger[o] : TxLands(o, i) \/ TxExpires(o, i)

Next ==
  \/ \E o \in Orders :
       \/ ClaimPayment(o) \/ HandlerStep(o) \/ CallbackStep(o) \/ RefundStep(o)
       \/ VccStep(o) \/ LedgerStep(o) \/ GrowOlder(o) \/ InterruptedStep(o)
  \/ JobStep \/ SetFrozen \/ Crash

Spec == Init /\ [][Next]_vars

\* Fairness.  Every await settles (fetch timeouts; for Horizon an assumption),
\* the timer keeps starting jobs, time passes.  Nothing is asked of VCC's own work.
\* It may leave any status request unanswered, but not every one (SF).
Fairness ==
  /\ WF_vars(JobStep)
  /\ \A o \in Orders :
       /\ WF_vars(HandlerStep(o)) /\ WF_vars(RefundStep(o))
       /\ WF_vars(GrowOlder(o))
       /\ SF_vars(HardFailConfirmed(o)) /\ SF_vars(PollSaysFailed(o))

FairSpec == Spec /\ Fairness

-----------------------------------------------------------------------------
(* Safety.                                                                 *)

HandlerPcs == {"idle", "invoice", "price", "pay", "notify", "notify_again"}
JobPcs == {"idle", "reconcile", "reconciling", "hard_fail_check", "retry_invoice",
           "retry_status", "retry_pay", "retry_notify", "recover", "recovering"}

\* The type of every variable; the columns of a row, the program counters and
\* what each promise remembers.
TypeOK ==
  /\ row \in [Orders -> Row]
  /\ spent \in [Orders -> Nat]
  /\ frozen \in BOOLEAN
  /\ handler \in [Orders -> [pc: HandlerPcs, tx: Nat]]
  /\ refunds \in [Orders -> RefundState]
  /\ jobs \in [pc: JobPcs, todo: SUBSET Orders, cur: Orders \cup {NoOrder},
               tx: Nat, snap: [Orders -> Row]]
  /\ vcc \in [Orders -> VccStatuses]
  /\ ledger \in [Orders -> Seq(Tx)]
  /\ crashes \in Nat

\* jobs.js 395-407: nobody gets "both the card AND a refund".  An order whose
\* card was delivered never had a refund scheduled, whoever raced whom.
NeverCardAndRefund == \A o \in Orders : row[o].card => refunds[o].claims = 0

\* vcc-callback.js 263-266, 315: a key's total_spent_usdc is charged at most once
\* for an order, and only for a card that it got, however often VCC calls back and
\* whatever the jobs decide meanwhile.
ChargedOncePerCard == \A o \in Orders :
  spent[o] <= 1 /\ (spent[o] = 1 => row[o].card /\ row[o].api_key_id)

\* fulfillment.js 807-809: the terminal statuses are terminal.  The handler's
\* unconditional UPDATEs may move an order between them, never out of them.
TerminalAbsorbing ==
  [][\A o \in Orders : row[o].status \in TERMINAL => row'[o].status \in TERMINAL]_vars

\* fulfillment.js 840-844: once a row says that CTX was paid (or may have been),
\* no path starts a refund for the order, and no path forgets it.
CtxPaidIsNeverRefunded ==
  [][\A o \in Orders : row[o].ctx_stellar_txid # 0 =>
       row'[o].ctx_stellar_txid # 0 /\ refunds'[o].claims = refunds[o].claims]_vars

\* A card its key was not charged for; an order left in 'failed' by nobody who
\* scheduled its refund, recorded a payment to CTX or reported the freeze.
Uncharged(o) == row[o].card /\ row[o].api_key_id /\ spent[o] = 0
Unsettled(o) == /\ row[o].status = "failed" /\ ~CtxLegRecorded(row[o])
                /\ ~refunds[o].skipped
CutShort == {o \in Orders : Uncharged(o) \/ Unsettled(o)}

\* vcc-callback.js 315, jobs.js 562-565 ("every terminal failure queues a refund"):
\* only the death of the process between two statements leaves a card uncharged or
\* a failed order without its refund, and each death one order at most.
OneCutShortPerRestart == Cardinality(CutShort) <= crashes

Landed(o, dest) == {i \in DOMAIN ledger[o] : ledger[o][i] = [to |-> dest, st |-> "landed"]}

\* fulfillment.js 695-696, "Atomic claim: transitions to refund_pending only once.
\* Prevents double-refunds": at most one refund of an order reaches its sender.
RefundedAtMostOnce == \A o \in Orders : Cardinality(Landed(o, "sender")) <= 1

\* What holds of it: a refund that is claimed is sent at most once, and only the
\* catch block of a payment handler whose order was closed behind its back claims
\* a second one.  There is no third.
RefundsFollowClaims == \A o \in Orders :
  /\ Cardinality(Landed(o, "sender")) <= refunds[o].claims
  /\ refunds[o].claims <= IF handler[o].pc = "idle" THEN 2 ELSE 1

\* jobs.js 313: the treasury pays CTX at most once for an order.
CtxPaidAtMostOnce == \A o \in Orders : Cardinality(Landed(o, "ctx")) <= 1

\* What holds of it, whatever crashes, is slow or lands late: CTX is paid at most
\* once by the handler and once for each attempt the reconciler has counted, and
\* these are no more than MAX_FULFILLMENT_ATTEMPTS.
CtxPaidWithinAttempts == \A o \in Orders :
  /\ Cardinality(Landed(o, "ctx")) <= 1 + row[o].fulfillment_attempt
  /\ row[o].fulfillment_attempt <= MaxAttempts

-----------------------------------------------------------------------------
(* Why a card and a refund exclude each other: the inductive invariant.    *)

\* The CTX payment is on the row before VCC can start to work on the order:
\* whoever tells VCC "paid" has recorded the payment first, unless VCC has given
\* the job up already.  A snapshot is never ahead of the row it was taken from.
PaidBeforeWorkedOn(o) ==
  /\ handler[o].pc \in {"notify", "notify_again"} => CtxLegRecorded(row[o])
  /\ vcc[o] \in {"running", "delivered"} => CtxLegRecorded(row[o])
  /\ row[o].xlm_sent_at => CtxLegRecorded(row[o]) \/ vcc[o] = "failed"
  /\ jobs.pc = "retry_notify" /\ jobs.cur = o
       => CtxLegRecorded(row[o]) \/ vcc[o] = "failed"

JobIdsAreReal(o) ==
  /\ row[o].vcc_job_id => vcc[o] # "none"
  /\ handler[o].pc = "price" => vcc[o] # "none"
  /\ jobs.pc = "retry_status" /\ jobs.cur = o => vcc[o] # "none"
  /\ jobs.snap[o].vcc_job_id => row[o].vcc_job_id
  /\ jobs.snap[o].xlm_sent_at => row[o].xlm_sent_at

\* Card and refund both close the order; the card needs the payment on the row.
OutcomesClose(o) ==
  /\ row[o].card => CtxLegRecorded(row[o]) /\ row[o].status \in TERMINAL
  /\ refunds[o].claims > 0 => row[o].status \in TERMINAL
  /\ row[o].card => refunds[o].claims = 0
  /\ spent[o] <= 1 /\ (spent[o] > 0 => row[o].card /\ row[o].api_key_id)

\* Nobody works on an order that was not paid for.
UnpaidIsUntouched(o) ==
  row[o].status \in {"pending_payment", "expired"} =>
    /\ handler[o].pc = "idle"
    /\ o \notin jobs.todo /\ jobs.cur # o
    /\ ~row[o].vcc_job_id

\* The invariant of the proofs: inductive, and it implies NeverCardAndRefund and
\* ChargedOncePerCard (see OrderFulfillmentProofs).
OrderInv(o) == /\ PaidBeforeWorkedOn(o) /\ JobIdsAreReal(o)
               /\ OutcomesClose(o) /\ UnpaidIsUntouched(o)
FulfillmentInv == \A o \in Orders : OrderInv(o)

-----------------------------------------------------------------------------
(* Why the money that moves is bounded: the inductive invariants.          *)

CtxTxs(o) == {i \in DOMAIN ledger[o] : ledger[o][i].to = "ctx"}
SenderTxs(o) == {i \in DOMAIN ledger[o] : ledger[o][i].to = "sender"}

\* Every refund transaction, and every send still to start, has its own claim.
RefundsBooked(o) ==
  /\ Cardinality(SenderTxs(o)) + refunds[o].start <= refunds[o].claims
  /\ refunds[o].claims <= IF handler[o].pc = "idle" THEN 2 ELSE 1

\* Whether the handler may still pay CTX, and the job that is at the order.
HandlerMayPay(o) ==
  \/ row[o].status = "pending_payment" \/ handler[o].pc \in {"invoice", "price"}
  \/ handler[o].pc = "pay" /\ handler[o].tx = 0
JobMayPay(o) ==
  /\ jobs.cur = o
  /\ jobs.pc \in {"retry_invoice", "retry_status"} \/ (jobs.pc = "retry_pay" /\ jobs.tx = 0)

\* Every payment to CTX, and every one that may still be made, is the handler's or
\* has its own attempt.
PaymentsBooked(o) ==
  /\ Cardinality(CtxTxs(o)) + (IF HandlerMayPay(o) THEN 1 ELSE 0)
       + (IF JobMayPay(o) THEN 1 ELSE 0) <= 1 + row[o].fulfillment_attempt
  /\ row[o].fulfillment_attempt <= MaxAttempts

-----------------------------------------------------------------------------
(* The abstract specification.                                             *)

Phase(r) == IF r.status = "pending_payment" THEN "open"
            ELSE IF r.status = "expired" THEN "expired"
            ELSE IF r.status \in TERMINAL THEN "closed" ELSE "working"

OutcomeOf(r, f) == IF r.card THEN "card" ELSE IF f.claims > 0 THEN "refund" ELSE "none"

Outcome == INSTANCE OrderOutcome WITH
  phase <- [o \in Orders |-> Phase(row[o])],
  outcome <- [o \in Orders |-> OutcomeOf(row[o], refunds[o])],
  charged <- spent

\* All of the above together: to whoever only sees whether an order is open,
\* which of card and refund it got and what was charged, the handler, the
\* callbacks, the jobs and the crashes behave as OrderOutcome says.
ImplementsOrderOutcome == Outcome!Spec

-----------------------------------------------------------------------------
(* Liveness, under FairSpec.                                               *)

Unpaid(o) == row[o].status = "ordering" /\ row[o].ctx_stellar_txid = 0

\* The invoice that VCC waits for ever to see paid.
WaitsAtVcc(o) == <>[](vcc[o] = "invoice_issued")

\* jobs.js 279-292: an order whose CTX payment is not recorded does not stay in
\* 'ordering': it is paid or failed, whatever its handler was doing when the
\* process died and however many restarts, slow calls and refused attempts there
\* were.  The code has two exceptions: the hard fail is postponed as long as VCC
\* says invoice_issued (jobs.js 291-292), and a frozen system leaves the order
\* alone (jobs.js 294-307).
UnpaidOrderIsDecided ==
  \A o \in Orders : WaitsAtVcc(o) \/ (Unpaid(o) ~> (~Unpaid(o) \/ frozen))

=============================================================================
