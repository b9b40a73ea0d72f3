--------------------------- MODULE OrderAdmission ---------------------------
(***************************************************************************)
(* How an order of one API key comes to exist: POST /v1/orders             *)
(* (middleware/auth.js, api/orders.js, policy.js), the owner's approval of *)
(* expensive orders, the suspension and the update of the key              *)
(* (api/dashboard.js) and the jobs that expire approvals and orders        *)
(* (jobs.js).                                                              *)
(*                                                                         *)
(* A request reads its key once, in auth, and then awaits bcrypt, the DNS  *)
(* check of its webhook and the XLM price; everything it decides it then   *)
(* decides in one synchronous SQLite transaction, partly from the row it   *)
(* read in auth.  The owner's approve awaits the XLM price between its     *)
(* checks and its transaction.  An order is named after its request.  What *)
(* becomes of an order once it is payable is OrderFulfillment's subject:   *)
(* here it moves as that module lets it.                                   *)
(*                                                                         *)
(* Closing an approval and closing its order are two UPDATEs, each its own *)
(* commit: the process may die between them (the actions Interrupted).     *)
(***************************************************************************)
EXTENDS Naturals, FiniteSets

CONSTANTS
  Requests,      \* POST /v1/orders requests, in the end at most an order each
  Amount,        \* amount_usdc of each request
  IdempotencyKey,\* its Idempotency-Key header, or NoKey
  NoKey,
  SpendLimits,   \* bound: the values of spend_limit_usdc explored
  Policies,      \* bound: the values of the policy columns explored
  MaxCrashes     \* bound: process restarts explored

ASSUME RequestsAreFinite == IsFiniteSet(Requests)
ASSUME AmountsArePositive == Amount \in [Requests -> Nat \ {0}]
ASSUME LimitsAreAmounts ==
  /\ SpendLimits \subseteq Nat /\ SpendLimits # {}
  /\ Policies \subseteq [daily_limit: Nat, single_tx_limit: Nat, approval_above: Nat]
  /\ Policies # {} /\ MaxCrashes \in Nat

VARIABLES
  key,       \* the api_keys row, without its policy columns
  policy,    \* its policy_* columns, which only checkPolicy reads
  order,     \* the orders table, per request
  approval,  \* approval_requests, per request
  idem,      \* idempotency_keys: the row each request wrote, if it did
  req,       \* requests being handled, and the key row each one read in auth
  approving, \* approve handlers between their checks and their transaction
  dayLimit,  \* history: the highest daily limit in force since midnight
  unreached, \* history: approvals the last suspension died before rejecting
  crashes    \* restarts so far

account == <<key, policy, dayLimit>>
restarts == <<unreached, crashes>>
vars == <<account, order, approval, idem, req, approving, restarts>>

-----------------------------------------------------------------------------
\* A limit that is not set is one no total reaches.
Key == [exists: BOOLEAN, suspended: BOOLEAN, mode: {"live", "sandbox"},
        spend_limit: Nat, total_spent: Nat]

\* "failed" stands for failed, refunded and pending_manual_recovery.
Statuses == {"none", "awaiting_approval", "pending_payment", "ordering", "delivered",
             "refund_pending", "failed", "expired", "rejected"}

\* created_today: date(created_at) = date('now'); xlm_offered: the payment
\* instructions name an XLM amount; expected_xlm: expected_xlm_amount is not null.
Order == [status: Statuses, created_today: BOOLEAN, xlm_offered: BOOLEAN, expected_xlm: BOOLEAN]
NoOrder == [status |-> "none", created_today |-> FALSE,
            xlm_offered |-> FALSE, expected_xlm |-> FALSE]

\* expired: expires_at is in the past.
Approval == [status: {"none", "pending", "approved", "rejected", "expired"}, expired: BOOLEAN]
NoApproval == [status |-> "none", expired |-> FALSE]

\* What a request that holds no key row has.
NoRow == [exists |-> FALSE, suspended |-> FALSE, mode |-> "live",
          spend_limit |-> 0, total_spent |-> 0]

Requested == [pc: {"new", "authenticated", "answered"}, key: Key]

Exists(q) == order[q].status # "none"
OrdersWith(S) == {q \in Requests : order[q].status \in S}

\* SUM(amount_usdc) over the orders in S: their units of money, counted.
Total(S) == Cardinality(UNION {{q} \X (1..Amount[q]) : q \in S})

IN_FLIGHT_STATUSES == {"pending_payment", "ordering", "refund_pending", "awaiting_approval"}

\* The spend check of a new order, against the key row k.
WithinSpendLimit(k, amount) ==
  k.total_spent + Total(OrdersWith(IN_FLIGHT_STATUSES)) + amount <= k.spend_limit

\* A fault: orders are counted once they are paid.
SpentTodayIfPaid == Total({q \in Requests :
  /\ order[q].created_today
  /\ order[q].status \notin {"none", "expired", "rejected", "awaiting_approval",
                             "pending_payment"}})

SpentToday == Total({q \in Requests :
  order[q].created_today /\ order[q].status \notin {"none", "expired", "rejected"}})

-----------------------------------------------------------------------------
(* POST /v1/orders.                                                        *)

\* auth.js reads the row of the key; the awaits begin.
Authenticate(q) ==
  /\ req[q].pc = "new"
  /\ key.exists /\ ~key.suspended
  /\ req' = [req EXCEPT ![q] = [pc |-> "authenticated", key |-> key]]
  /\ UNCHANGED <<account, restarts, order, approval, idem, approving>>

\* The Idempotency-Key has a row: its response is replayed, or a conflict.
Cached(q) ==
  /\ IdempotencyKey[q] # NoKey
  /\ \E p \in Requests : idem[p] = "cached" /\ IdempotencyKey[p] = IdempotencyKey[q]

\* A fault: whether the key is suspended is known since auth.
PolicyBlocksAsOfAuth(q) ==
  \/ ~req[q].key.exists \/ req[q].key.suspended
  \/ Amount[q] > policy.single_tx_limit
  \/ SpentToday + Amount[q] > policy.daily_limit

\* checkPolicy reads the key again.  (The allowed hours and days only refuse
\* more, and refusing changes nothing: see Refuse.)
PolicyBlocks(q) ==
  \/ ~key.exists \/ key.suspended
  \/ Amount[q] > policy.single_tx_limit
  \/ SpentToday + Amount[q] > policy.daily_limit

NeedsApproval(q) == Amount[q] > policy.approval_above

\* A fault: the answer 202 is not cached.
InsertUncached(q, status, xlm) ==
  /\ order' = [order EXCEPT ![q] = [status |-> status, created_today |-> TRUE,
                                    xlm_offered |-> xlm, expected_xlm |-> xlm]]
  /\ UNCHANGED idem

\* The transaction inserts the order with its response in the idempotency cache.
Insert(q, status, xlm) ==
  /\ order' = [order EXCEPT ![q] = [status |-> status, created_today |-> TRUE,
                                    xlm_offered |-> xlm, expected_xlm |-> xlm]]
  /\ idem' = [idem EXCEPT ![q] = IF IdempotencyKey[q] = NoKey THEN @ ELSE "cached"]

InsertAwaitingApproval(q) ==
  /\ Insert(q, "awaiting_approval", FALSE)
  /\ approval' = [approval EXCEPT ![q] = [status |-> "pending", expired |-> FALSE]]

Answer(q) == req' = [req EXCEPT ![q] = [pc |-> "answered", key |-> NoRow]]

\* xlm: the price oracle answered.
CreateOrder(q, xlm) ==
  /\ req[q].pc = "authenticated"
  /\ ~Cached(q)
  /\ WithinSpendLimit(req[q].key, Amount[q])
  /\ ~PolicyBlocks(q)
  /\ \/ NeedsApproval(q) /\ InsertAwaitingApproval(q)
     \/ /\ ~NeedsApproval(q) /\ req[q].key.mode = "sandbox"
        /\ Insert(q, "delivered", FALSE) /\ UNCHANGED approval
     \/ /\ ~NeedsApproval(q) /\ req[q].key.mode = "live"
        /\ Insert(q, "pending_payment", xlm) /\ UNCHANGED approval
  /\ Answer(q)
  /\ UNCHANGED <<account, restarts, approving>>

\* Every refusal and every replay; a frozen system, a bad webhook, a lost process.
Refuse(q) ==
  /\ req[q].pc = "authenticated"
  /\ Answer(q)
  /\ UNCHANGED <<account, restarts, order, approval, idem, approving>>

-----------------------------------------------------------------------------
(* The owner decides.                                                      *)

\* The checks of approve: still pending, in time, and within the limit as it is
\* now (the order itself is in flight).  Then usdToXlm is awaited.
ApproveClicked(q) ==
  /\ key.exists
  /\ approval[q].status = "pending" /\ ~approval[q].expired
  /\ key.total_spent + Total(OrdersWith(IN_FLIGHT_STATUSES) \ {q}) + Amount[q]
       <= key.spend_limit
  /\ approving' = approving \cup {q}
  /\ UNCHANGED <<account, restarts, order, approval, idem, req>>

\* A fault: approve goes by what it read before the await.
StillApprovableAsClicked(q) == order[q].status # "none"

\* The compare-and-swap on both rows.
StillApprovable(q) ==
  /\ approval[q].status = "pending" /\ ~approval[q].expired
  /\ order[q].status = "awaiting_approval"

ApproveCommitted(q, xlm) ==
  /\ q \in approving
  /\ approving' = approving \ {q}
  /\ \/ /\ StillApprovable(q)
        /\ approval' = [approval EXCEPT ![q].status = "approved"]
        /\ order' = [order EXCEPT ![q].status = "pending_payment", ![q].xlm_offered = xlm]
     \/ ~StillApprovable(q) /\ UNCHANGED <<approval, order>>
  /\ UNCHANGED <<account, restarts, idem, req>>

\* A fault: the order of a closed approval is left waiting.
OrderNotRejected(o) == o

\* UPDATE orders SET status = 'rejected' WHERE status = 'awaiting_approval'.
OrderRejected(o) ==
  IF o.status = "awaiting_approval" THEN [o EXCEPT !.status = "rejected"] ELSE o

\* The process dies and is started again: requests and approves are gone.
Dies ==
  /\ crashes < MaxCrashes
  /\ crashes' = crashes + 1
  /\ req' = [q \in Requests |->
       IF req[q].pc = "authenticated" THEN [pc |-> "answered", key |-> NoRow] ELSE req[q]]
  /\ approving' = {}

\* The order whose UPDATE it dies before, if it does.
AtMostOne(S) == {{}} \cup {{q} : q \in S}

\* Closing the approvals in S one by one, each one's order right after it; the
\* order in `undone` does not get its UPDATE.
CloseApprovals(S, undone, verdict) ==
  /\ approval' = [q \in Requests |->
       IF q \in S THEN [approval[q] EXCEPT !.status = verdict] ELSE approval[q]]
  /\ order' = [q \in Requests |->
       IF q \in S \ undone THEN OrderRejected(order[q]) ELSE order[q]]

Pending == {q \in Requests : approval[q].status = "pending"}

Reject(q) ==
  /\ key.exists /\ q \in Pending
  /\ CloseApprovals({q}, {}, "rejected")
  /\ UNCHANGED <<account, restarts, idem, req, approving>>

RejectInterrupted(q) ==
  /\ key.exists /\ q \in Pending
  /\ CloseApprovals({q}, {q}, "rejected")
  /\ Dies
  /\ UNCHANGED <<account, unreached, idem>>

\* expireApprovalRequests.
Overdue == {q \in Pending : approval[q].expired}

ExpireApprovalRequests ==
  /\ CloseApprovals(Overdue, {}, "expired")
  /\ UNCHANGED <<account, restarts, idem, req, approving>>

ExpireInterrupted ==
  /\ \E S \in SUBSET Overdue : \E undone \in AtMostOne(S) :
       CloseApprovals(S, undone, "expired")
  /\ Dies
  /\ UNCHANGED <<account, unreached, idem>>

\* Suspending a key rejects whatever is pending (and its order, whatever that is).
SuspendKey == key.exists /\ key' = [key EXCEPT !.suspended = TRUE]

RejectAll(S, undone) ==
  /\ approval' = [q \in Requests |->
       IF q \in S THEN [approval[q] EXCEPT !.status = "rejected"] ELSE approval[q]]
  /\ order' = [q \in Requests |->
       IF q \in S \ undone THEN [order[q] EXCEPT !.status = "rejected"] ELSE order[q]]

\* A fault: suspending leaves the approvals alone.
SuspendKeyOnly ==
  /\ SuspendKey /\ unreached' = {}
  /\ UNCHANGED <<policy, dayLimit, crashes, order, approval, idem, req, approving>>

Suspend ==
  /\ SuspendKey
  /\ RejectAll(Pending, {})
  /\ unreached' = {}
  /\ UNCHANGED <<policy, dayLimit, crashes, idem, req, approving>>

SuspendInterrupted ==
  /\ SuspendKey
  /\ \E S \in SUBSET Pending : \E undone \in AtMostOne(S) :
       RejectAll(S, undone) /\ unreached' = Pending \ S
  /\ Dies
  /\ UNCHANGED <<policy, dayLimit, idem>>

Unsuspend ==
  /\ key.exists
  /\ key' = [key EXCEPT !.suspended = FALSE]
  /\ UNCHANGED <<policy, dayLimit, restarts, order, approval, idem, req, approving>>

\* PATCH and DELETE /dashboard/api-keys/:id.  (PATCH may disable the key as well,
\* which makes auth refuse more; see Refuse.)
UpdateKey ==
  /\ key.exists
  /\ \E limit \in SpendLimits : key' = [key EXCEPT !.spend_limit = limit]
  /\ policy' \in Policies
  /\ dayLimit' = IF policy'.daily_limit > dayLimit THEN policy'.daily_limit ELSE dayLimit
  /\ UNCHANGED <<restarts, order, approval, idem, req, approving>>

DeleteKey ==
  /\ key.exists
  /\ key' = [key EXCEPT !.exists = FALSE]
  /\ UNCHANGED <<policy, dayLimit, restarts, order, approval, idem, req, approving>>

-----------------------------------------------------------------------------
(* What becomes of a payable order (OrderFulfillment), and time.           *)

Moved(q, status) ==
  /\ order' = [order EXCEPT ![q].status = status]
  /\ UNCHANGED <<restarts, approval, idem, req, approving>>

\* handlePayment claims the order.
Pay(q) == order[q].status = "pending_payment" /\ Moved(q, "ordering") /\ UNCHANGED account

\* The callback delivers the card, then charges the key if it is still there, and
\* if the process does not die before that.
Charged(q) == [key EXCEPT !.total_spent = IF key.exists THEN @ + Amount[q] ELSE @]

Deliver(q) ==
  /\ order[q].status = "ordering"
  /\ Moved(q, "delivered")
  /\ key' \in {key, Charged(q)}
  /\ UNCHANGED <<policy, dayLimit>>

\* Failing, or having been refunded; the handler's catch overwrites even 'delivered'.
Fail(q) ==
  /\ \/ order[q].status \in {"ordering", "refund_pending"}
     \/ order[q].status = "delivered" /\ key.mode = "live"
  /\ Moved(q, "failed") /\ UNCHANGED account

Refund(q) ==
  order[q].status \in {"ordering", "failed"} /\ Moved(q, "refund_pending") /\ UNCHANGED account

\* expireStaleOrders.
ExpireStaleOrder(q) ==
  order[q].status = "pending_payment" /\ Moved(q, "expired") /\ UNCHANGED account

ApprovalTimesOut(q) ==
  /\ approval[q].status = "pending"
  /\ approval' = [approval EXCEPT ![q].expired = TRUE]
  /\ UNCHANGED <<account, restarts, order, idem, req, approving>>

\* UTC midnight.
NewDay ==
  /\ order' = [q \in Requests |-> [order[q] EXCEPT !.created_today = FALSE]]
  /\ dayLimit' = policy.daily_limit
  /\ UNCHANGED <<key, policy, restarts, approval, idem, req, approving>>

\* pruneIdempotencyKeys: the rows older than 24 hours.
PruneIdempotencyKey(q) ==
  /\ idem[q] = "cached"
  /\ idem' = [idem EXCEPT ![q] = "pruned"]
  /\ UNCHANGED <<account, restarts, order, approval, req, approving>>

-----------------------------------------------------------------------------
Init ==
  /\ \E mode \in {"live", "sandbox"}, limit \in SpendLimits :
       key = [exists |-> TRUE, suspended |-> FALSE, mode |-> mode,
              spend_limit |-> limit, total_spent |-> 0]
  /\ policy \in Policies
  /\ dayLimit = policy.daily_limit
  /\ order = [q \in Requests |-> NoOrder]
  /\ approval = [q \in Requests |-> NoApproval]
  /\ idem = [q \in Requests |-> "none"]
  /\ req = [q \in Requests |-> [pc |-> "new", key |-> NoRow]]
  /\ approving = {}
  /\ unreached = {}
  /\ crashes = 0

RequestStep(q) == Authenticate(q) \/ Refuse(q) \/ \E xlm \in BOOLEAN : CreateOrder(q, xlm)

OwnerStep ==
  \/ \E q \in Requests : ApproveClicked(q) \/ Reject(q)
  \/ \E q \in Requests, xlm \in BOOLEAN : ApproveCommitted(q, xlm)
  \/ Suspend \/ Unsuspend \/ UpdateKey \/ DeleteKey

InterruptedStep ==
  \/ \E q \in Requests : RejectInterrupted(q)
  \/ SuspendInterrupted \/ ExpireInterrupted

OrderStep(q) ==
  \/ Pay(q) \/ Deliver(q) \/ Fail(q) \/ Refund(q) \/ ExpireStaleOrder(q)
  \/ ApprovalTimesOut(q) \/ PruneIdempotencyKey(q)

Next ==
  \/ \E q \in Requests : RequestStep(q) \/ OrderStep(q)
  \/ OwnerStep \/ ExpireApprovalRequests \/ NewDay \/ InterruptedStep

Spec == Init /\ [][Next]_vars

-----------------------------------------------------------------------------
(* Properties.                                                             *)

\* The type of every variable: the columns, the program counter of a request
\* and the key row it read.
TypeOK ==
  /\ key \in Key
  /\ policy \in Policies
  /\ dayLimit \in Nat
  /\ order \in [Requests -> Order]
  /\ approval \in [Requests -> Approval]
  /\ idem \in [Requests -> {"none", "cached", "pruned"}]
  /\ req \in [Requests -> Requested]
  /\ approving \subseteq Requests
  /\ unreached \subseteq Requests
  /\ crashes \in Nat

\* orders.js 440, policy.js 221-224: however many requests run at once, however
\* late the owner approves and whenever the policy is changed, the orders of a day
\* that were not expired or rejected stay within a daily limit that was in force
\* on that day.
DailyLimitKept == SpentToday <= dayLimit

\* orders.js 441-444: requests that repeat an Idempotency-Key make one order
\* between them, until the key is forgotten after 24 hours.
OneOrderPerIdempotencyKey ==
  \A p, q \in Requests :
    /\ p # q /\ Exists(p) /\ Exists(q)
    /\ IdempotencyKey[p] = IdempotencyKey[q] /\ IdempotencyKey[p] # NoKey
    => idem[p] = "pruned" \/ idem[q] = "pruned"

\* Orders that wait for an owner who has decided already.
CutShort == {q \in Requests :
  order[q].status = "awaiting_approval" /\ approval[q].status # "pending"}

\* dashboard.js 844-855, jobs.js 888-891: the approval and its order never
\* disagree: approve, reject, suspend and the expiry job race, one of them
\* decides, and a rejected order is not revived by an approve that began before.
\* Only a restart can leave the order of a closed approval waiting, and each one
\* order at most.
ApprovalsMatchOrders ==
  /\ \A q \in Requests :
       /\ approval[q].status = "none" => order[q].status \notin {"awaiting_approval", "rejected"}
       /\ approval[q].status = "pending" => order[q].status = "awaiting_approval"
       /\ approval[q].status = "approved"
            => order[q].status \notin {"none", "awaiting_approval", "rejected"}
       /\ approval[q].status \in {"rejected", "expired"}
            => order[q].status = "rejected" \/ q \in CutShort
  /\ Cardinality(CutShort) <= crashes

\* README.md 9, the kill switch: while a key is suspended no order of it becomes
\* payable or starts to wait for the owner, not even by a request that was
\* authenticated, or an approve that was clicked, before the suspension.  The
\* exception are approvals that the suspension died before rejecting.
SuspendedKeyGetsNothing ==
  [][key.suspended => \A q \in Requests \ unreached :
       order'[q].status \in {"awaiting_approval", "pending_payment"}
         => order'[q].status = order[q].status]_vars

\* dashboard.js 842-851: once rejected, by the owner, by a suspension or by the
\* expiry job, an order stays rejected, whatever approve is still on its way; and
\* an order that expired unpaid is never paid.
RejectionIsFinal ==
  [][\A q \in Requests : order[q].status \in {"rejected", "expired"}
       => order'[q].status = order[q].status]_vars

\* orders.js 428-440, "This closes three TOCTOU races": the cards a key was charged
\* for and those it can still get never exceed its spend limit (while that is left
\* as it is).
SpendLimitKept ==
  key.total_spent + Total(OrdersWith({"awaiting_approval", "pending_payment", "ordering"}))
    <= key.spend_limit

-----------------------------------------------------------------------------
(* Why: the inductive invariant.                                           *)

\* A request that was not answered has left nothing behind.
UnansweredHasNothing(q) ==
  req[q].pc # "answered" =>
    order[q].status = "none" /\ approval[q].status = "none" /\ idem[q] = "none"

\* An order with an Idempotency-Key wrote its row.
OrderWroteItsKey(q) == Exists(q) /\ IdempotencyKey[q] # NoKey => idem[q] # "none"

\* The kill switch leaves no approval to decide, unless it is cut short.
NothingPendingWhileSuspended(q) ==
  key.suspended /\ q \in Pending => q \in unreached

\* The invariant of the proofs (OrderAdmissionProofs).
AdmissionInv ==
  /\ ApprovalsMatchOrders
  /\ OneOrderPerIdempotencyKey
  /\ \A q \in Requests : /\ UnansweredHasNothing(q) /\ OrderWroteItsKey(q)
                         /\ NothingPendingWhileSuspended(q)

=============================================================================
