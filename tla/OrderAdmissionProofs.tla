------------------------ MODULE OrderAdmissionProofs ------------------------
(***************************************************************************)
(* Theorems of OrderAdmission for every set of requests, amounts, limits   *)
(* and idempotency keys.  TypeOK is inductive by itself; AdmissionInv is   *)
(* inductive under it; two action properties follow from AdmissionInv.     *)
(* Sums of amounts are cardinalities, so the daily limit follows from      *)
(* lemmas about finite sets: one order adds its amount, and every step but *)
(* the creation of an order adds none.                                     *)
(***************************************************************************)
EXTENDS OrderAdmission, FiniteSetTheorems, TLAPS

USE AmountsArePositive, LimitsAreAmounts DEF account, restarts

-----------------------------------------------------------------------------
(* Types.                                                                  *)

\* The records the actions build have the types of their variables.
ApprovalStatuses == {"none", "pending", "approved", "rejected", "expired"}

LEMMA NullsTyped == NoRow \in Key /\ NoOrder \in Order /\ NoApproval \in Approval
  BY DEF NoRow, Key, NoOrder, Order, NoApproval, Approval, Statuses

LEMMA NewOrderTyped ==
  ASSUME NEW s \in Statuses, NEW a \in BOOLEAN, NEW b \in BOOLEAN, NEW c \in BOOLEAN
  PROVE  [status |-> s, created_today |-> a, xlm_offered |-> b, expected_xlm |-> c] \in Order
  BY DEF Order

LEMMA OrderStatusTyped ==
  ASSUME NEW o \in Order, NEW s \in Statuses
  PROVE  [o EXCEPT !.status = s] \in Order
  BY DEF Order

LEMMA OrderOfferTyped ==
  ASSUME NEW o \in Order, NEW s \in Statuses, NEW b \in BOOLEAN
  PROVE  [o EXCEPT !.status = s, !.xlm_offered = b] \in Order
  BY DEF Order

LEMMA OrderDayTyped ==
  ASSUME NEW o \in Order PROVE [o EXCEPT !.created_today = FALSE] \in Order
  BY DEF Order

LEMMA OrderRejectedTyped ==
  ASSUME NEW o \in Order PROVE OrderRejected(o) \in Order
  BY OrderStatusTyped DEF OrderRejected, Statuses

LEMMA ApprovalTyped ==
  ASSUME NEW a \in Approval, NEW s \in ApprovalStatuses
  PROVE  [a EXCEPT !.status = s] \in Approval
  BY DEF Approval, ApprovalStatuses

LEMMA ApprovalExpiryTyped ==
  ASSUME NEW a \in Approval
  PROVE  [a EXCEPT !.expired = TRUE] \in Approval
  BY DEF Approval

LEMMA NewApprovalTyped == [status |-> "pending", expired |-> FALSE] \in Approval
  BY DEF Approval

LEMMA KeyTyped ==
  ASSUME NEW k \in Key, NEW b \in BOOLEAN
  PROVE  /\ [k EXCEPT !.exists = b] \in Key
         /\ [k EXCEPT !.suspended = b] \in Key
  BY DEF Key

LEMMA KeyAmountTyped ==
  ASSUME NEW k \in Key, NEW n \in Nat
  PROVE  /\ [k EXCEPT !.spend_limit = n] \in Key
         /\ [k EXCEPT !.total_spent = n] \in Key
  BY DEF Key

LEMMA PolicyTyped == \A pol \in Policies : pol.daily_limit \in Nat
  OBVIOUS

LEMMA TypeInit == Init => TypeOK
<1> SUFFICES ASSUME Init PROVE TypeOK
  OBVIOUS
<1>1. key \in Key
  BY DEF Init, Key
<1>2. order \in [Requests -> Order] /\ approval \in [Requests -> Approval]
  BY NullsTyped DEF Init
<1>3. req \in [Requests -> Requested]
  BY NullsTyped DEF Init, Requested
<1>4. policy \in Policies /\ dayLimit \in Nat
  BY PolicyTyped DEF Init
<1>5. unreached \subseteq Requests /\ crashes \in Nat
  BY DEF Init
<1> QED
  BY <1>1, <1>2, <1>3, <1>4, <1>5 DEF Init, TypeOK

LEMMA RequestTyped ==
  ASSUME TypeOK, NEW q \in Requests, RequestStep(q)
  PROVE  TypeOK'
<1> USE DEF TypeOK, Requested
<1>1. CASE Authenticate(q)
  BY <1>1 DEF Authenticate
<1>2. CASE Refuse(q)
  BY <1>2, NullsTyped DEF Refuse, Answer
<1>3. ASSUME NEW xlm \in BOOLEAN, CreateOrder(q, xlm) PROVE TypeOK'
  <2>1. req' \in [Requests -> Requested] /\ UNCHANGED <<account, restarts, approving>>
    BY <1>3, NullsTyped DEF CreateOrder, Answer
  <2>2. ASSUME NEW status \in Statuses, NEW x \in BOOLEAN, Insert(q, status, x)
        PROVE  /\ order' \in [Requests -> Order]
               /\ idem' \in [Requests -> {"none", "cached", "pruned"}]
    BY <2>2, NewOrderTyped DEF Insert
  <2>3. CASE NeedsApproval(q) /\ InsertAwaitingApproval(q)
    BY <2>1, <2>2, <2>3, NewApprovalTyped DEF InsertAwaitingApproval, Statuses
  <2>4. CASE Insert(q, "delivered", FALSE) /\ UNCHANGED approval
    BY <2>1, <2>2, <2>4 DEF Statuses
  <2>5. CASE Insert(q, "pending_payment", xlm) /\ UNCHANGED approval
    BY <2>1, <2>2, <2>5 DEF Statuses
  <2> QED
    BY <1>3, <2>3, <2>4, <2>5 DEF CreateOrder
<1> QED
  BY <1>1, <1>2, <1>3 DEF RequestStep

LEMMA OrderTyped ==
  ASSUME TypeOK, NEW q \in Requests, OrderStep(q)
  PROVE  TypeOK'
<1> USE DEF TypeOK
<1>1. ASSUME NEW status \in Statuses, Moved(q, status)
      PROVE  order' \in [Requests -> Order] /\ UNCHANGED <<restarts, approval, idem, req, approving>>
  BY <1>1, OrderStatusTyped DEF Moved
<1>2. CASE Pay(q)
  BY <1>1, <1>2 DEF Pay, Statuses
<1>3. CASE Deliver(q)
  <2>1. PICK n \in Nat : key' = [key EXCEPT !.total_spent = n]
    <3>1. key.total_spent \in Nat /\ key.total_spent + Amount[q] \in Nat
      BY DEF Key
    <3>2. CASE key' = key
      <4>1. key = [key EXCEPT !.total_spent = key.total_spent]
        BY DEF Key
      <4> QED
        BY <3>1, <3>2, <4>1
    <3>3. CASE key' = Charged(q)
      BY <3>1, <3>3 DEF Charged
    <3> QED
      BY <1>3, <3>2, <3>3 DEF Deliver
  <2>2. key' \in Key
    BY <2>1, KeyAmountTyped
  <2> QED
    BY <1>1, <1>3, <2>2 DEF Deliver, Statuses
<1>4. CASE Fail(q)
  BY <1>1, <1>4 DEF Fail, Statuses
<1>5. CASE Refund(q)
  BY <1>1, <1>5 DEF Refund, Statuses
<1>6. CASE ExpireStaleOrder(q)
  BY <1>1, <1>6 DEF ExpireStaleOrder, Statuses
<1>7. CASE ApprovalTimesOut(q)
  BY <1>7, ApprovalExpiryTyped DEF ApprovalTimesOut
<1>8. CASE PruneIdempotencyKey(q)
  BY <1>8 DEF PruneIdempotencyKey
<1> QED
  BY <1>2, <1>3, <1>4, <1>5, <1>6, <1>7, <1>8 DEF OrderStep

LEMMA CloseTyped ==
  ASSUME TypeOK, NEW S, NEW undone, NEW verdict \in {"rejected", "expired"},
         CloseApprovals(S, undone, verdict)
  PROVE  order' \in [Requests -> Order] /\ approval' \in [Requests -> Approval]
<1>1. order' \in [Requests -> Order]
  BY OrderRejectedTyped DEF CloseApprovals, TypeOK
<1>2. verdict \in ApprovalStatuses
  BY DEF ApprovalStatuses
<1>3. approval' \in [Requests -> Approval]
  BY <1>2, ApprovalTyped DEF CloseApprovals, TypeOK
<1> QED
  BY <1>1, <1>3

LEMMA RejectAllTyped ==
  ASSUME TypeOK, NEW S, NEW undone, RejectAll(S, undone)
  PROVE  order' \in [Requests -> Order] /\ approval' \in [Requests -> Approval]
<1>1. order' \in [Requests -> Order]
  BY OrderStatusTyped DEF RejectAll, TypeOK, Statuses
<1>2. approval' \in [Requests -> Approval]
  BY ApprovalTyped DEF RejectAll, TypeOK, ApprovalStatuses
<1> QED
  BY <1>1, <1>2

LEMMA SuspendKeyTyped ==
  ASSUME TypeOK, SuspendKey
  PROVE  key' \in Key
  BY KeyTyped DEF SuspendKey, TypeOK

LEMMA DiesTyped ==
  ASSUME TypeOK, Dies
  PROVE  req' \in [Requests -> Requested] /\ approving' \subseteq Requests /\ crashes' \in Nat
<1>1. [pc |-> "answered", key |-> NoRow] \in Requested
  BY NullsTyped DEF Requested
<1> QED
  BY <1>1 DEF Dies, TypeOK

LEMMA InterruptedTyped ==
  ASSUME TypeOK, InterruptedStep
  PROVE  TypeOK'
<1>1. ASSUME NEW q \in Requests, RejectInterrupted(q) PROVE TypeOK'
  <2>1. order' \in [Requests -> Order] /\ approval' \in [Requests -> Approval]
    BY <1>1, CloseTyped DEF RejectInterrupted
  <2>2. req' \in [Requests -> Requested] /\ approving' \subseteq Requests /\ crashes' \in Nat
    BY <1>1, DiesTyped DEF RejectInterrupted
  <2> QED
    BY <1>1, <2>1, <2>2 DEF RejectInterrupted, TypeOK
<1>2. CASE SuspendInterrupted
  <2>0. PICK S \in SUBSET Pending : \E undone : RejectAll(S, undone) /\ unreached' = Pending \ S
    BY <1>2 DEF SuspendInterrupted
  <2>1. PICK undone : RejectAll(S, undone) /\ unreached' = Pending \ S
    BY <2>0
  <2>2. order' \in [Requests -> Order] /\ approval' \in [Requests -> Approval]
    BY <2>1, RejectAllTyped
  <2>3. req' \in [Requests -> Requested] /\ approving' \subseteq Requests /\ crashes' \in Nat
    BY <1>2, DiesTyped DEF SuspendInterrupted
  <2>4. key' \in Key
    BY <1>2, SuspendKeyTyped DEF SuspendInterrupted
  <2> QED
    BY <1>2, <2>1, <2>2, <2>3, <2>4 DEF SuspendInterrupted, TypeOK, Pending
<1>3. CASE ExpireInterrupted
  <2>1. order' \in [Requests -> Order] /\ approval' \in [Requests -> Approval]
    BY <1>3, CloseTyped DEF ExpireInterrupted
  <2>2. req' \in [Requests -> Requested] /\ approving' \subseteq Requests /\ crashes' \in Nat
    BY <1>3, DiesTyped DEF ExpireInterrupted
  <2> QED
    BY <1>3, <2>1, <2>2 DEF ExpireInterrupted, TypeOK
<1> QED
  BY <1>1, <1>2, <1>3 DEF InterruptedStep

LEMMA OwnerTyped ==
  ASSUME TypeOK, OwnerStep
  PROVE  TypeOK'
<1> USE DEF TypeOK
<1>1. ASSUME NEW q \in Requests, ApproveClicked(q) PROVE TypeOK'
  BY <1>1 DEF ApproveClicked
<1>2. ASSUME NEW q \in Requests, Reject(q) PROVE TypeOK'
  BY <1>2, CloseTyped DEF Reject
<1>3. ASSUME NEW q \in Requests, NEW xlm \in BOOLEAN, ApproveCommitted(q, xlm) PROVE TypeOK'
  <2>1. UNCHANGED <<account, restarts, idem, req>> /\ approving' \subseteq Requests
    BY <1>3 DEF ApproveCommitted
  <2>2. CASE ~StillApprovable(q)
    BY <1>3, <2>1, <2>2 DEF ApproveCommitted
  <2>3. CASE StillApprovable(q)
    <3>1. /\ approval' = [approval EXCEPT ![q].status = "approved"]
          /\ order' = [order EXCEPT ![q].status = "pending_payment", ![q].xlm_offered = xlm]
      BY <1>3, <2>3 DEF ApproveCommitted
    <3>2. approval' \in [Requests -> Approval]
      BY <3>1, ApprovalTyped DEF ApprovalStatuses
    <3>3. order' \in [Requests -> Order]
      BY <3>1, OrderOfferTyped DEF Statuses
    <3> QED
      BY <2>1, <3>2, <3>3
  <2> QED
    BY <2>2, <2>3
<1>4. CASE Suspend
  <2>1. key' \in Key
    BY <1>4, SuspendKeyTyped DEF Suspend
  <2>2. order' \in [Requests -> Order] /\ approval' \in [Requests -> Approval]
    BY <1>4, RejectAllTyped DEF Suspend
  <2> QED
    BY <1>4, <2>1, <2>2 DEF Suspend
<1>5. CASE Unsuspend
  BY <1>5, KeyTyped DEF Unsuspend
<1>6. CASE UpdateKey
  <2>1. PICK limit \in SpendLimits : key' = [key EXCEPT !.spend_limit = limit]
    BY <1>6 DEF UpdateKey
  <2>2. key' \in Key
    BY <2>1, KeyAmountTyped
  <2>3. policy' \in Policies /\ dayLimit' \in Nat
    BY <1>6, PolicyTyped DEF UpdateKey
  <2> QED
    BY <1>6, <2>2, <2>3 DEF UpdateKey
<1>7. CASE DeleteKey
  BY <1>7, KeyTyped DEF DeleteKey
<1> QED
  BY <1>1, <1>2, <1>3, <1>4, <1>5, <1>6, <1>7 DEF OwnerStep

LEMMA TypeStep == TypeOK /\ [Next]_vars => TypeOK'
<1> SUFFICES ASSUME TypeOK, [Next]_vars PROVE TypeOK'
  OBVIOUS
<1>1. CASE ExpireApprovalRequests
  BY <1>1, CloseTyped DEF ExpireApprovalRequests, TypeOK
<1>2. CASE NewDay
  <2>1. order' \in [Requests -> Order] /\ dayLimit' \in Nat
    BY <1>2, OrderDayTyped, PolicyTyped DEF NewDay, TypeOK
  <2> QED
    BY <1>2, <2>1 DEF NewDay, TypeOK
<1>3. CASE UNCHANGED vars
  BY <1>3 DEF vars, TypeOK
<1> QED
  BY <1>1, <1>2, <1>3, RequestTyped, OrderTyped, OwnerTyped, InterruptedTyped DEF Next

\* The type invariant, for every set of requests.
THEOREM TypeCorrect == Spec => []TypeOK
  BY TypeInit, TypeStep, PTL DEF Spec

-----------------------------------------------------------------------------
(* The invariant.  Every step of one request q changes the columns of q    *)
(* only; what is left is which columns, and that they agree.  How many     *)
(* orders are left waiting is counted afterwards.                          *)

\* ApprovalsMatchOrders for one request.
Matches(q) ==
  /\ approval[q].status = "none" => order[q].status \notin {"awaiting_approval", "rejected"}
  /\ approval[q].status = "pending" => order[q].status = "awaiting_approval"
  /\ approval[q].status = "approved"
       => order[q].status \notin {"none", "awaiting_approval", "rejected"}
  /\ approval[q].status \in {"rejected", "expired"}
       => order[q].status \in {"rejected", "awaiting_approval"}

RequestInv(q) ==
  /\ Matches(q) /\ UnansweredHasNothing(q)
  /\ OrderWroteItsKey(q) /\ NothingPendingWhileSuspended(q)

\* AdmissionInv, but for the orders left waiting.
RequestsAgree == OneOrderPerIdempotencyKey /\ \A q \in Requests : RequestInv(q)
FewCutShort == Cardinality(CutShort) <= crashes

LEMMA InvParts == AdmissionInv <=> RequestsAgree /\ FewCutShort
  BY DEF AdmissionInv, ApprovalsMatchOrders, RequestInv, Matches, RequestsAgree, FewCutShort,
         CutShort

LEMMA InvByRequest ==
  /\ RequestsAgree => \A q \in Requests : RequestInv(q)
  /\ OneOrderPerIdempotencyKey' /\ (\A q \in Requests : RequestInv(q)') => RequestsAgree'
  BY DEF RequestsAgree

\* Nothing about request p changed but perhaps its key row, which auth read.
Untouched(p) ==
  /\ order'[p].status = order[p].status
  /\ approval'[p].status = approval[p].status
  /\ idem'[p] = idem[p]
  /\ req'[p].pc # "answered" => req[p].pc # "answered"

LEMMA UntouchedInv ==
  ASSUME NEW p \in Requests, RequestInv(p), Untouched(p),
         key'.suspended => key.suspended \/ p \notin Pending \/ p \in unreached',
         p \in unreached => p \in unreached' \/ p \notin Pending
  PROVE  RequestInv(p)'
  BY DEF RequestInv, Matches, UnansweredHasNothing, OrderWroteItsKey,
         NothingPendingWhileSuspended, Untouched, Exists, Pending

\* Idempotency: no order appears and no row is written.
LEMMA IdempotencyKept ==
  ASSUME OneOrderPerIdempotencyKey,
         \A p \in Requests : /\ Exists(p)' => Exists(p)
                             /\ idem[p] = "pruned" => idem'[p] = "pruned"
  PROVE  OneOrderPerIdempotencyKey'
  BY DEF OneOrderPerIdempotencyKey

LEMMA CreateInv ==
  ASSUME TypeOK, RequestsAgree, NEW q \in Requests, NEW xlm \in BOOLEAN, CreateOrder(q, xlm)
  PROVE  RequestsAgree'
<1> USE DEF TypeOK
<1>1. /\ order[q].status = "none" /\ approval[q].status = "none"
      /\ ~key.suspended /\ key' = key /\ unreached' = unreached
  BY DEF RequestsAgree, RequestInv, UnansweredHasNothing, CreateOrder, PolicyBlocks
<1>2. PICK s \in {"awaiting_approval", "delivered", "pending_payment"}, x \in BOOLEAN :
        /\ Insert(q, s, x)
        /\ \/ s = "awaiting_approval" /\ InsertAwaitingApproval(q)
           \/ s # "awaiting_approval" /\ UNCHANGED approval
  <2>1. CASE InsertAwaitingApproval(q)
    BY <2>1 DEF InsertAwaitingApproval
  <2>2. CASE Insert(q, "delivered", FALSE) /\ UNCHANGED approval
    BY <2>2
  <2>3. CASE Insert(q, "pending_payment", xlm) /\ UNCHANGED approval
    BY <2>3
  <2> QED
    BY <2>1, <2>2, <2>3 DEF CreateOrder
<1>3. /\ order'[q].status = s
      /\ idem'[q] = IF IdempotencyKey[q] = NoKey THEN idem[q] ELSE "cached"
      /\ req'[q].pc = "answered"
      /\ approval'[q].status = IF s = "awaiting_approval" THEN "pending" ELSE "none"
  BY <1>1, <1>2 DEF Insert, InsertAwaitingApproval, CreateOrder, Answer
<1>4. RequestInv(q)'
  BY <1>1, <1>3 DEF RequestInv, Matches, UnansweredHasNothing, OrderWroteItsKey,
                    NothingPendingWhileSuspended
<1>5. ASSUME NEW p \in Requests, p # q PROVE Untouched(p) /\ RequestInv(p)'
  <2>1. Untouched(p)
    BY <1>2, <1>5 DEF Insert, InsertAwaitingApproval, CreateOrder, Answer, Untouched
  <2> QED
    BY <1>1, <2>1, UntouchedInv, InvByRequest
<1>6. OneOrderPerIdempotencyKey'
  <2> SUFFICES ASSUME NEW p \in Requests, NEW r \in Requests, p # r, Exists(p)', Exists(r)',
                      IdempotencyKey[p] = IdempotencyKey[r], IdempotencyKey[p] # NoKey
               PROVE  idem'[p] = "pruned" \/ idem'[r] = "pruned"
    BY DEF OneOrderPerIdempotencyKey
  <2>1. ASSUME NEW o \in Requests, o # q, Exists(o)', IdempotencyKey[o] = IdempotencyKey[q],
               IdempotencyKey[o] # NoKey
        PROVE  idem'[o] = "pruned"
    <3>1. Exists(o) /\ idem'[o] = idem[o]
      BY <1>5, <2>1 DEF Untouched, Exists
    <3>2. idem[o] # "none" /\ idem[o] # "cached"
      BY <2>1, <3>1 DEF RequestsAgree, RequestInv, OrderWroteItsKey, CreateOrder, Cached
    <3> QED
      BY <3>1, <3>2
  <2>2. CASE p = q
    BY <2>1, <2>2
  <2>3. CASE r = q
    BY <2>1, <2>3
  <2>4. CASE p # q /\ r # q
    BY <1>5, <2>4 DEF RequestsAgree, OneOrderPerIdempotencyKey, Untouched, Exists
  <2> QED
    BY <2>2, <2>3, <2>4
<1> QED
  BY <1>4, <1>5, <1>6, InvByRequest

LEMMA RequestStepInv ==
  ASSUME TypeOK, RequestsAgree, NEW q \in Requests, RequestStep(q)
  PROVE  RequestsAgree'
<1>1. CASE Authenticate(q) \/ Refuse(q)
  <2>1. ASSUME NEW p \in Requests PROVE Untouched(p)
    BY <1>1, <2>1 DEF Authenticate, Refuse, Answer, Untouched, TypeOK, Requested
  <2>2. UNCHANGED <<key, unreached, order, approval, idem>>
    BY <1>1 DEF Authenticate, Refuse
  <2>3. OneOrderPerIdempotencyKey'
    BY <2>2, IdempotencyKept DEF RequestsAgree, Exists
  <2> QED
    BY <2>1, <2>2, <2>3, UntouchedInv, InvByRequest
<1> QED
  BY <1>1, CreateInv DEF RequestStep

\* Moving a payable or finished order leaves its approval right.
LEMMA MovedInv ==
  ASSUME RequestsAgree, TypeOK, NEW q \in Requests, NEW status, Moved(q, status),
         order[q].status \notin {"none", "awaiting_approval", "rejected"},
         status \notin {"none", "awaiting_approval", "rejected"},
         key'.suspended = key.suspended
  PROVE  RequestsAgree'
<1>1. /\ order'[q].status = status
      /\ \A p \in Requests : p # q => order'[p] = order[p]
      /\ UNCHANGED <<approval, idem, req, unreached>>
  BY DEF Moved, TypeOK
<1>2. ASSUME NEW p \in Requests PROVE RequestInv(p)'
  <2>1. RequestInv(p)
    BY InvByRequest
  <2>2. CASE p = q
    BY <1>1, <2>1, <2>2 DEF RequestInv, Matches, UnansweredHasNothing, OrderWroteItsKey,
                            NothingPendingWhileSuspended, Exists, Pending
  <2>3. CASE p # q
    BY <1>1, <2>1, <2>3, UntouchedInv DEF Untouched
  <2> QED
    BY <2>2, <2>3
<1>3. OneOrderPerIdempotencyKey'
  BY <1>1, IdempotencyKept DEF RequestsAgree, Exists
<1> QED
  BY <1>2, <1>3, InvByRequest

LEMMA OrderStepInv ==
  ASSUME TypeOK, RequestsAgree, NEW q \in Requests, OrderStep(q)
  PROVE  RequestsAgree'
<1>1. CASE Pay(q)
  BY <1>1, MovedInv DEF Pay
<1>2. CASE Deliver(q)
  <2>1. key'.suspended = key.suspended
    BY <1>2 DEF Deliver, Charged, TypeOK, Key
  <2> QED
    BY <1>2, <2>1, MovedInv DEF Deliver
<1>3. CASE Fail(q)
  BY <1>3, MovedInv DEF Fail
<1>4. CASE Refund(q)
  BY <1>4, MovedInv DEF Refund
<1>5. CASE ExpireStaleOrder(q)
  BY <1>5, MovedInv DEF ExpireStaleOrder
<1>6. CASE ApprovalTimesOut(q)
  <2>1. ASSUME NEW p \in Requests PROVE Untouched(p)
    BY <1>6 DEF ApprovalTimesOut, Untouched, TypeOK, Approval
  <2>2. OneOrderPerIdempotencyKey'
    BY <1>6, IdempotencyKept DEF ApprovalTimesOut, RequestsAgree, Exists
  <2> QED
    BY <1>6, <2>1, <2>2, UntouchedInv, InvByRequest DEF ApprovalTimesOut
<1>7. CASE PruneIdempotencyKey(q)
  <2>1. /\ UNCHANGED <<key, unreached, order, approval, req>> /\ idem[q] = "cached"
        /\ \A p \in Requests : idem'[p] = IF p = q THEN "pruned" ELSE idem[p]
    BY <1>7 DEF PruneIdempotencyKey, TypeOK
  <2>2. ASSUME NEW p \in Requests PROVE RequestInv(p)'
    BY <2>1, InvByRequest DEF RequestInv, Matches, UnansweredHasNothing, OrderWroteItsKey,
                              NothingPendingWhileSuspended, Exists, Pending
  <2>3. OneOrderPerIdempotencyKey'
    BY <2>1, IdempotencyKept DEF RequestsAgree, Exists
  <2> QED
    BY <2>2, <2>3, InvByRequest
<1> QED
  BY <1>1, <1>2, <1>3, <1>4, <1>5, <1>6, <1>7 DEF OrderStep

\* Closing pending approvals, whoever does it and however far it gets.
Closed(S, undone, verdict) ==
  \A q \in Requests :
    /\ approval'[q].status = IF q \in S THEN verdict ELSE approval[q].status
    /\ order'[q].status = IF q \in S \ undone THEN "rejected" ELSE order[q].status
    /\ req'[q].pc # "answered" => req[q].pc # "answered"

LEMMA ClosedInv ==
  ASSUME RequestsAgree, TypeOK, NEW S, NEW undone, NEW verdict \in {"rejected", "expired"},
         S \subseteq Pending, Closed(S, undone, verdict),
         UNCHANGED idem,
         \/ key' = key /\ unreached' = unreached
         \/ Pending \ S \subseteq unreached'
  PROVE  RequestsAgree'
<1>1. ASSUME NEW p \in Requests PROVE RequestInv(p)'
  <2>1. RequestInv(p)
    BY InvByRequest
  <2>2. CASE p \in S
    <3>1. approval[p].status = "pending" /\ approval'[p].status = verdict
      BY <2>2 DEF Pending, Closed
    <3>2. order[p].status = "awaiting_approval"
      BY <2>1, <3>1 DEF RequestInv, Matches
    <3>3. order'[p].status \in {"rejected", "awaiting_approval"}
      BY <3>2 DEF Closed
    <3>4. p \notin Pending'
      BY <3>1 DEF Pending
    <3>5. req[p].pc = "answered" /\ (req'[p].pc # "answered" => req[p].pc # "answered")
      BY <2>1, <3>1 DEF RequestInv, UnansweredHasNothing, Closed
    <3> QED
      BY <2>1, <3>1, <3>2, <3>3, <3>4, <3>5 DEF RequestInv, Matches, UnansweredHasNothing,
         OrderWroteItsKey, NothingPendingWhileSuspended, Exists
  <2>3. CASE p \notin S
    <3>1. Untouched(p)
      BY <2>3 DEF Untouched, Closed
    <3>2. (key' = key /\ unreached' = unreached) \/ p \notin Pending \/ p \in unreached'
      BY <2>3
    <3> QED
      BY <2>1, <3>1, <3>2, UntouchedInv
  <2> QED
    BY <2>2, <2>3
<1>2. ASSUME NEW p \in Requests PROVE Exists(p)' => Exists(p)
  <2>1. p \in S => order[p].status = "awaiting_approval"
    BY InvByRequest DEF RequestInv, Matches, Pending
  <2> QED
    BY <2>1 DEF Exists, Closed
<1>3. OneOrderPerIdempotencyKey'
  BY <1>2, IdempotencyKept DEF RequestsAgree
<1> QED
  BY <1>1, <1>3, InvByRequest

LEMMA CloseApprovalsInv ==
  ASSUME RequestsAgree, TypeOK, NEW S, NEW undone, NEW verdict \in {"rejected", "expired"},
         S \subseteq Pending, CloseApprovals(S, undone, verdict),
         \A q \in Requests : req'[q].pc # "answered" => req[q].pc # "answered",
         UNCHANGED <<key, unreached, idem>>
  PROVE  RequestsAgree'
<1>1. ASSUME NEW q \in Requests
      PROVE  /\ approval'[q].status = IF q \in S THEN verdict ELSE approval[q].status
             /\ order'[q].status = IF q \in S \ undone THEN "rejected" ELSE order[q].status
  <2>1. approval[q] \in Approval /\ order[q] \in Order
    BY DEF TypeOK
  <2>2. q \in S => order[q].status = "awaiting_approval"
    BY InvByRequest DEF RequestInv, Matches, Pending
  <2> QED
    BY <2>1, <2>2 DEF CloseApprovals, OrderRejected, Approval, Order
<1>2. Closed(S, undone, verdict)
  BY <1>1 DEF Closed
<1> QED
  BY <1>2, ClosedInv

LEMMA RejectAllInv ==
  ASSUME RequestsAgree, TypeOK, NEW S, NEW undone, S \subseteq Pending, RejectAll(S, undone),
         \A q \in Requests : req'[q].pc # "answered" => req[q].pc # "answered",
         UNCHANGED idem, Pending \ S \subseteq unreached'
  PROVE  RequestsAgree'
<1>1. ASSUME NEW q \in Requests
      PROVE  /\ approval'[q].status = IF q \in S THEN "rejected" ELSE approval[q].status
             /\ order'[q].status = IF q \in S \ undone THEN "rejected" ELSE order[q].status
  <2>1. approval[q] \in Approval /\ order[q] \in Order
    BY DEF TypeOK
  <2> QED
    BY <2>1 DEF RejectAll, Approval, Order
<1>2. Closed(S, undone, "rejected")
  BY <1>1 DEF Closed
<1> QED
  BY <1>2, ClosedInv

LEMMA DiesAnswers ==
  ASSUME TypeOK, Dies, NEW q \in Requests
  PROVE  req'[q].pc # "answered" => req[q].pc # "answered"
  BY DEF Dies, TypeOK

LEMMA InterruptedInv ==
  ASSUME TypeOK, RequestsAgree, InterruptedStep
  PROVE  RequestsAgree'
<1>1. ASSUME NEW q \in Requests, RejectInterrupted(q) PROVE RequestsAgree'
  BY <1>1, CloseApprovalsInv, DiesAnswers DEF RejectInterrupted
<1>2. CASE SuspendInterrupted
  <2>0. PICK S \in SUBSET Pending : \E undone : RejectAll(S, undone) /\ unreached' = Pending \ S
    BY <1>2 DEF SuspendInterrupted
  <2>1. PICK undone : RejectAll(S, undone) /\ unreached' = Pending \ S
    BY <2>0
  <2>2. \A q \in Requests : req'[q].pc # "answered" => req[q].pc # "answered"
    BY <1>2, DiesAnswers DEF SuspendInterrupted
  <2>3. UNCHANGED idem
    BY <1>2 DEF SuspendInterrupted
  <2> QED
    BY <2>1, <2>2, <2>3, RejectAllInv
<1>3. CASE ExpireInterrupted
  <2>0. PICK S \in SUBSET Overdue : \E undone : CloseApprovals(S, undone, "expired")
    BY <1>3 DEF ExpireInterrupted
  <2>1. PICK undone : CloseApprovals(S, undone, "expired")
    BY <2>0
  <2>2. S \subseteq Pending
    BY DEF Overdue
  <2>3. \A q \in Requests : req'[q].pc # "answered" => req[q].pc # "answered"
    BY <1>3, DiesAnswers DEF ExpireInterrupted
  <2>4. UNCHANGED <<key, unreached, idem>>
    BY <1>3 DEF ExpireInterrupted
  <2> QED
    BY <2>1, <2>2, <2>3, <2>4, CloseApprovalsInv
<1> QED
  BY <1>1, <1>2, <1>3 DEF InterruptedStep

LEMMA ApproveInv ==
  ASSUME TypeOK, RequestsAgree, NEW q \in Requests, NEW xlm \in BOOLEAN,
         ApproveCommitted(q, xlm)
  PROVE  RequestsAgree'
<1>1. UNCHANGED <<account, restarts, idem, req>>
  BY DEF ApproveCommitted
<1>2. CASE StillApprovable(q)
  <2>1. /\ approval'[q].status = "approved" /\ order'[q].status = "pending_payment"
        /\ order[q].status = "awaiting_approval"
        /\ \A p \in Requests : p # q => approval'[p] = approval[p] /\ order'[p] = order[p]
    BY <1>2 DEF ApproveCommitted, StillApprovable, TypeOK, Approval, Order
  <2>2. ASSUME NEW p \in Requests PROVE RequestInv(p)'
    <3>1. RequestInv(p)
      BY InvByRequest
    <3>2. CASE p = q
      BY <1>1, <2>1, <3>1, <3>2 DEF RequestInv, Matches, UnansweredHasNothing,
                                    OrderWroteItsKey, NothingPendingWhileSuspended, Exists, Pending
    <3>3. CASE p # q
      BY <1>1, <2>1, <3>1, <3>3, UntouchedInv DEF Untouched
    <3> QED
      BY <3>2, <3>3
  <2>3. OneOrderPerIdempotencyKey'
    BY <1>1, <2>1, IdempotencyKept DEF RequestsAgree, Exists
  <2> QED
    BY <2>2, <2>3, InvByRequest
<1>3. CASE ~StillApprovable(q)
  <2>1. UNCHANGED <<approval, order>>
    BY <1>3 DEF ApproveCommitted
  <2>2. ASSUME NEW p \in Requests PROVE RequestInv(p)'
    BY <1>1, <2>1, InvByRequest, UntouchedInv DEF Untouched
  <2>3. OneOrderPerIdempotencyKey'
    BY <1>1, <2>1, IdempotencyKept DEF RequestsAgree, Exists
  <2> QED
    BY <2>2, <2>3, InvByRequest
<1> QED
  BY <1>2, <1>3

\* Steps that leave all of it alone, the suspension included.
LEMMA NothingMovedInv ==
  ASSUME RequestsAgree, UNCHANGED <<idem, req, approval, unreached>>,
         \A q \in Requests : order'[q].status = order[q].status,
         key'.suspended => key.suspended
  PROVE  RequestsAgree'
<1>1. ASSUME NEW p \in Requests PROVE RequestInv(p)'
  BY InvByRequest, UntouchedInv DEF Untouched
<1>2. OneOrderPerIdempotencyKey'
  BY IdempotencyKept DEF RequestsAgree, Exists
<1> QED
  BY <1>1, <1>2, InvByRequest

LEMMA OwnerStepInv ==
  ASSUME TypeOK, RequestsAgree, OwnerStep
  PROVE  RequestsAgree'
<1>1. ASSUME NEW q \in Requests, ApproveClicked(q) PROVE RequestsAgree'
  BY <1>1, NothingMovedInv DEF ApproveClicked
<1>2. ASSUME NEW q \in Requests, Reject(q) PROVE RequestsAgree'
  BY <1>2, CloseApprovalsInv DEF Reject
<1>3. ASSUME NEW q \in Requests, NEW xlm \in BOOLEAN, ApproveCommitted(q, xlm)
      PROVE  RequestsAgree'
  BY <1>3, ApproveInv
<1>4. CASE Suspend
  BY <1>4, RejectAllInv DEF Suspend
<1>5. CASE Unsuspend \/ UpdateKey \/ DeleteKey
  <2>1. UNCHANGED <<order, idem, req, approval, unreached>>
    BY <1>5 DEF Unsuspend, UpdateKey, DeleteKey
  <2>2. key'.suspended => key.suspended
    BY <1>5 DEF Unsuspend, UpdateKey, DeleteKey, TypeOK, Key
  <2> QED
    BY <2>1, <2>2, NothingMovedInv
<1> QED
  BY <1>1, <1>2, <1>3, <1>4, <1>5 DEF OwnerStep

LEMMA AgreeStep == TypeOK /\ RequestsAgree /\ [Next]_vars => RequestsAgree'
<1> SUFFICES ASSUME TypeOK, RequestsAgree, [Next]_vars PROVE RequestsAgree'
  OBVIOUS
<1>1. CASE ExpireApprovalRequests
  <2>1. Overdue \subseteq Pending
    BY DEF Overdue
  <2> QED
    BY <1>1, <2>1, CloseApprovalsInv DEF ExpireApprovalRequests
<1>2. CASE NewDay
  BY <1>2, NothingMovedInv DEF NewDay, TypeOK, Order
<1>3. CASE UNCHANGED vars
  BY <1>3, NothingMovedInv DEF vars
<1> QED
  BY <1>1, <1>2, <1>3, RequestStepInv, OrderStepInv, OwnerStepInv, InterruptedInv DEF Next

-----------------------------------------------------------------------------
(* Orders left waiting: only a death between two UPDATEs adds one.         *)

\* The order of p was not left waiting by this step.
NotLeft(p) == p \in CutShort' => p \in CutShort

LEMMA MovedNotLeft ==
  ASSUME TypeOK, NEW q, NEW status, Moved(q, status), status # "awaiting_approval",
         NEW p \in Requests
  PROVE  NotLeft(p)
  BY DEF Moved, NotLeft, CutShort, TypeOK, Order

LEMMA CloseLeaves ==
  ASSUME TypeOK, RequestsAgree, NEW S, NEW undone, NEW verdict \in {"rejected", "expired"},
         S \subseteq Pending,
         CloseApprovals(S, undone, verdict) \/ RejectAll(S, undone), NEW p \in Requests
  PROVE  NotLeft(p) \/ p \in undone
<1>1. approval[p] \in Approval /\ order[p] \in Order
  BY DEF TypeOK
<1>2. CASE p \in S /\ p \notin undone
  <2>1. order[p].status = "awaiting_approval"
    BY <1>2, InvByRequest DEF RequestInv, Matches, Pending
  <2>2. order'[p].status = "rejected"
    BY <1>1, <1>2, <2>1 DEF CloseApprovals, RejectAll, OrderRejected, TypeOK, Order
  <2> QED
    BY <2>2 DEF NotLeft, CutShort
<1>3. CASE p \notin S
  <2>1. order'[p] = order[p] /\ approval'[p] = approval[p]
    BY <1>3 DEF CloseApprovals, RejectAll
  <2> QED
    BY <2>1 DEF NotLeft, CutShort
<1> QED
  BY <1>2, <1>3

LEMMA CompleteLeavesNone ==
  ASSUME TypeOK, RequestsAgree, [Next]_vars, ~InterruptedStep, NEW p \in Requests
  PROVE  NotLeft(p)
<1>1. ASSUME NEW q \in Requests, RequestStep(q) PROVE NotLeft(p)
  <2>1. CASE Authenticate(q) \/ Refuse(q)
    BY <2>1 DEF Authenticate, Refuse, NotLeft, CutShort
  <2>2. ASSUME NEW xlm \in BOOLEAN, CreateOrder(q, xlm) PROVE NotLeft(p)
    <3>1. CASE p # q
      BY <2>2, <3>1 DEF CreateOrder, Insert, InsertAwaitingApproval, NotLeft, CutShort, TypeOK
    <3>2. CASE p = q /\ InsertAwaitingApproval(q)
      BY <3>2 DEF InsertAwaitingApproval, NotLeft, CutShort, TypeOK
    <3>3. CASE /\ p = q
               /\ Insert(q, "delivered", FALSE) \/ Insert(q, "pending_payment", xlm)
      BY <3>3 DEF Insert, NotLeft, CutShort, TypeOK
    <3> QED
      BY <2>2, <3>1, <3>2, <3>3 DEF CreateOrder
  <2> QED
    BY <1>1, <2>1, <2>2 DEF RequestStep
<1>2. ASSUME NEW q \in Requests, OrderStep(q) PROVE NotLeft(p)
  <2>1. CASE Pay(q) \/ Deliver(q) \/ Fail(q) \/ Refund(q) \/ ExpireStaleOrder(q)
    BY <2>1, MovedNotLeft DEF Pay, Deliver, Fail, Refund, ExpireStaleOrder
  <2>2. CASE ApprovalTimesOut(q)
    BY <2>2 DEF ApprovalTimesOut, NotLeft, CutShort, TypeOK, Approval
  <2>3. CASE PruneIdempotencyKey(q)
    BY <2>3 DEF PruneIdempotencyKey, NotLeft, CutShort
  <2> QED
    BY <1>2, <2>1, <2>2, <2>3 DEF OrderStep
<1>3. ASSUME NEW q \in Requests, NEW xlm \in BOOLEAN, ApproveCommitted(q, xlm)
      PROVE  NotLeft(p)
  <2>1. CASE ~StillApprovable(q)
    BY <1>3, <2>1 DEF ApproveCommitted, NotLeft, CutShort
  <2>2. CASE StillApprovable(q)
    <3>1. CASE p = q
      <4>1. order'[p].status = "pending_payment"
        BY <1>3, <2>2, <3>1 DEF ApproveCommitted, TypeOK, Order
      <4> QED
        BY <4>1 DEF NotLeft, CutShort
    <3>2. CASE p # q
      BY <1>3, <2>2, <3>2 DEF ApproveCommitted, NotLeft, CutShort, TypeOK
    <3> QED
      BY <3>1, <3>2
  <2> QED
    BY <2>1, <2>2
<1>4. ASSUME NEW q \in Requests, ApproveClicked(q) PROVE NotLeft(p)
  BY <1>4 DEF ApproveClicked, NotLeft, CutShort
<1>5. ASSUME NEW q \in Requests, Reject(q) PROVE NotLeft(p)
  BY <1>5, CloseLeaves DEF Reject
<1>6. CASE Suspend
  BY <1>6, CloseLeaves DEF Suspend
<1>7. CASE ExpireApprovalRequests
  <2>1. Overdue \subseteq Pending
    BY DEF Overdue
  <2> QED
    BY <1>7, <2>1, CloseLeaves DEF ExpireApprovalRequests
<1>8. CASE Unsuspend \/ UpdateKey \/ DeleteKey
  BY <1>8 DEF Unsuspend, UpdateKey, DeleteKey, NotLeft, CutShort
<1>9. CASE NewDay
  BY <1>9 DEF NewDay, NotLeft, CutShort, TypeOK, Order
<1>10. CASE UNCHANGED vars
  BY <1>10 DEF vars, NotLeft, CutShort
<1> QED
  BY <1>1, <1>2, <1>3, <1>4, <1>5, <1>6, <1>7, <1>8, <1>9, <1>10 DEF Next, OwnerStep

LEMMA CompleteCountsNone ==
  ASSUME [Next]_vars, ~InterruptedStep PROVE crashes' = crashes
<1>1. ASSUME NEW q \in Requests, RequestStep(q) PROVE crashes' = crashes
  BY <1>1 DEF RequestStep, Authenticate, Refuse, CreateOrder
<1>2. ASSUME NEW q \in Requests, OrderStep(q) PROVE crashes' = crashes
  BY <1>2 DEF OrderStep, Pay, Deliver, Fail, Refund, ExpireStaleOrder, Moved,
              ApprovalTimesOut, PruneIdempotencyKey
<1>3. CASE OwnerStep
  BY <1>3 DEF OwnerStep, ApproveClicked, Reject, ApproveCommitted, Suspend, Unsuspend,
              UpdateKey, DeleteKey
<1> QED
  BY <1>1, <1>2, <1>3 DEF Next, ExpireApprovalRequests, NewDay, vars

LEMMA InterruptedLeavesOne ==
  ASSUME TypeOK, RequestsAgree, InterruptedStep
  PROVE  crashes' = crashes + 1 /\ \E h : CutShort' \subseteq CutShort \cup {h}
<1>1. ASSUME NEW S, S \subseteq Pending, NEW undone \in AtMostOne(S),
             NEW verdict \in {"rejected", "expired"},
             CloseApprovals(S, undone, verdict) \/ RejectAll(S, undone)
      PROVE  \E h : CutShort' \subseteq CutShort \cup {h}
  <2>1. PICK h : undone \subseteq {h}
    BY DEF AtMostOne
  <2>2. \A p \in Requests : NotLeft(p) \/ p \in undone
    BY <1>1, CloseLeaves
  <2> QED
    BY <2>1, <2>2 DEF NotLeft, CutShort
<1>2. ASSUME NEW q \in Requests, RejectInterrupted(q)
      PROVE  Dies /\ \E h : CutShort' \subseteq CutShort \cup {h}
  <2>1. {q} \subseteq Pending /\ {q} \in AtMostOne({q})
    BY <1>2 DEF RejectInterrupted, AtMostOne
  <2> QED
    BY <1>1, <1>2, <2>1 DEF RejectInterrupted
<1>3. ASSUME SuspendInterrupted PROVE Dies /\ \E h : CutShort' \subseteq CutShort \cup {h}
  BY <1>1, <1>3 DEF SuspendInterrupted
<1>4. ASSUME ExpireInterrupted PROVE Dies /\ \E h : CutShort' \subseteq CutShort \cup {h}
  <2>1. \A S \in SUBSET Overdue : S \subseteq Pending
    BY DEF Overdue
  <2> QED
    BY <1>1, <1>4, <2>1 DEF ExpireInterrupted
<1> QED
  BY <1>2, <1>3, <1>4 DEF InterruptedStep, Dies

LEMMA FewStep == TypeOK /\ RequestsAgree /\ FewCutShort /\ [Next]_vars => FewCutShort'
<1> SUFFICES ASSUME TypeOK, RequestsAgree, FewCutShort, [Next]_vars PROVE FewCutShort'
  OBVIOUS
<1>1. IsFiniteSet(CutShort) /\ IsFiniteSet(CutShort')
  BY RequestsAreFinite, FS_Subset DEF CutShort
<1>2. Cardinality(CutShort) \in Nat /\ Cardinality(CutShort') \in Nat
  BY <1>1, FS_CardinalityType
<1>3. CASE InterruptedStep
  <2>1. PICK h : CutShort' \subseteq CutShort \cup {h}
    BY <1>3, InterruptedLeavesOne
  <2>2. /\ IsFiniteSet(CutShort \cup {h})
        /\ \/ Cardinality(CutShort \cup {h}) = Cardinality(CutShort)
           \/ Cardinality(CutShort \cup {h}) = Cardinality(CutShort) + 1
    BY <1>1, FS_AddElement
  <2>3. Cardinality(CutShort') <= Cardinality(CutShort \cup {h})
    BY <2>1, <2>2, FS_Subset
  <2>4. Cardinality(CutShort)' = Cardinality(CutShort')
    OBVIOUS
  <2>5. crashes' = crashes + 1 /\ crashes \in Nat /\ Cardinality(CutShort) <= crashes
    BY <1>3, InterruptedLeavesOne DEF TypeOK, FewCutShort
  <2>6. Cardinality(CutShort') <= crashes'
    BY <1>2, <2>2, <2>3, <2>5
  <2> QED
    BY <2>6 DEF FewCutShort
<1>4. CASE ~InterruptedStep
  <2>1. CutShort' \subseteq CutShort
    BY <1>4, CompleteLeavesNone DEF NotLeft, CutShort
  <2>2. Cardinality(CutShort') <= Cardinality(CutShort)
    BY <1>1, <2>1, FS_Subset
  <2>3. crashes' = crashes /\ crashes \in Nat /\ Cardinality(CutShort) <= crashes
    BY <1>4, CompleteCountsNone DEF TypeOK, FewCutShort
  <2>4. Cardinality(CutShort') <= crashes'
    BY <1>2, <2>2, <2>3
  <2> QED
    BY <2>4 DEF FewCutShort
<1> QED
  BY <1>3, <1>4

LEMMA InvInit == Init => AdmissionInv
<1> SUFFICES ASSUME Init PROVE AdmissionInv
  OBVIOUS
<1>1. key.suspended = FALSE
  BY DEF Init
<1>2. \A q \in Requests : order[q].status = "none" /\ approval[q].status = "none"
  BY DEF Init, NoOrder, NoApproval
<1>3. RequestsAgree
  BY <1>1, <1>2 DEF Init, RequestsAgree, RequestInv, Matches, OneOrderPerIdempotencyKey,
     UnansweredHasNothing, OrderWroteItsKey, NothingPendingWhileSuspended, Exists
<1>4. CutShort = {} /\ crashes = 0
  BY <1>2 DEF CutShort, Init
<1>5. FewCutShort
  BY <1>4, FS_EmptySet DEF FewCutShort
<1> QED
  BY <1>3, <1>5, InvParts

LEMMA InvStep == TypeOK /\ AdmissionInv /\ [Next]_vars => AdmissionInv'
<1>1. AdmissionInv' <=> RequestsAgree' /\ FewCutShort'
  BY InvParts, PTL
<1> QED
  BY <1>1, InvParts, AgreeStep, FewStep

\* The approval of an order and the order agree but for what a restart cut short, an
\* idempotency key makes one order, and a suspended key has nothing pending that its
\* suspension reached: in every reachable state.
THEOREM AdmissionInvariant == Spec => []AdmissionInv
  BY TypeInit, TypeStep, InvInit, InvStep, PTL DEF Spec

\* Approval and order disagree only if a restart fell between their two UPDATEs
\* (dashboard.js 844-855).
THEOREM ApprovalsAgree == Spec => []ApprovalsMatchOrders
<1>1. AdmissionInv => ApprovalsMatchOrders
  BY DEF AdmissionInv
<1> QED
  BY <1>1, AdmissionInvariant, PTL

\* Retries with one Idempotency-Key make one order (orders.js 441-444).
THEOREM OneOrderPerKey == Spec => []OneOrderPerIdempotencyKey
<1>1. AdmissionInv => OneOrderPerIdempotencyKey
  BY DEF AdmissionInv
<1> QED
  BY <1>1, AdmissionInvariant, PTL

-----------------------------------------------------------------------------
(* What a step may do to the status of one order.                          *)

\* Closed approvals only reject, and only what waits for the owner.
LEMMA CloseMoves ==
  ASSUME TypeOK, NEW S, NEW undone, NEW verdict, CloseApprovals(S, undone, verdict),
         NEW p \in Requests
  PROVE  \/ order'[p].status = order[p].status
         \/ order[p].status = "awaiting_approval" /\ order'[p].status = "rejected"
  BY DEF CloseApprovals, OrderRejected, TypeOK, Order

\* The orders of pending approvals wait for the owner.
LEMMA RejectAllMoves ==
  ASSUME TypeOK, AdmissionInv, NEW S, NEW undone, S \subseteq Pending, RejectAll(S, undone),
         NEW p \in Requests
  PROVE  \/ order'[p].status = order[p].status
         \/ order[p].status = "awaiting_approval" /\ order'[p].status = "rejected"
<1>1. p \in S => order[p].status = "awaiting_approval"
  BY DEF AdmissionInv, ApprovalsMatchOrders, Pending
<1> QED
  BY <1>1 DEF RejectAll, TypeOK, Order

LEMMA MovedMoves ==
  ASSUME TypeOK, NEW q, NEW status, Moved(q, status), NEW p \in Requests
  PROVE  \/ order'[p].status = order[p].status
         \/ p = q /\ order'[p].status = status
  BY DEF Moved, TypeOK, Order

StatusMoves(p) ==
  \/ order'[p].status = order[p].status
  \/ order[p].status = "none" /\ ~key.suspended
  \/ order[p].status = "awaiting_approval" /\ approval[p].status = "pending"
       /\ order'[p].status = "pending_payment"
  \/ order[p].status = "awaiting_approval" /\ order'[p].status = "rejected"
  \/ order[p].status \notin {"none", "awaiting_approval", "rejected", "expired"}
       /\ order'[p].status \notin {"awaiting_approval", "pending_payment"}

LEMMA StepMoves ==
  ASSUME TypeOK, AdmissionInv, [Next]_vars, NEW p \in Requests
  PROVE  StatusMoves(p)
<1> USE DEF StatusMoves
<1>1. ASSUME NEW q \in Requests, RequestStep(q) PROVE StatusMoves(p)
  <2>1. CASE Authenticate(q) \/ Refuse(q)
    BY <2>1 DEF Authenticate, Refuse
  <2>2. ASSUME NEW xlm \in BOOLEAN, CreateOrder(q, xlm) PROVE StatusMoves(p)
    <3>1. order[q].status = "none" /\ ~key.suspended
      BY <2>2 DEF CreateOrder, PolicyBlocks, AdmissionInv, UnansweredHasNothing
    <3>2. p # q => order'[p].status = order[p].status
      BY <2>2 DEF CreateOrder, Insert, InsertAwaitingApproval, TypeOK
    <3> QED
      BY <3>1, <3>2
  <2> QED
    BY <1>1, <2>1, <2>2 DEF RequestStep
<1>2. ASSUME NEW q \in Requests, OrderStep(q) PROVE StatusMoves(p)
  <2>1. CASE Pay(q) \/ Deliver(q) \/ Fail(q) \/ Refund(q) \/ ExpireStaleOrder(q)
    BY <2>1, MovedMoves DEF Pay, Deliver, Fail, Refund, ExpireStaleOrder
  <2>2. CASE ApprovalTimesOut(q) \/ PruneIdempotencyKey(q)
    BY <2>2 DEF ApprovalTimesOut, PruneIdempotencyKey
  <2> QED
    BY <1>2, <2>1, <2>2 DEF OrderStep
<1>3. ASSUME NEW q \in Requests, NEW xlm \in BOOLEAN, ApproveCommitted(q, xlm)
      PROVE  StatusMoves(p)
  BY <1>3 DEF ApproveCommitted, StillApprovable, TypeOK, Order
<1>4. CASE Suspend
  BY <1>4, RejectAllMoves DEF Suspend
<1>5. CASE Unsuspend \/ UpdateKey \/ DeleteKey
  BY <1>5 DEF Unsuspend, UpdateKey, DeleteKey
<1>6. CASE ExpireApprovalRequests
  BY <1>6, CloseMoves DEF ExpireApprovalRequests
<1>7. CASE NewDay
  BY <1>7 DEF NewDay, TypeOK, Order
<1>8. CASE UNCHANGED vars
  BY <1>8 DEF vars
<1>9. ASSUME NEW q \in Requests, ApproveClicked(q) \/ Reject(q) PROVE StatusMoves(p)
  BY <1>9, CloseMoves DEF ApproveClicked, Reject
<1>10. CASE InterruptedStep
  <2>1. ASSUME NEW q \in Requests, RejectInterrupted(q) PROVE StatusMoves(p)
    BY <2>1, CloseMoves DEF RejectInterrupted
  <2>2. CASE SuspendInterrupted
    BY <2>2, RejectAllMoves DEF SuspendInterrupted
  <2>3. CASE ExpireInterrupted
    BY <2>3, CloseMoves DEF ExpireInterrupted
  <2> QED
    BY <1>10, <2>1, <2>2, <2>3 DEF InterruptedStep
<1> QED
  BY <1>1, <1>2, <1>3, <1>4, <1>5, <1>6, <1>7, <1>8, <1>9, <1>10 DEF Next, OwnerStep

\* The kill switch (README.md 9): a suspended key gets no order, whatever was
\* under way when it was suspended, but for approvals the suspension did not reach.
THEOREM KillSwitch == Spec => SuspendedKeyGetsNothing
<1>1. TypeOK /\ AdmissionInv /\ [Next]_vars
        => [key.suspended => \A q \in Requests \ unreached :
              order'[q].status \in {"awaiting_approval", "pending_payment"}
                => order'[q].status = order[q].status]_vars
  BY StepMoves DEF StatusMoves, AdmissionInv, NothingPendingWhileSuspended, Pending
<1> QED
  BY <1>1, TypeCorrect, AdmissionInvariant, PTL DEF Spec, SuspendedKeyGetsNothing

\* A rejected or expired order is never revived (dashboard.js 842-851).
THEOREM RejectedForGood == Spec => RejectionIsFinal
<1>1. TypeOK /\ AdmissionInv /\ [Next]_vars
        => [\A q \in Requests : order[q].status \in {"rejected", "expired"}
              => order'[q].status = order[q].status]_vars
  BY StepMoves DEF StatusMoves
<1> QED
  BY <1>1, TypeCorrect, AdmissionInvariant, PTL DEF Spec, RejectionIsFinal

-----------------------------------------------------------------------------
(* Sums of amounts.                                                        *)

\* The units of money of one order, and of the orders in S: Total counts them.
UnitsOf(q) == {q} \X (1..Amount[q])
Units(S) == UNION {{q} \X (1..Amount[q]) : q \in S}

LEMMA UnitsOfFinite ==
  ASSUME NEW q \in Requests
  PROVE  IsFiniteSet(UnitsOf(q)) /\ Cardinality(UnitsOf(q)) = Amount[q]
<1>1. Amount[q] \in Nat /\ Amount[q] > 0
  OBVIOUS
<1>2. IsFiniteSet(1..Amount[q]) /\ Cardinality(1..Amount[q]) = Amount[q]
  BY <1>1, FS_Interval
<1>3. IsFiniteSet({q}) /\ Cardinality({q}) = 1
  BY FS_Singleton
<1>4. /\ IsFiniteSet({q} \X (1..Amount[q]))
      /\ Cardinality({q} \X (1..Amount[q])) = Cardinality({q}) * Cardinality(1..Amount[q])
  BY <1>2, <1>3, FS_Product
<1> QED
  BY <1>1, <1>2, <1>3, <1>4 DEF UnitsOf

LEMMA UnitsFinite ==
  ASSUME NEW S \in SUBSET Requests
  PROVE  IsFiniteSet(Units(S)) /\ Total(S) = Cardinality(Units(S)) /\ Total(S) \in Nat
<1> DEFINE T == {UnitsOf(q) : q \in S}
           f == [q \in S |-> UnitsOf(q)]
<1>1. IsFiniteSet(S)
  BY RequestsAreFinite, FS_Subset
<1>2. f \in Surjection(S, T)
  BY DEF Surjection
<1>3. IsFiniteSet(T)
  BY <1>1, <1>2, FS_Surjection
<1>4. \A U \in T : IsFiniteSet(U)
  BY UnitsOfFinite
<1>5. IsFiniteSet(UNION T)
  BY <1>3, <1>4, FS_UNION
<1>6. UNION T = Units(S)
  BY DEF Units, UnitsOf
<1> QED
  BY <1>5, <1>6, FS_CardinalityType DEF Total, Units

\* One more order adds its amount.
LEMMA TotalAdd ==
  ASSUME NEW S \in SUBSET Requests, NEW q \in Requests, q \notin S
  PROVE  Total(S \cup {q}) = Total(S) + Amount[q]
<1>1. Units(S \cup {q}) = Units(S) \cup UnitsOf(q) /\ Units(S) \cap UnitsOf(q) = {}
  BY DEF Units, UnitsOf
<1>2. IsFiniteSet(Units(S)) /\ Total(S) = Cardinality(Units(S)) /\ Total(S) \in Nat
  BY UnitsFinite
<1>3. IsFiniteSet(UnitsOf(q)) /\ Cardinality(UnitsOf(q)) = Amount[q]
  BY UnitsOfFinite
<1>4. S \cup {q} \in SUBSET Requests
  OBVIOUS
<1>5. Total(S \cup {q}) = Cardinality(Units(S \cup {q}))
  BY <1>4, UnitsFinite
<1>6. Cardinality(Units(S) \cup UnitsOf(q))
        = Cardinality(Units(S)) + Cardinality(UnitsOf(q)) - Cardinality(Units(S) \cap UnitsOf(q))
  BY <1>2, <1>3, FS_Union
<1>7. Cardinality(Units(S) \cap UnitsOf(q)) = 0
  BY <1>1, FS_EmptySet
<1>8. Amount[q] \in Nat
  OBVIOUS
<1>9. Total(S \cup {q})
        = Cardinality(Units(S)) + Cardinality(UnitsOf(q)) - Cardinality(Units(S) \cap UnitsOf(q))
  BY <1>1, <1>5, <1>6
<1>10. Total(S \cup {q}) = Total(S) + Amount[q] - 0
  BY <1>2, <1>3, <1>7, <1>9
<1> QED
  BY <1>2, <1>8, <1>10

\* Fewer orders do not cost more.
LEMMA TotalMonotone ==
  ASSUME NEW T \in SUBSET Requests, NEW S \in SUBSET T
  PROVE  Total(S) <= Total(T)
<1>1. Units(S) \in SUBSET Units(T)
  BY DEF Units
<1>2. IsFiniteSet(Units(T)) /\ Total(T) = Cardinality(Units(T))
  BY UnitsFinite
<1>3. Total(S) = Cardinality(Units(S))
  BY UnitsFinite
<1> QED
  BY <1>1, <1>2, <1>3, FS_Subset

LEMMA TotalAddsAtMost ==
  ASSUME NEW S \in SUBSET Requests, NEW q \in Requests, NEW T \in SUBSET (S \cup {q})
  PROVE  Total(T) <= Total(S) + Amount[q] /\ Total(T) \in Nat
<1>1. S \cup {q} \in SUBSET Requests /\ T \in SUBSET Requests
  OBVIOUS
<1>2. Total(T) <= Total(S \cup {q}) /\ Total(T) \in Nat /\ Total(S) \in Nat /\ Amount[q] \in Nat
  BY <1>1, TotalMonotone, UnitsFinite
<1>3. Total(S \cup {q}) = Total(S) + Amount[q] \/ Total(S \cup {q}) = Total(S)
  <2>1. CASE q \in S
    <3>1. S \cup {q} = S
      BY <2>1
    <3> QED
      BY <3>1
  <2> QED
    BY <2>1, TotalAdd
<1> QED
  BY <1>2, <1>3

-----------------------------------------------------------------------------
(* The daily limit.                                                        *)

\* The orders SpentToday adds up.
OfToday == {q \in Requests :
  order[q].created_today /\ order[q].status \notin {"none", "expired", "rejected"}}

LEMMA SpentTodayIs == SpentToday = Total(OfToday) /\ SpentToday' = Total(OfToday')
  BY DEF SpentToday, OfToday, Total

\* A step that makes no order adds nothing to today.
NoneMade(p) ==
  /\ order[p].status = "none" => order'[p].status = "none"
  /\ order'[p].created_today => order[p].created_today
  /\ order[p].status \in {"none", "expired", "rejected"}
       => order'[p].status \in {"none", "expired", "rejected"}

LEMMA CreateMakes ==
  ASSUME TypeOK, AdmissionInv, NEW q \in Requests, NEW xlm \in BOOLEAN, CreateOrder(q, xlm)
  PROVE  /\ order[q].status = "none"
         /\ WithinSpendLimit(req[q].key, Amount[q]) /\ ~PolicyBlocks(q)
         /\ key' = key
         /\ \A p \in Requests : p # q => order'[p] = order[p]
<1>1. order[q].status = "none"
  BY DEF AdmissionInv, UnansweredHasNothing, CreateOrder
<1>2. \A p \in Requests : p # q => order'[p] = order[p]
  BY DEF CreateOrder, Insert, InsertAwaitingApproval, TypeOK
<1> QED
  BY <1>1, <1>2 DEF CreateOrder

LEMMA OthersMakeNone ==
  ASSUME TypeOK, AdmissionInv, [Next]_vars, NEW p \in Requests,
         \A q \in Requests, xlm \in BOOLEAN : ~CreateOrder(q, xlm)
  PROVE  NoneMade(p)
<1> USE DEF NoneMade
<1>1. ASSUME NEW q \in Requests, RequestStep(q) PROVE NoneMade(p)
  BY <1>1 DEF RequestStep, Authenticate, Refuse
<1>2. ASSUME NEW q \in Requests, NEW status, Moved(q, status),
             order[q].status \notin {"none", "expired", "rejected"}
      PROVE  NoneMade(p)
  BY <1>2 DEF Moved, TypeOK, Order
<1>3. ASSUME NEW q \in Requests, OrderStep(q) PROVE NoneMade(p)
  <2>1. CASE Pay(q) \/ Deliver(q) \/ Fail(q) \/ Refund(q) \/ ExpireStaleOrder(q)
    BY <2>1, <1>2 DEF Pay, Deliver, Fail, Refund, ExpireStaleOrder
  <2>2. CASE ApprovalTimesOut(q) \/ PruneIdempotencyKey(q)
    BY <2>2 DEF ApprovalTimesOut, PruneIdempotencyKey
  <2> QED
    BY <1>3, <2>1, <2>2 DEF OrderStep
<1>4. ASSUME NEW S, NEW undone, NEW verdict, CloseApprovals(S, undone, verdict)
      PROVE  NoneMade(p)
  BY <1>4 DEF CloseApprovals, OrderRejected, TypeOK, Order
<1>5. ASSUME NEW q \in Requests, ApproveClicked(q) \/ Reject(q) PROVE NoneMade(p)
  BY <1>4, <1>5 DEF ApproveClicked, Reject
<1>6. ASSUME NEW q \in Requests, NEW xlm \in BOOLEAN, ApproveCommitted(q, xlm)
      PROVE  NoneMade(p)
  BY <1>6 DEF ApproveCommitted, StillApprovable, TypeOK, Order
<1>7. ASSUME NEW S, NEW undone, S \subseteq Pending, RejectAll(S, undone) PROVE NoneMade(p)
  <2>1. p \in S => order[p].status = "awaiting_approval"
    BY <1>7 DEF AdmissionInv, ApprovalsMatchOrders, Pending
  <2> QED
    BY <1>7, <2>1 DEF RejectAll, TypeOK, Order
<1>8. CASE Unsuspend \/ UpdateKey \/ DeleteKey
  BY <1>8 DEF Unsuspend, UpdateKey, DeleteKey
<1>9. CASE ExpireApprovalRequests
  BY <1>4, <1>9 DEF ExpireApprovalRequests
<1>10. CASE NewDay
  BY <1>10 DEF NewDay, TypeOK, Order
<1>11. CASE UNCHANGED vars
  BY <1>11 DEF vars
<1>12. CASE Suspend \/ SuspendInterrupted
  BY <1>7, <1>12 DEF Suspend, SuspendInterrupted
<1>13. CASE ExpireInterrupted \/ \E q \in Requests : RejectInterrupted(q)
  BY <1>4, <1>13 DEF ExpireInterrupted, RejectInterrupted
<1> QED
  BY <1>1, <1>3, <1>5, <1>6, <1>8, <1>9, <1>10, <1>11, <1>12, <1>13
     DEF Next, OwnerStep, InterruptedStep

\* The limit in force counts for today, and today's limit only rises, until midnight.
LimitCounts == policy.daily_limit <= dayLimit

LEMMA DailyInit == Init => DailyLimitKept /\ LimitCounts
<1> SUFFICES ASSUME Init PROVE DailyLimitKept /\ LimitCounts
  OBVIOUS
<1>1. OfToday = {}
  BY DEF Init, NoOrder, OfToday
<1>2. Units({}) = {}
  BY DEF Units
<1>3. Total({}) = 0
  BY <1>2, FS_EmptySet DEF Total, Units
<1>4. dayLimit = policy.daily_limit /\ dayLimit \in Nat
  BY PolicyTyped DEF Init
<1>5. SpentToday = 0
  BY <1>1, <1>3, SpentTodayIs
<1> QED
  BY <1>4, <1>5 DEF DailyLimitKept, LimitCounts

\* Who changes the limits: UpdateKey, which remembers the higher one, and midnight.
LEMMA LimitsMove ==
  ASSUME TypeOK, LimitCounts, [Next]_vars
  PROVE  LimitCounts' /\ (NewDay \/ dayLimit <= dayLimit')
<1>1. ASSUME UNCHANGED <<policy, dayLimit>> PROVE LimitCounts' /\ dayLimit <= dayLimit'
  BY <1>1 DEF LimitCounts, TypeOK
<1>2. ASSUME NEW q \in Requests, RequestStep(q) PROVE UNCHANGED <<policy, dayLimit>>
  BY <1>2 DEF RequestStep, Authenticate, Refuse, CreateOrder
<1>3. ASSUME NEW q \in Requests, OrderStep(q) PROVE UNCHANGED <<policy, dayLimit>>
  BY <1>3 DEF OrderStep, Pay, Deliver, Fail, Refund, ExpireStaleOrder,
              ApprovalTimesOut, PruneIdempotencyKey
<1>4. CASE UpdateKey
  <2>1. policy' \in Policies /\ dayLimit \in Nat
    BY <1>4 DEF UpdateKey, TypeOK
  <2>2. policy'.daily_limit \in Nat
    BY <2>1, PolicyTyped
  <2>3. dayLimit' = IF policy'.daily_limit > dayLimit THEN policy'.daily_limit ELSE dayLimit
    BY <1>4 DEF UpdateKey
  <2>4. policy'.daily_limit <= dayLimit' /\ dayLimit <= dayLimit'
    BY <2>1, <2>2, <2>3
  <2> QED
    BY <2>4 DEF LimitCounts
<1>5. ASSUME OwnerStep, ~UpdateKey PROVE UNCHANGED <<policy, dayLimit>>
  BY <1>5 DEF OwnerStep, ApproveClicked, Reject, ApproveCommitted, Suspend, Unsuspend, DeleteKey
<1>6. ASSUME ExpireApprovalRequests \/ InterruptedStep \/ UNCHANGED vars
      PROVE  UNCHANGED <<policy, dayLimit>>
  BY <1>6 DEF ExpireApprovalRequests, InterruptedStep, RejectInterrupted, SuspendInterrupted,
              ExpireInterrupted, vars
<1>7. CASE NewDay
  <2>1. dayLimit' = policy.daily_limit /\ policy' = policy /\ policy.daily_limit \in Nat
    BY <1>7, PolicyTyped DEF NewDay, TypeOK
  <2> QED
    BY <1>7, <2>1 DEF LimitCounts
<1> QED
  BY <1>1, <1>2, <1>3, <1>4, <1>5, <1>6, <1>7 DEF Next

LEMMA DailyStep ==
  TypeOK /\ TypeOK' /\ AdmissionInv /\ DailyLimitKept /\ LimitCounts /\ [Next]_vars
    => DailyLimitKept' /\ LimitCounts'
<1> SUFFICES ASSUME TypeOK, TypeOK', AdmissionInv, DailyLimitKept, LimitCounts, [Next]_vars
             PROVE  DailyLimitKept'
  BY LimitsMove
<1>1. OfToday \in SUBSET Requests /\ OfToday' \in SUBSET Requests
  BY DEF OfToday
<1>2. Total(OfToday) \in Nat /\ Total(OfToday') \in Nat
  BY <1>1, UnitsFinite
<1>3. dayLimit \in Nat /\ dayLimit' \in Nat /\ policy.daily_limit \in Nat
  BY PolicyTyped DEF TypeOK
<1>4. ASSUME NEW q \in Requests, NEW xlm \in BOOLEAN, CreateOrder(q, xlm)
      PROVE  DailyLimitKept'
  <2>1. SpentToday + Amount[q] <= policy.daily_limit
    <3>1. ~(SpentToday + Amount[q] > policy.daily_limit)
      BY <1>4, CreateMakes DEF PolicyBlocks
    <3>2. Amount[q] \in Nat /\ SpentToday \in Nat
      BY <1>2, SpentTodayIs
    <3> QED
      BY <1>3, <3>1, <3>2
  <2>2. OfToday' \in SUBSET (OfToday \cup {q})
    BY <1>4, CreateMakes DEF OfToday
  <2>3. Total(OfToday') <= Total(OfToday) + Amount[q]
    BY <1>1, <2>2, TotalAddsAtMost
  <2>4. Amount[q] \in Nat
    OBVIOUS
  <2>5. dayLimit' = dayLimit /\ policy.daily_limit <= dayLimit
    BY <1>4 DEF CreateOrder, LimitCounts
  <2>6. SpentToday' <= dayLimit'
    BY <1>2, <1>3, <2>1, <2>3, <2>4, <2>5, SpentTodayIs
  <2> QED
    BY <2>6 DEF DailyLimitKept
<1>5. CASE NewDay
  <2>1. \A q \in Requests : ~order'[q].created_today
    BY <1>5 DEF NewDay, TypeOK, Order
  <2>2. OfToday' = {}
    BY <2>1 DEF OfToday
  <2>3. Units({}) = {}
    BY DEF Units
  <2>4. Total({}) = 0
    BY <2>3, FS_EmptySet DEF Total, Units
  <2>5. SpentToday' = 0
    BY <2>2, <2>4, SpentTodayIs
  <2> QED
    BY <1>3, <2>5 DEF DailyLimitKept
<1>6. CASE ~NewDay /\ \A q \in Requests, xlm \in BOOLEAN : ~CreateOrder(q, xlm)
  <2>1. OfToday' \in SUBSET OfToday
    BY <1>6, OthersMakeNone DEF OfToday, NoneMade
  <2>2. Total(OfToday') <= Total(OfToday)
    BY <1>1, <2>1, TotalMonotone
  <2>3. dayLimit <= dayLimit' /\ SpentToday <= dayLimit
    BY <1>6, LimitsMove DEF DailyLimitKept
  <2>4. SpentToday' <= dayLimit'
    BY <1>2, <1>3, <2>2, <2>3, SpentTodayIs
  <2> QED
    BY <2>4 DEF DailyLimitKept
<1> QED
  BY <1>4, <1>5, <1>6

\* The daily limit of a key (policy.js 221-224): the orders of a day that were not
\* expired or rejected never add up to more than a limit that was in force on that
\* day, whatever requests, approvals and changes of the policy race.
THEOREM DailyLimitHeld == Spec => []DailyLimitKept
<1>1. Init => DailyLimitKept /\ LimitCounts
  BY DailyInit
<1>2. TypeOK /\ TypeOK' /\ AdmissionInv /\ (DailyLimitKept /\ LimitCounts) /\ [Next]_vars
        => (DailyLimitKept /\ LimitCounts)'
  BY DailyStep
<1> QED
  BY <1>1, <1>2, TypeCorrect, AdmissionInvariant, PTL DEF Spec

=============================================================================
