----------------------- MODULE OrderFulfillmentProofs -----------------------
(***************************************************************************)
(* Proofs about OrderFulfillment, for every set of orders and every value  *)
(* of the bounds and of SlowHandlers.                                       *)
(***************************************************************************)
EXTENDS OrderFulfillment, SequenceTheorems, FiniteSetTheorems, TLAPS

-----------------------------------------------------------------------------
(* Types of the helpers.                                                   *)

USE DEF Statuses, TERMINAL, Ages, HandlerPcs, JobPcs, VccStatuses

\* NewRow, and a row as an UPDATE leaves it, are rows.
LEMMA NewRowType == NewRow \in Row
BY DEF NewRow, Row

LEMMA UpdateType ==
  ASSUME NEW o \in Orders, NEW r \in Row, row \in [Orders -> Row], Update(o, r)
  PROVE  /\ row' \in [Orders -> Row]
         /\ row'[o] = [r EXCEPT !.age = "fresh"]
         /\ \A p \in Orders : p # o => row'[p] = row[p]
BY DEF Update, Row, OlderThan

\* The other changes the UPDATEs make.
LEMMA RowChangeTypes ==
  ASSUME NEW r \in Row
  PROVE  /\ \A st \in Statuses : [r EXCEPT !.status = st] \in Row
         /\ [r EXCEPT !.vcc_job_id = TRUE] \in Row
         /\ [r EXCEPT !.xlm_sent_at = TRUE] \in Row
         /\ [r EXCEPT !.vcc_notified_at = TRUE] \in Row
         /\ [r EXCEPT !.status = "delivered", !.card = TRUE] \in Row
         /\ AttemptCounted(r) \in Row
         /\ \A i \in Nat : /\ PaidCheckpoint(r, i) \in Row
                          /\ AmbiguousPark(r, i) \in Row
                          /\ [r EXCEPT !.status = "refunded", !.refund_stellar_txid = i] \in Row
                          /\ [r EXCEPT !.refund_stellar_txid = IF @ = 0 THEN i ELSE @] \in Row
<1>1. ASSUME NEW st \in Statuses PROVE [r EXCEPT !.status = st] \in Row
  BY DEF Row
<1>2. ASSUME NEW i \in Nat PROVE PaidCheckpoint(r, i) \in Row /\ AmbiguousPark(r, i) \in Row
  BY DEF PaidCheckpoint, AmbiguousPark, Row
<1>3. ASSUME NEW i \in Nat
      PROVE  /\ [r EXCEPT !.status = "refunded", !.refund_stellar_txid = i] \in Row
             /\ [r EXCEPT !.refund_stellar_txid = IF @ = 0 THEN i ELSE @] \in Row
  BY DEF Row
<1>4. [r EXCEPT !.vcc_job_id = TRUE] \in Row
  BY DEF Row
<1>5. [r EXCEPT !.xlm_sent_at = TRUE] \in Row
  BY DEF Row
<1>6. [r EXCEPT !.vcc_notified_at = TRUE] \in Row
  BY DEF Row
<1>7. [r EXCEPT !.status = "delivered", !.card = TRUE] \in Row
  BY DEF Row
<1>8. AttemptCounted(r) \in Row
  BY DEF AttemptCounted, Row
<1> QED
  BY <1>1, <1>2, <1>3, <1>4, <1>5, <1>6, <1>7, <1>8

\* What refundOrQuarantine does to a row: only its status, to a terminal one
\* unless the system is frozen.
LEMMA RefundOrQuarantineType ==
  ASSUME NEW r \in Row
  PROVE  RefundOrQuarantine(r) \in Row
BY DEF RefundOrQuarantine, QuarantineForManualRecovery, ScheduleRefund, Row

LEMMA SendsType == ASSUME NEW r PROVE Sends(r) \in {0, 1}
BY DEF Sends

LEMMA HandlerToType ==
  ASSUME NEW o \in Orders, NEW pc \in HandlerPcs,
         handler \in [Orders -> [pc: HandlerPcs, tx: Nat]], HandlerTo(o, pc)
  PROVE  handler' \in [Orders -> [pc: HandlerPcs, tx: Nat]]
BY DEF HandlerTo

LEMMA ContinueType ==
  ASSUME TypeOK, NEW o \in Orders, NEW pc \in JobPcs, Continue(o, pc)
  PROVE  jobs' \in [pc: JobPcs, todo: SUBSET Orders, cur: Orders \cup {NoOrder},
                    tx: Nat, snap: [Orders -> Row]]
BY NewRowType DEF TypeOK, Continue

LEMMA SubmitType ==
  ASSUME TypeOK, NEW o \in Orders, NEW d \in {"ctx", "sender"}, Submit(o, d)
  PROVE  /\ ledger' \in [Orders -> Seq(Tx)]
         /\ Len(ledger'[o]) \in Nat \ {0}
<1> DEFINE e == [to |-> d, st |-> "flying"]
<1>1. e \in Tx
  BY DEF Tx
<1>2. ledger \in [Orders -> Seq(Tx)]
  BY DEF TypeOK
<1>3. /\ Append(ledger[o], e) \in Seq(Tx)
      /\ Len(Append(ledger[o], e)) = Len(ledger[o]) + 1
      /\ Len(ledger[o]) \in Nat
  BY <1>1, <1>2
<1>4. ledger' = [ledger EXCEPT ![o] = Append(ledger[o], e)]
  BY DEF Submit
<1> QED
  BY <1>2, <1>3, <1>4

\* Replacing transactions one by one leaves a sequence of transactions.
LEMMA MapSeqType ==
  ASSUME NEW s \in Seq(Tx), NEW t, t = [j \in DOMAIN s |-> t[j]],
         \A j \in DOMAIN s : t[j] \in Tx
  PROVE  t \in Seq(Tx)
<1>1. DOMAIN s = 1..Len(s) /\ Len(s) \in Nat
  OBVIOUS
<1>2. t \in [1..Len(s) -> Tx]
  BY <1>1
<1> QED
  BY <1>1, <1>2, SeqDef

LEMMA KillType ==
  ASSUME TypeOK, NEW o \in Orders, NEW i, Kill(o, i)
  PROVE  ledger' \in [Orders -> Seq(Tx)]
<1> DEFINE t == [ledger[o] EXCEPT ![i].st = "dead"]
<1>1. ledger \in [Orders -> Seq(Tx)]
  BY DEF TypeOK
<1>2. \A j \in DOMAIN ledger[o] : ledger[o][j] \in Tx
  BY <1>1
<1>3. t = [j \in DOMAIN ledger[o] |-> t[j]]
  BY <1>1
<1>4. \A j \in DOMAIN ledger[o] : t[j] \in Tx
  BY <1>2 DEF Tx
<1>5. t \in Seq(Tx)
  <2> HIDE DEF t
  <2> QED BY <1>1, <1>3, <1>4, MapSeqType
<1>6. ledger' = [ledger EXCEPT ![o] = t]
  BY DEF Kill
<1> QED
  BY <1>1, <1>5, <1>6

LEMMA InitTypeOK == Init => TypeOK
<1> SUFFICES ASSUME Init PROVE TypeOK
  OBVIOUS
<1>1. row \in [Orders -> Row]
  <2>1. \A b \in BOOLEAN : [NewRow EXCEPT !.api_key_id = b] \in Row
    BY DEF NewRow, Row
  <2>2. PICK keyed \in SUBSET Orders :
          row = [o \in Orders |-> [NewRow EXCEPT !.api_key_id = o \in keyed]]
    BY DEF Init
  <2>3. \A o \in Orders : (o \in keyed) \in BOOLEAN
    OBVIOUS
  <2> QED BY <2>1, <2>2, <2>3
<1>2. jobs \in [pc: JobPcs, todo: SUBSET Orders, cur: Orders \cup {NoOrder},
                tx: Nat, snap: [Orders -> Row]]
  BY NewRowType DEF Init, NoJob
<1>3. ledger \in [Orders -> Seq(Tx)]
  BY DEF Init
<1>4. handler \in [Orders -> [pc: HandlerPcs, tx: Nat]]
  BY DEF Init, Idle
<1>5. refunds \in [Orders -> RefundState]
  BY DEF Init, RefundState
<1> QED
  BY <1>1, <1>2, <1>3, <1>4, <1>5 DEF Init, TypeOK

LEMMA RefundStateTypes ==
  ASSUME NEW f \in RefundState
  PROVE  /\ \A n \in Nat : \A skip \in BOOLEAN : Claimed(f, n, skip) \in RefundState
         /\ f.start > 0 => /\ Dropped(f) \in RefundState
                          /\ \A i \in Nat : Submitted(f, i) \in RefundState
         /\ \A i \in Nat : Answered(f, i) \in RefundState
         /\ Forgotten(f) \in RefundState
<1>1. ASSUME NEW n \in Nat, NEW skip \in BOOLEAN PROVE Claimed(f, n, skip) \in RefundState
  <2>1. /\ f.claims + n \in Nat /\ f.start + n \in Nat /\ f.held \in SUBSET Nat
        /\ f.skipped \in BOOLEAN
    BY DEF RefundState
  <2>2. (f.skipped \/ skip) \in BOOLEAN
    OBVIOUS
  <2> QED BY <2>1, <2>2, Zenon DEF Claimed, RefundState
<1>2. ASSUME f.start > 0 PROVE Dropped(f) \in RefundState
  BY <1>2 DEF Dropped, RefundState
<1>4. ASSUME f.start > 0, NEW i \in Nat PROVE Submitted(f, i) \in RefundState
  <2>1. f.start - 1 \in Nat /\ f.held \cup {i} \in SUBSET Nat
    BY <1>4 DEF RefundState
  <2> QED BY <2>1 DEF Submitted, RefundState
<1>3. Forgotten(f) \in RefundState /\ \A i \in Nat : Answered(f, i) \in RefundState
  BY DEF Answered, Forgotten, RefundState
<1> QED
  BY <1>1, <1>2, <1>3, <1>4

-----------------------------------------------------------------------------
(* TypeOK is preserved.                                                    *)

LEMMA SettleType ==
  ASSUME TypeOK, NEW o \in Orders, NEW r \in Row, Settle(o, r) \/ SettleTwice(o, r)
  PROVE  /\ row' \in [Orders -> Row]
         /\ refunds' \in [Orders -> RefundState]
<1>1. RefundOrQuarantine(r) \in Row /\ RefundOrQuarantine(RefundOrQuarantine(r)) \in Row
  BY RefundOrQuarantineType
<1>2. row' \in [Orders -> Row]
  BY <1>1, UpdateType DEF Settle, SettleTwice, TypeOK
<1>3. PICK n \in Nat, skip \in BOOLEAN : StartSends(o, n, skip)
  <2>1. Sends(r) \in Nat /\ Sends(r) + Sends(RefundOrQuarantine(r)) \in Nat
    BY SendsType
  <2>2. SkippedFrozen(r) \in BOOLEAN
    BY DEF SkippedFrozen
  <2> QED BY <2>1, <2>2 DEF Settle, SettleTwice
<1>4. refunds' \in [Orders -> RefundState]
  <2>1. refunds[o] \in RefundState
    BY DEF TypeOK
  <2> QED BY <1>3, <2>1, RefundStateTypes DEF StartSends, TypeOK
<1> QED
  BY <1>2, <1>4

\* The answer of a submission leaves the ledger well formed.
LEMMA SubmitAnswerType ==
  ASSUME TypeOK, NEW o \in Orders, NEW i, NEW out, SubmitAnswer(o, i, out)
  PROVE  ledger' \in [Orders -> Seq(Tx)]
BY KillType DEF SubmitAnswer, TypeOK

\* What throws in the handler, and the catch block.
LEMMA HandlerThrowsType ==
  ASSUME TypeOK, NEW o \in Orders, HandlerThrows(o)
  PROVE  vcc' \in [Orders -> VccStatuses] /\ ledger' \in [Orders -> Seq(Tx)]
<1>1. UNCHANGED vcc \/ InvoiceCall(o, FALSE) \/ PaidCall(o, FALSE)
  BY DEF HandlerThrows
<1>2. vcc' \in [Orders -> VccStatuses]
  BY <1>1 DEF InvoiceCall, PaidCall, VccInvoice, VccPaid, TypeOK
<1>3. UNCHANGED ledger \/ SubmitAnswer(o, handler[o].tx, "definitive")
  BY DEF HandlerThrows
<1> QED
  BY <1>2, <1>3, SubmitAnswerType DEF TypeOK

\* handlePayment from its claim on.
LEMMA HandlerTypeOK ==
  ASSUME TypeOK, NEW o \in Orders, ClaimPayment(o) \/ HandlerStep(o)
  PROVE  TypeOK'
<1>1. row[o] \in Row /\ handler[o] \in [pc: HandlerPcs, tx: Nat] /\ handler[o].tx \in Nat
  BY DEF TypeOK
<1>2. CASE ClaimPayment(o)
  <2>1. row' \in [Orders -> Row]
    BY <1>1, <1>2, RowChangeTypes, UpdateType DEF ClaimPayment, TypeOK
  <2>2. handler' \in [Orders -> [pc: HandlerPcs, tx: Nat]]
    BY <1>2, HandlerToType DEF ClaimPayment, TypeOK
  <2> QED BY <1>2, <2>1, <2>2 DEF ClaimPayment, TypeOK
<1>3. CASE InvoiceAnswered(o)
  <2>1. vcc' \in [Orders -> VccStatuses]
    BY <1>3 DEF InvoiceAnswered, VccInvoice, TypeOK
  <2> QED BY <1>3, <2>1, HandlerToType DEF InvoiceAnswered, TypeOK
<1>4. CASE PersistInvoice(o)
  <2>1. row' \in [Orders -> Row]
    BY <1>1, <1>4, RowChangeTypes, UpdateType DEF PersistInvoice, TypeOK
  <2>2. handler' \in [Orders -> [pc: HandlerPcs, tx: Nat]]
    BY <1>4, HandlerToType DEF PersistInvoice, TypeOK
  <2> QED BY <1>4, <2>1, <2>2 DEF PersistInvoice, TypeOK
<1>5. CASE PaySubmit(o)
  <2>1. ledger' \in [Orders -> Seq(Tx)] /\ Len(ledger'[o]) \in Nat
    BY <1>5, SubmitType DEF PaySubmit
  <2>2. handler' \in [Orders -> [pc: HandlerPcs, tx: Nat]]
    BY <1>5, <2>1 DEF PaySubmit, TypeOK
  <2> QED BY <1>5, <2>1, <2>2 DEF PaySubmit, TypeOK
<1>6. CASE HandlerFails(o)
  <2>1. [row[o] EXCEPT !.status = "failed"] \in Row
    BY <1>1, RowChangeTypes
  <2>2. row' \in [Orders -> Row] /\ refunds' \in [Orders -> RefundState]
    BY <1>6, <2>1, SettleType DEF HandlerFails
  <2>3. handler' \in [Orders -> [pc: HandlerPcs, tx: Nat]]
    BY <1>6, HandlerToType DEF HandlerFails, TypeOK
  <2> QED BY <1>6, <2>2, <2>3, HandlerThrowsType DEF HandlerFails, TypeOK
<1>7. CASE PayAnswered(o)
  <2>1. ledger' \in [Orders -> Seq(Tx)]
    BY <1>7, SubmitAnswerType DEF PayAnswered
  <2>2. row' \in [Orders -> Row]
    BY <1>1, <1>7, RowChangeTypes, UpdateType DEF PayAnswered, TypeOK
  <2>3. handler' \in [Orders -> [pc: HandlerPcs, tx: Nat]]
    BY <1>7, HandlerToType DEF PayAnswered, TypeOK
  <2> QED BY <1>7, <2>1, <2>2, <2>3 DEF PayAnswered, TypeOK
<1>8. CASE NotifyAnswered(o)
  <2>1. vcc' \in [Orders -> VccStatuses]
    BY <1>8 DEF NotifyAnswered, VccPaid, TypeOK
  <2> QED BY <1>8, <2>1, HandlerToType DEF NotifyAnswered, TypeOK
<1>9. CASE NotifyAgainAnswered(o)
  <2>1. vcc' \in [Orders -> VccStatuses]
    BY <1>9 DEF NotifyAgainAnswered, VccPaid, TypeOK
  <2>2. row' \in [Orders -> Row]
    BY <1>1, <1>9, RowChangeTypes, UpdateType DEF NotifyAgainAnswered, TypeOK
  <2> QED BY <1>9, <2>1, <2>2, HandlerToType DEF NotifyAgainAnswered, TypeOK
<1> QED
  BY <1>2, <1>3, <1>4, <1>5, <1>6, <1>7, <1>8, <1>9 DEF HandlerStep

\* The sends of scheduleRefund.
LEMMA RefundTypeOK ==
  ASSUME TypeOK, NEW o \in Orders, RefundStep(o)
  PROVE  TypeOK'
<1>1. row[o] \in Row /\ refunds[o] \in RefundState
  BY DEF TypeOK
<1>2. CASE RefundSubmit(o)
  <2>1. ledger' \in [Orders -> Seq(Tx)] /\ Len(ledger'[o]) \in Nat
    BY <1>2, SubmitType DEF RefundSubmit
  <2>2. refunds' \in [Orders -> RefundState]
    BY <1>1, <1>2, <2>1, RefundStateTypes DEF RefundSubmit, TypeOK
  <2> QED BY <1>2, <2>1, <2>2 DEF RefundSubmit, TypeOK
<1>3. CASE RefundNotSubmitted(o)
  <2>1. refunds' \in [Orders -> RefundState]
    BY <1>1, <1>3, RefundStateTypes DEF RefundNotSubmitted, TypeOK
  <2> QED BY <1>3, <2>1 DEF RefundNotSubmitted, TypeOK
<1>4. ASSUME NEW i \in refunds[o].held, RefundAnswered(o, i)
      PROVE  TypeOK'
  <2>1. i \in Nat
    BY <1>1, <1>4 DEF RefundState
  <2>2. ledger' \in [Orders -> Seq(Tx)]
    BY <1>4, SubmitAnswerType DEF RefundAnswered
  <2>3. row' \in [Orders -> Row]
    BY <1>1, <1>4, <2>1, RowChangeTypes, UpdateType DEF RefundAnswered, TypeOK
  <2>4. refunds' \in [Orders -> RefundState]
    BY <1>1, <1>4, <2>1, RefundStateTypes DEF RefundAnswered, TypeOK
  <2> QED BY <1>4, <2>2, <2>3, <2>4 DEF RefundAnswered, TypeOK
<1> QED
  BY <1>2, <1>3, <1>4 DEF RefundStep

\* VCC's callbacks.
LEMMA CallbackTypeOK ==
  ASSUME TypeOK, NEW o \in Orders, CallbackStep(o)
  PROVE  TypeOK'
<1>1. row[o] \in Row
  BY DEF TypeOK
<1>2. CASE CallbackFulfilled(o)
  <2>1. row' \in [Orders -> Row]
    BY <1>1, <1>2, RowChangeTypes, UpdateType DEF CallbackFulfilled, StoreCard, TypeOK
  <2>2. spent' \in [Orders -> Nat]
    BY <1>2 DEF CallbackFulfilled, Charge, TypeOK
  <2> QED BY <1>2, <2>1, <2>2 DEF CallbackFulfilled, TypeOK
<1>3. CASE CallbackFailed(o)
  <2>1. FailedTarget(row[o]) \in Statuses
    BY DEF FailedTarget
  <2>2. [row[o] EXCEPT !.status = FailedTarget(row[o])] \in Row
    BY <1>1, <2>1, RowChangeTypes
  <2> QED BY <1>3, <2>2, SettleType DEF CallbackFailed, TypeOK
<1> QED
  BY <1>2, <1>3 DEF CallbackStep

\* VCC, the ledger, time.
LEMMA OutsideTypeOK ==
  ASSUME TypeOK, NEW o \in Orders, VccStep(o) \/ LedgerStep(o) \/ GrowOlder(o)
  PROVE  TypeOK'
<1>1. CASE VccStep(o)
  BY <1>1 DEF VccStep, VccDelivers, VccFails, TypeOK
<1>2. ASSUME NEW i \in DOMAIN ledger[o], TxExpires(o, i)
      PROVE  TypeOK'
  BY <1>2, KillType DEF TxExpires, TypeOK
<1>3. ASSUME NEW i \in DOMAIN ledger[o], TxLands(o, i)
      PROVE  TypeOK'
  <2>1. ASSUME NEW p \in Orders PROVE ledger'[p] \in Seq(Tx)
    <3>1. ledger[p] \in Seq(Tx) /\ ledger \in [Orders -> Seq(Tx)]
      BY DEF TypeOK
    <3>2. \A j \in DOMAIN ledger[p] : ledger[p][j] \in Tx
      BY <3>1
    <3>3. ASSUME NEW x \in Tx
          PROVE  [x EXCEPT !.st = "landed"] \in Tx /\ [x EXCEPT !.st = "dead"] \in Tx
      BY DEF Tx
    <3>4. DEFINE t == ledger'[p]
    <3>5. t = [j \in DOMAIN ledger[p] |->
                 IF p = o /\ j = i THEN [ledger[p][j] EXCEPT !.st = "landed"]
                 ELSE IF Flying(p, j) /\ ~Held(p, j) THEN [ledger[p][j] EXCEPT !.st = "dead"]
                 ELSE ledger[p][j]]
      BY <1>3 DEF TxLands
    <3>6. \A j \in DOMAIN ledger[p] : t[j] \in Tx
      BY <3>2, <3>3, <3>5
    <3>7. t = [j \in DOMAIN ledger[p] |-> t[j]]
      BY <3>5
    <3> HIDE DEF t
    <3>8. t \in Seq(Tx)
      BY <3>1, <3>6, <3>7, MapSeqType
    <3> QED BY <3>8 DEF t
  <2>2. ledger' \in [Orders -> Seq(Tx)]
    BY <1>3, <2>1 DEF TxLands
  <2> QED BY <1>3, <2>2 DEF TxLands, TypeOK
<1>4. CASE GrowOlder(o)
  <2>1. ASSUME NEW r \in Row PROVE [r EXCEPT !.age = OlderThan[r.age]] \in Row
    BY DEF Row, OlderThan
  <2>2. row' = [row EXCEPT ![o] = [row[o] EXCEPT !.age = OlderThan[row[o].age]]]
    BY <1>4 DEF GrowOlder, TypeOK
  <2>3. row' \in [Orders -> Row]
    BY <2>1, <2>2 DEF TypeOK
  <2> QED BY <1>4, <2>3 DEF GrowOlder, TypeOK
<1> QED
  BY <1>1, <1>2, <1>3, <1>4 DEF LedgerStep

\* The jobs.
JobsType == [pc: JobPcs, todo: SUBSET Orders, cur: Orders \cup {NoOrder},
             tx: Nat, snap: [Orders -> Row]]

LEMMA JobMoveTypes ==
  ASSUME TypeOK, NEW pc \in JobPcs
  PROVE  /\ NoJob(pc) \in JobsType
         /\ \A S \in SUBSET Orders : Selected(pc, S) \in JobsType
         /\ JobTo(pc) => jobs' \in JobsType
         /\ \A o \in Orders : Take(o, pc) \/ Continue(o, pc) => jobs' \in JobsType
<1>1. NoJob(pc) \in JobsType
  BY NewRowType DEF NoJob, JobsType
<1>2. ASSUME NEW S \in SUBSET Orders PROVE Selected(pc, S) \in JobsType
  BY NewRowType DEF Selected, NoJob, JobsType, TypeOK
<1>3. ASSUME JobTo(pc) PROVE jobs' \in JobsType
  BY <1>3 DEF JobTo, JobsType, TypeOK
<1>4. ASSUME NEW o \in Orders, Take(o, pc) PROVE jobs' \in JobsType
  BY <1>4 DEF Take, JobsType, TypeOK
<1>5. ASSUME NEW o \in Orders, Continue(o, pc) PROVE jobs' \in JobsType
  BY <1>5, ContinueType DEF JobsType
<1> QED
  BY <1>1, <1>2, <1>3, <1>4, <1>5

LEMMA JobFrameTypeOK ==
  ASSUME TypeOK, JobStep
  PROVE  \/ TypeOK'
         \/ \E o \in Orders : ReconcileStep(o) \/ RecoverStep(o)
<1>1. CASE ExpireStaleOrders
  <2>1. PICK S \in SUBSET {o \in Orders : row[o].status = "pending_payment"} :
          row' = [o \in Orders |-> IF o \in S
                   THEN [row[o] EXCEPT !.status = "expired", !.age = "fresh"] ELSE row[o]]
    BY <1>1 DEF ExpireStaleOrders
  <2>2. ASSUME NEW r \in Row
        PROVE  [r EXCEPT !.status = "expired", !.age = "fresh"] \in Row
    BY DEF Row
  <2>3. row' \in [Orders -> Row]
    BY <2>1, <2>2 DEF TypeOK
  <2> QED BY <1>1, <2>3, JobMoveTypes DEF ExpireStaleOrders, JobsType, TypeOK
<1>2. CASE ReconcileSelect
  <2>1. {o \in Orders : NeedsReconcile(row[o])} \in SUBSET Orders
    OBVIOUS
  <2> QED BY <1>2, <2>1, JobMoveTypes DEF ReconcileSelect, JobsType, TypeOK
<1>3. CASE ReconcileDone
  BY <1>3, JobMoveTypes DEF ReconcileDone, JobsType, TypeOK
<1>4. CASE RecoverSelect
  <2>1. {o \in Orders : NeedsPoll(row[o])} \in SUBSET Orders
    OBVIOUS
  <2> QED BY <1>4, <2>1, JobMoveTypes DEF RecoverSelect, JobsType, TypeOK
<1>5. CASE RecoverDone
  BY <1>5, JobMoveTypes DEF RecoverDone, JobsType, TypeOK
<1> QED
  BY <1>1, <1>2, <1>3, <1>4, <1>5 DEF JobStep

LEMMA HardFailType ==
  ASSUME TypeOK, NEW o \in Orders, HardFail(o)
  PROVE  TypeOK'
<1>1. [row[o] EXCEPT !.status = "failed"] \in Row
  BY RowChangeTypes DEF TypeOK
<1>2. row' \in [Orders -> Row] /\ refunds' \in [Orders -> RefundState]
  BY <1>1, SettleType DEF HardFail, TypeOK
<1>3. jobs' \in JobsType
  BY JobMoveTypes DEF HardFail
<1> QED
  BY <1>2, <1>3 DEF HardFail, JobsType, TypeOK

LEMMA ToNotifyType ==
  ASSUME TypeOK, NEW o \in Orders, ToNotify(o)
  PROVE  jobs' \in JobsType
BY JobMoveTypes DEF ToNotify

LEMMA ReconcileTypeOK ==
  ASSUME TypeOK, NEW o \in Orders, ReconcileStep(o)
  PROVE  TypeOK'
<1>1. row[o] \in Row /\ jobs.tx \in Nat
  BY DEF TypeOK
<1>2. CASE HardFailNoJob(o) \/ HardFailConfirmed(o) \/ HardFailNoStatus(o)
  BY <1>2, HardFailType DEF HardFailNoJob, HardFailConfirmed, HardFailNoStatus
<1>3. CASE AskBeforeHardFail(o)
  BY <1>3, JobMoveTypes DEF AskBeforeHardFail, JobsType, TypeOK
<1>4. CASE HardFailPostponed(o)
  <2>1. row' \in [Orders -> Row]
    BY <1>1, <1>4, UpdateType DEF HardFailPostponed, Touch, TypeOK
  <2> QED BY <1>4, <2>1, JobMoveTypes DEF HardFailPostponed, JobsType, TypeOK
<1>6. CASE ClaimAttempt(o)
  <2>1. row' \in [Orders -> Row]
    BY <1>1, <1>6, RowChangeTypes, UpdateType DEF ClaimAttempt, TypeOK
  <2>2. jobs' \in JobsType
    <3>1. FirstMissingStep(jobs.snap[o]) \in JobPcs
      BY DEF FirstMissingStep
    <3> QED BY <1>6, <3>1, JobMoveTypes DEF ClaimAttempt
  <2> QED BY <1>6, <2>1, <2>2 DEF ClaimAttempt, JobsType, TypeOK
<1>7. CASE RetryInvoiceAnswered(o)
  <2>1. vcc' \in [Orders -> VccStatuses]
    BY <1>7 DEF RetryInvoiceAnswered, InvoiceCall, VccInvoice, TypeOK
  <2>2. row' \in [Orders -> Row]
    BY <1>1, <1>7, RowChangeTypes, UpdateType DEF RetryInvoiceAnswered, RetryFails, TypeOK
  <2>3. jobs' \in JobsType
    BY <1>7, ToNotifyType, JobMoveTypes DEF RetryInvoiceAnswered, RetryFails
  <2> QED BY <1>7, <2>1, <2>2, <2>3 DEF RetryInvoiceAnswered, JobsType, TypeOK
<1>8. CASE RetryStatusAnswered(o)
  <2>1. row' \in [Orders -> Row]
    BY <1>1, <1>8, RowChangeTypes, UpdateType DEF RetryStatusAnswered, RetryFails, TypeOK
  <2>2. jobs' \in JobsType
    BY <1>8, ToNotifyType, JobMoveTypes DEF RetryStatusAnswered, RetryFails
  <2> QED BY <1>8, <2>1, <2>2 DEF RetryStatusAnswered, JobsType, TypeOK
<1>9. CASE RetryPaySubmit(o)
  <2>1. ledger' \in [Orders -> Seq(Tx)] /\ Len(ledger'[o]) \in Nat
    BY <1>9, SubmitType DEF RetryPaySubmit
  <2> QED BY <1>9, <2>1 DEF RetryPaySubmit, TypeOK
<1>10. CASE RetryPayNotSubmitted(o)
  BY <1>10, JobMoveTypes DEF RetryPayNotSubmitted, RetryFails, JobsType, TypeOK
<1>11. CASE RetryPayAnswered(o)
  <2>1. ledger' \in [Orders -> Seq(Tx)]
    BY <1>11, SubmitAnswerType DEF RetryPayAnswered
  <2>2. row' \in [Orders -> Row]
    BY <1>1, <1>11, RowChangeTypes, UpdateType DEF RetryPayAnswered, RetryFails, TypeOK
  <2>3. jobs' \in JobsType
    BY <1>11, ToNotifyType, JobMoveTypes DEF RetryPayAnswered, RetryFails
  <2> QED BY <1>11, <2>1, <2>2, <2>3 DEF RetryPayAnswered, JobsType, TypeOK
<1>12. CASE RetryNotifyAnswered(o)
  <2>1. vcc' \in [Orders -> VccStatuses]
    BY <1>12 DEF RetryNotifyAnswered, PaidCall, VccPaid, TypeOK
  <2>2. row' \in [Orders -> Row]
    BY <1>1, <1>12, RowChangeTypes, UpdateType DEF RetryNotifyAnswered, RetryFails, TypeOK
  <2>3. jobs' \in JobsType
    BY <1>12, JobMoveTypes DEF RetryNotifyAnswered, RetryFails
  <2> QED BY <1>12, <2>1, <2>2, <2>3 DEF RetryNotifyAnswered, JobsType, TypeOK
<1> QED
  BY <1>2, <1>3, <1>4, <1>6, <1>7, <1>8, <1>9, <1>10, <1>11, <1>12
  DEF ReconcileStep

LEMMA RecoverTypeOK ==
  ASSUME TypeOK, NEW o \in Orders, RecoverStep(o)
  PROVE  TypeOK'
<1>1. row[o] \in Row
  BY DEF TypeOK
<1>2. CASE PollSaysDelivered(o)
  <2>1. row' \in [Orders -> Row]
    BY <1>1, <1>2, UpdateType DEF PollSaysDelivered, Touch, TypeOK
  <2> QED BY <1>2, <2>1, JobMoveTypes DEF PollSaysDelivered, JobsType, TypeOK
<1>3. CASE PollSaysFailed(o)
  <2>1. FailedTarget(jobs.snap[o]) \in Statuses
    BY DEF FailedTarget
  <2>2. [row[o] EXCEPT !.status = FailedTarget(jobs.snap[o])] \in Row
    BY <1>1, <2>1, RowChangeTypes
  <2> QED BY <1>3, <2>2, SettleType, JobMoveTypes DEF PollSaysFailed, JobsType, TypeOK
<1>4. CASE PollSaysNothing(o)
  BY <1>4, JobMoveTypes DEF PollSaysNothing, JobsType, TypeOK
<1> QED
  BY <1>2, <1>3, <1>4 DEF RecoverStep

\* The death of the process, also between two statements.
LEMMA DiesType ==
  ASSUME TypeOK, Dies
  PROVE  /\ handler' \in [Orders -> [pc: HandlerPcs, tx: Nat]]
         /\ refunds' \in [Orders -> RefundState]
         /\ jobs' \in JobsType /\ crashes' \in Nat
<1>1. handler' \in [Orders -> [pc: HandlerPcs, tx: Nat]]
  BY DEF Dies, Idle
<1>2. refunds' \in [Orders -> RefundState]
  BY RefundStateTypes DEF Dies, TypeOK
<1>3. jobs' \in JobsType
  BY JobMoveTypes DEF Dies
<1> QED
  BY <1>1, <1>2, <1>3 DEF Dies, TypeOK

LEMMA CrashTypeOK ==
  ASSUME TypeOK, Crash \/ SetFrozen
  PROVE  TypeOK'
<1>1. CASE Crash
  BY <1>1, DiesType DEF Crash, JobsType, TypeOK
<1>2. CASE SetFrozen
  BY <1>2 DEF SetFrozen, TypeOK
<1> QED
  BY <1>1, <1>2

LEMMA InterruptedTypeOK ==
  ASSUME TypeOK, NEW o \in Orders, InterruptedStep(o)
  PROVE  TypeOK'
<1>1. row[o] \in Row
  BY DEF TypeOK
<1>2. ASSUME NEW st \in {"failed", "pending_manual_recovery"}, DiesUnsettled(o, st),
             vcc' \in [Orders -> VccStatuses], ledger' \in [Orders -> Seq(Tx)],
             UNCHANGED <<spent, frozen>>
      PROVE  TypeOK'
  <2>1. row' \in [Orders -> Row]
    BY <1>1, <1>2, RowChangeTypes, UpdateType DEF DiesUnsettled, TypeOK
  <2> QED BY <1>2, <2>1, DiesType DEF DiesUnsettled, JobsType, TypeOK
<1>3. \A r : FailedTarget(r) \in {"failed", "pending_manual_recovery"}
  BY DEF FailedTarget
<1>4. CASE HandlerFailsInterrupted(o)
  BY <1>2, <1>4, HandlerThrowsType DEF HandlerFailsInterrupted
<1>5. CASE CallbackFulfilledInterrupted(o)
  <2>1. row' \in [Orders -> Row]
    BY <1>1, <1>5, RowChangeTypes, UpdateType
    DEF CallbackFulfilledInterrupted, StoreCard, TypeOK
  <2> QED BY <1>5, <2>1, DiesType DEF CallbackFulfilledInterrupted, JobsType, TypeOK
<1>6. CASE CallbackFailedInterrupted(o)
  BY <1>2, <1>3, <1>6 DEF CallbackFailedInterrupted, TypeOK
<1>7. CASE HardFailInterrupted(o)
  BY <1>2, <1>7 DEF HardFailInterrupted, TypeOK
<1>8. CASE PollSaysFailedInterrupted(o)
  BY <1>2, <1>3, <1>8 DEF PollSaysFailedInterrupted, TypeOK
<1> QED
  BY <1>4, <1>5, <1>6, <1>7, <1>8 DEF InterruptedStep

-----------------------------------------------------------------------------
(* What the UPDATEs do to the columns the invariant is about.              *)

\* Rows r and s agree on the evidence of a payment and of a card.
SameEvidence(r, s) ==
  /\ r.ctx_stellar_txid = s.ctx_stellar_txid /\ r.card = s.card
  /\ r.vcc_job_id = s.vcc_job_id /\ r.xlm_sent_at = s.xlm_sent_at
  /\ r.api_key_id = s.api_key_id

LEMMA UpdateEffect ==
  ASSUME TypeOK, NEW o \in Orders, NEW r \in Row, Update(o, r)
  PROVE  /\ SameEvidence(row'[o], r) /\ row'[o].status = r.status
         /\ \A p \in Orders : p # o => row'[p] = row[p]
<1>1. /\ SameEvidence([r EXCEPT !.age = "fresh"], r)
      /\ [r EXCEPT !.age = "fresh"].status = r.status
  BY DEF SameEvidence, Row
<1> QED
  BY <1>1, UpdateType DEF TypeOK

LEMMA StatusEffect ==
  ASSUME NEW r \in Row, NEW st \in Statuses
  PROVE  /\ SameEvidence([r EXCEPT !.status = st], r)
         /\ [r EXCEPT !.status = st].status = st
BY DEF SameEvidence, Row

LEMMA RefundOrQuarantineEffect ==
  ASSUME NEW r \in Row, r.status \in TERMINAL
  PROVE  /\ SameEvidence(RefundOrQuarantine(r), r)
         /\ RefundOrQuarantine(r).status \in TERMINAL
         /\ CtxLegRecorded(r) => Sends(r) = 0
BY DEF RefundOrQuarantine, QuarantineForManualRecovery, ScheduleRefund, Sends,
       CtxLegRecorded, SameEvidence, Row

\* Settling a row that is already terminal: it stays so, keeps its evidence,
\* and a refund starts only if no CTX payment is recorded.
LEMMA SettleEffect ==
  ASSUME TypeOK, NEW o \in Orders, NEW r \in Row, r.status \in TERMINAL,
         Settle(o, r) \/ SettleTwice(o, r)
  PROVE  /\ SameEvidence(row'[o], r) /\ row'[o].status \in TERMINAL
         /\ \/ refunds'[o].claims = refunds[o].claims
            \/ ~CtxLegRecorded(r) /\ refunds'[o].claims > refunds[o].claims
         /\ refunds[o].skipped => refunds'[o].skipped
         /\ \A p \in Orders : p # o => row'[p] = row[p] /\ refunds'[p] = refunds[p]
<1> DEFINE q == RefundOrQuarantine(r)
           q2 == RefundOrQuarantine(q)
<1>1. /\ q \in Row /\ q.status \in TERMINAL /\ SameEvidence(q, r)
      /\ q2 \in Row /\ q2.status \in TERMINAL /\ SameEvidence(q2, r)
  BY RefundOrQuarantineType, RefundOrQuarantineEffect DEF SameEvidence
<1>2. CtxLegRecorded(r) => Sends(r) = 0 /\ Sends(q) = 0
  BY <1>1, RefundOrQuarantineEffect DEF SameEvidence, CtxLegRecorded
<1>3. PICK n \in Nat, skip \in BOOLEAN :
        StartSends(o, n, skip) /\ (CtxLegRecorded(r) => n = 0)
  <2>1. Sends(r) \in Nat /\ Sends(r) + Sends(q) \in Nat /\ SkippedFrozen(r) \in BOOLEAN
    BY SendsType DEF SkippedFrozen
  <2> QED BY <1>2, <2>1 DEF Settle, SettleTwice
<1>4. SameEvidence(row'[o], r) /\ row'[o].status \in TERMINAL
  <2>1. Update(o, q) \/ Update(o, q2)
    BY DEF Settle, SettleTwice
  <2> HIDE DEF q, q2
  <2> QED BY <1>1, <2>1, UpdateEffect DEF SameEvidence
<1>5. \A p \in Orders : p # o => row'[p] = row[p]
  BY <1>1, UpdateEffect DEF Settle, SettleTwice
<1>6. /\ refunds'[o] = Claimed(refunds[o], n, skip)
      /\ \A p \in Orders : p # o => refunds'[p] = refunds[p]
  BY <1>3 DEF StartSends, TypeOK
<1>7. \/ refunds'[o].claims = refunds[o].claims
      \/ ~CtxLegRecorded(r) /\ refunds'[o].claims > refunds[o].claims
  <2>1. refunds[o].claims \in Nat
    BY DEF TypeOK, RefundState
  <2>2. refunds'[o].claims = refunds[o].claims + n
    BY <1>6 DEF Claimed
  <2> QED BY <1>3, <2>1, <2>2
<1>8. refunds[o].skipped => refunds'[o].skipped
  <2>1. refunds'[o].skipped = (refunds[o].skipped \/ skip)
    BY <1>6 DEF Claimed
  <2> QED BY <2>1, Zenon
<1> QED
  BY <1>4, <1>5, <1>6, <1>7, <1>8

-----------------------------------------------------------------------------
(* The inductive invariant.  Every step but the ones that select, expire,  *)
(* deliver, crash or move VCC on its own is about one order o, lets its    *)
(* row only grow, and may start a refund of it: StepInv says that such a   *)
(* step preserves the invariant, and each action is shown to be one.       *)

UnpaidStatuses == {"pending_payment", "expired"}

\* Row s comes after row r: what is recorded stays recorded.
Grows(r, s) ==
  /\ CtxLegRecorded(r) => CtxLegRecorded(s)
  /\ s.card = r.card /\ s.api_key_id = r.api_key_id
  /\ r.vcc_job_id => s.vcc_job_id
  /\ r.xlm_sent_at => s.xlm_sent_at
  /\ r.status \in TERMINAL => s.status \in TERMINAL
  /\ s.status \in UnpaidStatuses => r.status \in UnpaidStatuses /\ (s.vcc_job_id => r.vcc_job_id)

\* How a call moves the VCC job of order o: it is issued, or it starts to run
\* because of a payment that is on the row.
VccMoves(o) ==
  /\ \A p \in Orders : p # o => vcc'[p] = vcc[p]
  /\ \/ vcc'[o] = vcc[o]
     \/ vcc[o] = "none" /\ vcc'[o] = "invoice_issued"
     \/ vcc[o] = "invoice_issued" /\ vcc'[o] = "running" /\ CtxLegRecorded(row[o])

\* The refunds of order o: none starts, or o is closed and no payment to CTX is
\* on its row; a refund skipped for the freeze stays noted.
RefundsMove(o) ==
  /\ \A p \in Orders : p # o => refunds'[p].claims = refunds[p].claims
  /\ \A p \in Orders : refunds[p].skipped => refunds'[p].skipped
  /\ \/ refunds'[o].claims = refunds[o].claims
     \/ /\ refunds'[o].claims > refunds[o].claims
        /\ row'[o].status \in TERMINAL /\ ~CtxLegRecorded(row[o])

\* The jobs learn nothing new about order p and do not take it up unselected.
JobsKeep(p) ==
  /\ jobs'.snap[p].vcc_job_id => jobs.snap[p].vcc_job_id
  /\ jobs'.snap[p].xlm_sent_at => jobs.snap[p].xlm_sent_at
  /\ p \in jobs'.todo => p \in jobs.todo
  /\ jobs'.cur = p => p \in jobs.todo \/ jobs.cur = p

\* The jobs may be at order p only where they already were.
JobsAway(p) == jobs'.cur = p => jobs.cur = p /\ jobs'.pc = jobs.pc

\* The jobs work on o, or stop to; they take no order they did not select.
JobsMove(o) ==
  /\ \A p \in Orders : JobsKeep(p)
  /\ \A p \in Orders : p # o => JobsAway(p)
  /\ jobs'.cur = o /\ jobs'.pc = "retry_notify" => CtxLegRecorded(row'[o]) \/ vcc'[o] = "failed"
  /\ jobs'.cur = o /\ jobs'.pc = "retry_status" => vcc'[o] # "none"

LEMMA StepInv ==
  ASSUME FulfillmentInv, NEW o \in Orders,
         \A p \in Orders : p # o =>
           row'[p] = row[p] /\ (handler'[p] = handler[p] \/ handler'[p].pc = "idle"),
         Grows(row[o], row'[o]), VccMoves(o), RefundsMove(o), JobsMove(o), spent' = spent,
         row'[o].vcc_job_id => row[o].vcc_job_id \/ vcc'[o] # "none",
         row'[o].xlm_sent_at => \/ row[o].xlm_sent_at \/ CtxLegRecorded(row'[o])
                               \/ vcc'[o] = "failed",
         handler'[o].pc \in {"notify", "notify_again"} => CtxLegRecorded(row'[o]),
         handler'[o].pc = "price" => vcc'[o] # "none",
         row'[o].status \in UnpaidStatuses => handler'[o].pc = "idle"
  PROVE  FulfillmentInv'
<1> USE DEF UnpaidStatuses
<1>1. ASSUME NEW p \in Orders, p # o PROVE OrderInv(p)'
  <2>1. /\ OrderInv(p) /\ UNCHANGED <<row[p], vcc[p], refunds[p].claims, spent[p]>>
        /\ handler'[p] = handler[p] \/ handler'[p].pc = "idle"
    BY <1>1 DEF FulfillmentInv, VccMoves, RefundsMove
  <2>2. JobsKeep(p) /\ JobsAway(p)
    BY <1>1 DEF JobsMove
  <2>3. PaidBeforeWorkedOn(p)'
    BY <2>1, <2>2 DEF OrderInv, JobsKeep, JobsAway, PaidBeforeWorkedOn, CtxLegRecorded
  <2>4. JobIdsAreReal(p)'
    BY <2>1, <2>2 DEF OrderInv, JobsKeep, JobsAway, JobIdsAreReal
  <2>5. OutcomesClose(p)' /\ UnpaidIsUntouched(p)'
    BY <2>1, <2>2 DEF OrderInv, JobsKeep, JobsAway, OutcomesClose, UnpaidIsUntouched, CtxLegRecorded
  <2> QED BY <2>3, <2>4, <2>5 DEF OrderInv
<1>2. /\ OrderInv(o) /\ JobsKeep(o)
      /\ jobs'.cur = o /\ jobs'.pc = "retry_status" => vcc'[o] # "none"
      /\ jobs'.cur = o /\ jobs'.pc = "retry_notify"
           => CtxLegRecorded(row'[o]) \/ vcc'[o] = "failed"
  BY DEF FulfillmentInv, JobsMove
<1>3. PaidBeforeWorkedOn(o)'
  BY <1>2 DEF OrderInv, JobsKeep, PaidBeforeWorkedOn, CtxLegRecorded, VccMoves, Grows
<1>4. JobIdsAreReal(o)'
  BY <1>2 DEF OrderInv, JobsKeep, JobIdsAreReal, VccMoves, Grows
<1>5. OutcomesClose(o)'
  BY <1>2 DEF OrderInv, JobsKeep, OutcomesClose, RefundsMove, Grows, CtxLegRecorded
<1>6. UnpaidIsUntouched(o)'
  BY <1>2 DEF OrderInv, JobsKeep, UnpaidIsUntouched, Grows
<1> QED
  BY <1>1, <1>3, <1>4, <1>5, <1>6 DEF FulfillmentInv, OrderInv

\* Jobs that stay where they are; what they had seen still holds.
LEMMA JobsStayInv ==
  ASSUME FulfillmentInv, NEW o \in Orders, jobs' = jobs, VccMoves(o), Grows(row[o], row'[o])
  PROVE  JobsMove(o)
BY DEF FulfillmentInv, OrderInv, PaidBeforeWorkedOn, JobIdsAreReal, JobsMove, JobsKeep,
       JobsAway, VccMoves, Grows

LEMMA CallMovesVcc ==
  ASSUME TypeOK, NEW o \in Orders, NEW ok \in BOOLEAN,
         \/ InvoiceCall(o, ok)
         \/ PaidCall(o, ok) /\ (CtxLegRecorded(row[o]) \/ vcc[o] = "failed")
  PROVE  VccMoves(o) /\ (InvoiceCall(o, ok) /\ ok => vcc'[o] # "none")
BY DEF InvoiceCall, VccInvoice, PaidCall, VccPaid, VccMoves, TypeOK

\* How the UPDATEs of a paid order let its row grow.
LEMMA RowChangeGrows ==
  ASSUME NEW r \in Row, r.status \notin UnpaidStatuses
  PROVE  /\ \A st \in TERMINAL : Grows(r, [r EXCEPT !.status = st])
         /\ Grows(r, [r EXCEPT !.vcc_job_id = TRUE])
         /\ Grows(r, [r EXCEPT !.xlm_sent_at = TRUE])
         /\ Grows(r, [r EXCEPT !.vcc_notified_at = TRUE])
         /\ Grows(r, AttemptCounted(r))
         /\ \A i \in Nat \ {0} : /\ Grows(r, PaidCheckpoint(r, i))
                                /\ CtxLegRecorded(PaidCheckpoint(r, i))
                                /\ Grows(r, AmbiguousPark(r, i))
<1> USE DEF UnpaidStatuses
<1>1. ASSUME NEW st \in TERMINAL PROVE Grows(r, [r EXCEPT !.status = st])
  BY DEF Row, Grows, CtxLegRecorded
<1>2. Grows(r, [r EXCEPT !.vcc_job_id = TRUE])
  BY DEF Row, Grows, CtxLegRecorded
<1>3. Grows(r, [r EXCEPT !.xlm_sent_at = TRUE])
  BY DEF Row, Grows, CtxLegRecorded
<1>4. Grows(r, [r EXCEPT !.vcc_notified_at = TRUE])
  BY DEF Row, Grows, CtxLegRecorded
<1>5. Grows(r, AttemptCounted(r))
  BY DEF AttemptCounted, Row, Grows, CtxLegRecorded
<1>6. ASSUME NEW i \in Nat \ {0}
      PROVE  /\ Grows(r, PaidCheckpoint(r, i)) /\ Grows(r, AmbiguousPark(r, i))
             /\ CtxLegRecorded(PaidCheckpoint(r, i))
  BY DEF Row, Grows, CtxLegRecorded, PaidCheckpoint, AmbiguousPark
<1> QED
  BY <1>1, <1>2, <1>3, <1>4, <1>5, <1>6

\* An UPDATE makes the row what it is meant to be, but for its age.
LEMMA UpdateGrows ==
  ASSUME TypeOK, NEW o \in Orders, NEW r \in Row, Update(o, r), Grows(row[o], r)
  PROVE  Grows(row[o], row'[o])
BY UpdateEffect DEF Grows, SameEvidence, CtxLegRecorded

\* Closing an order and settling it: the row grows, a refund starts only for a
\* row without a CTX payment.
LEMMA SettleGrows ==
  ASSUME TypeOK, NEW o \in Orders, NEW st \in TERMINAL,
         \/ Settle(o, [row[o] EXCEPT !.status = st])
         \/ SettleTwice(o, [row[o] EXCEPT !.status = st])
  PROVE  /\ Grows(row[o], row'[o]) /\ SameEvidence(row'[o], row[o])
         /\ row'[o].status \in TERMINAL /\ RefundsMove(o)
         /\ \A p \in Orders : p # o => row'[p] = row[p]
<1> DEFINE r == [row[o] EXCEPT !.status = st]
<1>1. row[o] \in Row /\ st \in Statuses
  BY DEF TypeOK
<1>2. r \in Row /\ r.status = st /\ SameEvidence(r, row[o])
  BY <1>1, RowChangeTypes, StatusEffect
<1> HIDE DEF r
<1>3. /\ SameEvidence(row'[o], r) /\ row'[o].status \in TERMINAL
      /\ \/ refunds'[o].claims = refunds[o].claims
         \/ ~CtxLegRecorded(r) /\ refunds'[o].claims > refunds[o].claims
      /\ refunds[o].skipped => refunds'[o].skipped
      /\ \A p \in Orders : p # o => row'[p] = row[p] /\ refunds'[p] = refunds[p]
  BY <1>2, SettleEffect DEF r
<1>4. SameEvidence(row'[o], row[o]) /\ (CtxLegRecorded(r) <=> CtxLegRecorded(row[o]))
  BY <1>2, <1>3 DEF SameEvidence, CtxLegRecorded
<1>5. Grows(row[o], row'[o])
  BY <1>3, <1>4 DEF Grows, SameEvidence, CtxLegRecorded, UnpaidStatuses
<1>6. RefundsMove(o)
  BY <1>3, <1>4 DEF RefundsMove
<1> QED
  BY <1>3, <1>4, <1>5, <1>6

\* What every such step of order o does, as seen from outside: the row grows, a
\* refund starts only as RefundsMove says, an order that was not paid for is at
\* most claimed, nothing is charged.
OrderMoves(o) ==
  /\ Grows(row[o], row'[o]) /\ RefundsMove(o) /\ UNCHANGED spent
  /\ \A p \in Orders : p # o => row'[p] = row[p]
  /\ row[o].status \in UnpaidStatuses =>
       /\ refunds'[o].claims = refunds[o].claims
       /\ \/ row'[o].status = row[o].status
          \/ row[o].status = "pending_payment" /\ row'[o].status = "ordering"

GoodStep(o) == FulfillmentInv' /\ OrderMoves(o)

\* The outer catch of the handler.
LEMMA CatchInv ==
  ASSUME TypeOK, FulfillmentInv, NEW o \in Orders, VccMoves(o),
         SettleTwice(o, [row[o] EXCEPT !.status = "failed"]), HandlerTo(o, "idle"),
         UNCHANGED <<spent, jobs>>, row[o].status \notin UnpaidStatuses
  PROVE  GoodStep(o)
<1>1. /\ Grows(row[o], row'[o]) /\ SameEvidence(row'[o], row[o])
      /\ row'[o].status \in TERMINAL /\ RefundsMove(o)
      /\ \A p \in Orders : p # o => row'[p] = row[p]
  BY SettleGrows
<1>2. handler'[o].pc = "idle" /\ \A p \in Orders : p # o => handler'[p] = handler[p]
  BY DEF HandlerTo, TypeOK
<1>3. JobsMove(o)
  BY <1>1, JobsStayInv
<1> QED
  BY <1>1, <1>2, <1>3, StepInv DEF SameEvidence, UnpaidStatuses, GoodStep, OrderMoves

\* What the death of the process leaves of the promises.
LEMMA DiesEffect ==
  ASSUME TypeOK, Dies
  PROVE  /\ \A p \in Orders : /\ handler'[p].pc = "idle"
                              /\ refunds'[p].claims = refunds[p].claims
                              /\ refunds'[p].skipped = refunds[p].skipped
                              /\ jobs'.snap[p] = NewRow
         /\ jobs'.cur = NoOrder /\ jobs'.todo = {}
         /\ \A o \in Orders : JobsMove(o)
<1>1. \A p \in Orders : handler'[p].pc = "idle"
  BY DEF Dies, Idle
<1>2. \A p \in Orders : /\ refunds'[p].claims = refunds[p].claims
                        /\ refunds'[p].skipped = refunds[p].skipped
  <2>1. ASSUME NEW f \in RefundState
        PROVE  Forgotten(f).claims = f.claims /\ Forgotten(f).skipped = f.skipped
    BY DEF Forgotten, RefundState
  <2> QED BY <2>1 DEF Dies, TypeOK
<1>3. jobs'.cur = NoOrder /\ jobs'.todo = {} /\ \A p \in Orders : jobs'.snap[p] = NewRow
  BY DEF Dies, NoJob
<1>4. \A o \in Orders : JobsMove(o)
  BY <1>3, NoOrderIsNotAnOrder DEF JobsMove, JobsKeep, JobsAway, NewRow
<1> QED
  BY <1>1, <1>2, <1>3, <1>4

\* Dying between the UPDATE that closes an order and the claim of its refund.
LEMMA DiesUnsettledInv ==
  ASSUME TypeOK, FulfillmentInv, NEW o \in Orders, VccMoves(o), UNCHANGED spent,
         NEW st \in TERMINAL, DiesUnsettled(o, st), row[o].status \notin UnpaidStatuses
  PROVE  GoodStep(o)
<1> DEFINE r == [row[o] EXCEPT !.status = st]
<1>1. row[o] \in Row /\ st \in Statuses
  BY DEF TypeOK
<1>2. /\ r \in Row /\ r.status = st /\ SameEvidence(r, row[o]) /\ Grows(row[o], r)
      /\ Update(o, r) /\ Dies
  BY <1>1, RowChangeTypes, StatusEffect, RowChangeGrows DEF DiesUnsettled
<1> HIDE DEF r
<1>3. /\ SameEvidence(row'[o], r) /\ row'[o].status = st
      /\ \A p \in Orders : p # o => row'[p] = row[p]
      /\ Grows(row[o], row'[o])
  BY <1>2, UpdateEffect, UpdateGrows
<1>4. RefundsMove(o) /\ JobsMove(o) /\ \A p \in Orders : handler'[p].pc = "idle"
  BY <1>2, DiesEffect DEF RefundsMove
<1> QED
  BY <1>2, <1>3, <1>4, StepInv DEF SameEvidence, UnpaidStatuses, GoodStep, OrderMoves

\* The handler moves on and its row grows.
LEMMA HandlerMoveInv ==
  ASSUME TypeOK, FulfillmentInv, NEW o \in Orders, VccMoves(o), NEW pc \in HandlerPcs,
         NEW r \in Row, Grows(row[o], r), Update(o, r) \/ (r = row[o] /\ UNCHANGED row),
         HandlerTo(o, pc), UNCHANGED <<spent, jobs, refunds>>,
         r.vcc_job_id => row[o].vcc_job_id \/ vcc'[o] # "none",
         r.xlm_sent_at => row[o].xlm_sent_at \/ CtxLegRecorded(r),
         pc \in {"notify", "notify_again"} => CtxLegRecorded(r),
         pc = "price" => vcc'[o] # "none",
         r.status \notin UnpaidStatuses,
         \/ row[o].status \notin UnpaidStatuses
         \/ row[o].status = "pending_payment" /\ r.status = "ordering"
  PROVE  GoodStep(o)
<1>1. /\ SameEvidence(row'[o], r) /\ row'[o].status = r.status
      /\ \A p \in Orders : p # o => row'[p] = row[p]
  BY UpdateEffect DEF SameEvidence
<1>2. handler'[o].pc = pc /\ \A p \in Orders : p # o => handler'[p] = handler[p]
  BY DEF HandlerTo, TypeOK
<1>3. Grows(row[o], row'[o])
  BY UpdateGrows
<1>4. JobsMove(o) /\ RefundsMove(o)
  BY <1>3, JobsStayInv DEF RefundsMove
<1> QED
  BY <1>1, <1>2, <1>3, <1>4, StepInv DEF SameEvidence, CtxLegRecorded, GoodStep, OrderMoves

\* What the invariant says of an order somebody is working on.
LEMMA WorkedOnFacts ==
  ASSUME TypeOK, FulfillmentInv, NEW o \in Orders
  PROVE  /\ OrderInv(o)
         /\ \/ handler[o].pc # "idle" \/ o \in jobs.todo \/ jobs.cur = o \/ row[o].vcc_job_id
            \/ row[o].status \in TERMINAL
            => row[o].status \notin UnpaidStatuses
         /\ row[o] \in Row
BY DEF FulfillmentInv, OrderInv, UnpaidIsUntouched, UnpaidStatuses, TypeOK

\* The throw of a call moves VCC as its answer would.
LEMMA HandlerThrowsMoves ==
  ASSUME TypeOK, FulfillmentInv, NEW o \in Orders, HandlerThrows(o)
  PROVE  VccMoves(o) /\ row[o].status \notin UnpaidStatuses
<1>1. OrderInv(o) /\ handler[o].pc # "idle"
  BY WorkedOnFacts DEF HandlerThrows, HandlerAt
<1>2. row[o].status \notin UnpaidStatuses
  BY <1>1, WorkedOnFacts
<1>3. CASE UNCHANGED vcc
  BY <1>2, <1>3 DEF VccMoves
<1>4. CASE InvoiceCall(o, FALSE)
  BY <1>2, <1>4, CallMovesVcc
<1>5. CASE PaidCall(o, FALSE) /\ (HandlerAt(o, "notify") \/ HandlerAt(o, "notify_again"))
  <2>1. CtxLegRecorded(row[o])
    BY <1>1, <1>5 DEF HandlerAt, OrderInv, PaidBeforeWorkedOn
  <2> QED BY <1>2, <1>5, <2>1, CallMovesVcc
<1> QED
  BY <1>2, <1>3, <1>4, <1>5 DEF HandlerThrows

\* handlePayment from its claim on preserves the invariant.
LEMMA HandlerInv ==
  ASSUME TypeOK, FulfillmentInv, NEW o \in Orders, ClaimPayment(o) \/ HandlerStep(o)
  PROVE  GoodStep(o)
<1>1. /\ row[o] \in Row /\ handler[o].tx \in Nat /\ OrderInv(o)
      /\ handler[o].pc # "idle" => row[o].status \notin UnpaidStatuses
  BY WorkedOnFacts DEF TypeOK
<1>2. Grows(row[o], row[o]) /\ (vcc' = vcc => VccMoves(o))
  BY <1>1 DEF Grows, VccMoves
<1>3. CASE ClaimPayment(o)
  <2> DEFINE r == [row[o] EXCEPT !.status = "ordering"]
  <2>1. r \in Row /\ r.status = "ordering" /\ SameEvidence(r, row[o])
    BY <1>1, RowChangeTypes, StatusEffect
  <2>2. Update(o, r) /\ HandlerTo(o, "invoice") /\ UNCHANGED <<spent, jobs, refunds, vcc>>
    BY <1>3 DEF ClaimPayment
  <2>3. row[o].status = "pending_payment"
    BY <1>3 DEF ClaimPayment
  <2> HIDE DEF r
  <2>4. Grows(row[o], r)
    BY <2>1, <2>3 DEF Grows, SameEvidence, CtxLegRecorded, UnpaidStatuses
  <2> QED BY <1>2, <2>1, <2>2, <2>3, <2>4, HandlerMoveInv DEF SameEvidence, UnpaidStatuses
<1>4. CASE InvoiceAnswered(o)
  <2>1. InvoiceCall(o, TRUE) /\ HandlerTo(o, "price") /\ UNCHANGED <<row, refunds, spent, jobs>>
    BY <1>4 DEF InvoiceAnswered, InvoiceCall
  <2>2. VccMoves(o) /\ vcc'[o] # "none"
    BY <2>1, CallMovesVcc
  <2>3. handler[o].pc # "idle"
    BY <1>4 DEF InvoiceAnswered, HandlerAt
  <2> QED BY <1>1, <1>2, <2>1, <2>2, <2>3, HandlerMoveInv
<1>5. CASE PersistInvoice(o)
  <2> DEFINE r == [row[o] EXCEPT !.vcc_job_id = TRUE]
  <2>1. row[o].status \notin UnpaidStatuses /\ vcc[o] # "none"
    BY <1>1, <1>5 DEF PersistInvoice, HandlerAt, OrderInv, JobIdsAreReal
  <2>2. r \in Row /\ Grows(row[o], r)
    BY <1>1, <2>1, RowChangeTypes, RowChangeGrows
  <2>3. r.status = row[o].status /\ r.xlm_sent_at = row[o].xlm_sent_at
    BY <1>1 DEF Row
  <2>4. Update(o, r) /\ HandlerTo(o, "pay") /\ UNCHANGED <<spent, jobs, refunds, vcc>>
    BY <1>5 DEF PersistInvoice
  <2> HIDE DEF r
  <2> QED BY <1>2, <2>1, <2>2, <2>3, <2>4, HandlerMoveInv
<1>6. CASE PaySubmit(o)
  <2>1. UNCHANGED <<row, spent, refunds, jobs, vcc>>
    BY <1>6 DEF PaySubmit
  <2>2. \A p \in Orders : handler'[p].pc = handler[p].pc
    BY <1>6 DEF PaySubmit, TypeOK
  <2>3. FulfillmentInv'
    BY <2>1, <2>2 DEF FulfillmentInv, OrderInv, PaidBeforeWorkedOn, JobIdsAreReal,
       OutcomesClose, UnpaidIsUntouched, CtxLegRecorded
  <2> QED BY <1>2, <2>1, <2>3 DEF GoodStep, OrderMoves, RefundsMove
<1>7. CASE HandlerFails(o)
  BY <1>7, HandlerThrowsMoves, CatchInv DEF HandlerFails
<1>8. CASE PayAnswered(o)
  <2>1. /\ row[o].status \notin UnpaidStatuses /\ handler[o].tx \in Nat \ {0}
        /\ VccMoves(o) /\ UNCHANGED <<spent, jobs, vcc>>
    BY <1>1, <1>2, <1>8 DEF PayAnswered, HandlerAt
  <2>3. CASE /\ Update(o, PaidCheckpoint(row[o], handler[o].tx))
             /\ HandlerTo(o, "notify") /\ UNCHANGED refunds
    <3> DEFINE r == PaidCheckpoint(row[o], handler[o].tx)
    <3>1. r \in Row /\ Grows(row[o], r) /\ CtxLegRecorded(r)
      BY <1>1, <2>1, RowChangeTypes, RowChangeGrows
    <3>2. r.vcc_job_id = row[o].vcc_job_id /\ r.status = row[o].status
      BY <1>1 DEF PaidCheckpoint, Row
    <3> HIDE DEF r
    <3> QED BY <2>1, <2>3, <3>1, <3>2, HandlerMoveInv DEF r
  <2>4. CASE /\ Update(o, AmbiguousPark(row[o], handler[o].tx))
             /\ HandlerTo(o, "idle") /\ UNCHANGED refunds
    <3> DEFINE r == AmbiguousPark(row[o], handler[o].tx)
    <3>1. r \in Row /\ Grows(row[o], r)
      BY <1>1, <2>1, RowChangeTypes, RowChangeGrows
    <3>2. /\ r.vcc_job_id = row[o].vcc_job_id /\ r.xlm_sent_at = row[o].xlm_sent_at
          /\ r.status = "failed"
      BY <1>1 DEF AmbiguousPark, Row
    <3> HIDE DEF r
    <3> QED BY <2>1, <2>4, <3>1, <3>2, HandlerMoveInv DEF r, UnpaidStatuses
  <2> QED BY <1>8, <2>3, <2>4 DEF PayAnswered
<1>9. CASE NotifyAnswered(o) \/ NotifyAgainAnswered(o)
  <2>1. /\ PaidCall(o, TRUE)
        /\ \/ HandlerTo(o, "notify_again") /\ UNCHANGED <<row, refunds>>
           \/ /\ Update(o, [row[o] EXCEPT !.vcc_notified_at = TRUE])
              /\ HandlerTo(o, "idle") /\ UNCHANGED refunds
    BY <1>9 DEF NotifyAnswered, NotifyAgainAnswered, PaidCall
  <2>2. CtxLegRecorded(row[o]) /\ row[o].status \notin UnpaidStatuses
    BY <1>1, <1>9 DEF NotifyAnswered, NotifyAgainAnswered, HandlerAt, OrderInv,
                     PaidBeforeWorkedOn
  <2>3. VccMoves(o) /\ UNCHANGED <<spent, jobs>>
    BY <1>9, <2>1, <2>2, CallMovesVcc DEF NotifyAnswered, NotifyAgainAnswered
  <2>5. CASE HandlerTo(o, "notify_again") /\ UNCHANGED <<row, refunds>>
    BY <1>1, <1>2, <2>2, <2>3, <2>5, HandlerMoveInv
  <2>6. CASE /\ Update(o, [row[o] EXCEPT !.vcc_notified_at = TRUE])
             /\ HandlerTo(o, "idle") /\ UNCHANGED refunds
    <3> DEFINE r == [row[o] EXCEPT !.vcc_notified_at = TRUE]
    <3>1. r \in Row /\ Grows(row[o], r)
      BY <1>1, <2>2, RowChangeTypes, RowChangeGrows
    <3>2. /\ r.vcc_job_id = row[o].vcc_job_id /\ r.xlm_sent_at = row[o].xlm_sent_at
          /\ r.status = row[o].status
      BY <1>1 DEF Row
    <3> HIDE DEF r
    <3> QED BY <2>2, <2>3, <2>6, <3>1, <3>2, HandlerMoveInv DEF r
  <2> QED BY <2>1, <2>5, <2>6
<1> QED
  BY <1>3, <1>4, <1>5, <1>6, <1>7, <1>8, <1>9 DEF HandlerStep

\* A step of order o that changes only its row, which grows.
LEMMA RowStepInv ==
  ASSUME TypeOK, FulfillmentInv, NEW o \in Orders, Grows(row[o], row'[o]), RefundsMove(o),
         \/ row[o].status \notin UnpaidStatuses
         \/ row' = row /\ refunds'[o].claims = refunds[o].claims,
         \A p \in Orders : p # o => row'[p] = row[p], UNCHANGED <<spent, handler, jobs, vcc>>,
         row'[o].vcc_job_id => row[o].vcc_job_id, row'[o].xlm_sent_at => row[o].xlm_sent_at
  PROVE  GoodStep(o)
<1>1. VccMoves(o)
  BY DEF VccMoves
<1>2. JobsMove(o)
  BY <1>1, JobsStayInv
<1>3. OrderInv(o) /\ CtxLegRecorded(row[o]) => CtxLegRecorded(row'[o])
  BY DEF Grows
<1>4. OrderInv(o)
  BY DEF FulfillmentInv
<1>5. handler[o].pc \in {"notify", "notify_again"} => CtxLegRecorded(row'[o])
  BY <1>3, <1>4 DEF OrderInv, PaidBeforeWorkedOn
<1>6. /\ handler[o].pc = "price" => vcc[o] # "none"
      /\ row'[o].status \in UnpaidStatuses => handler[o].pc = "idle"
  BY <1>4 DEF OrderInv, JobIdsAreReal, UnpaidIsUntouched, Grows, UnpaidStatuses
<1> QED
  BY <1>1, <1>2, <1>5, <1>6, StepInv DEF GoodStep, OrderMoves

\* Only a refund that was claimed is sent.
SentIsClaimed(f) == f.start > 0 \/ f.held # {} => f.claims > 0
RefundsAreClaimed(o) == SentIsClaimed(refunds[o])

\* The sends of scheduleRefund preserve it.
LEMMA RefundInv ==
  ASSUME TypeOK, FulfillmentInv, NEW o \in Orders, RefundStep(o), RefundsAreClaimed(o)
  PROVE  GoodStep(o)
<1>1. row[o] \in Row /\ Grows(row[o], row[o])
  BY WorkedOnFacts DEF Grows
<1>2. CASE RefundSubmit(o) \/ RefundNotSubmitted(o)
  <2>1. UNCHANGED <<row, spent, handler, jobs, vcc>>
    BY <1>2 DEF RefundSubmit, RefundNotSubmitted
  <2>2. \A p \in Orders : /\ refunds'[p].claims = refunds[p].claims
                         /\ refunds'[p].skipped = refunds[p].skipped
    <3>1. PICK f : /\ refunds' = [refunds EXCEPT ![o] = f]
                   /\ f.claims = refunds[o].claims /\ f.skipped = refunds[o].skipped
      <4>1. refunds[o] \in RefundState
        BY DEF TypeOK
      <4>2. ASSUME NEW f \in RefundState
            PROVE  /\ \A i : /\ Submitted(f, i).claims = f.claims
                            /\ Submitted(f, i).skipped = f.skipped
                   /\ Dropped(f).claims = f.claims /\ Dropped(f).skipped = f.skipped
        BY DEF RefundState, Submitted, Dropped
      <4>3. \/ \E i : refunds' = [refunds EXCEPT ![o] = Submitted(@, i)]
            \/ refunds' = [refunds EXCEPT ![o] = Dropped(@)]
        BY <1>2 DEF RefundSubmit, RefundNotSubmitted
      <4> QED BY <4>1, <4>2, <4>3
    <3> QED BY <3>1 DEF TypeOK
  <2> QED BY <1>1, <2>1, <2>2, RowStepInv DEF RefundsMove
<1>3. ASSUME NEW i \in refunds[o].held, RefundAnswered(o, i)
      PROVE  GoodStep(o)
  <2>1. i \in Nat /\ row[o].status \notin UnpaidStatuses
    <3>1. row[o].status \in TERMINAL
      BY WorkedOnFacts DEF RefundsAreClaimed, SentIsClaimed, OrderInv, OutcomesClose
    <3> QED BY <3>1 DEF TypeOK, RefundState, UnpaidStatuses
  <2>2. UNCHANGED <<spent, handler, jobs, vcc>> /\ RefundsMove(o)
    BY <1>3 DEF RefundAnswered, Answered, RefundsMove, TypeOK
  <2>3. ASSUME NEW r \in Row, Grows(row[o], r), r.vcc_job_id = row[o].vcc_job_id,
               r.xlm_sent_at = row[o].xlm_sent_at, Update(o, r)
        PROVE  GoodStep(o)
    BY <2>1, <2>2, <2>3, UpdateEffect, UpdateGrows, RowStepInv DEF SameEvidence
  <2>4. CASE Update(o, [row[o] EXCEPT !.status = "refunded", !.refund_stellar_txid = i])
    <3> DEFINE r == [row[o] EXCEPT !.status = "refunded", !.refund_stellar_txid = i]
    <3>1. r \in Row
      BY <1>1, <2>1, RowChangeTypes
    <3>2. /\ r.vcc_job_id = row[o].vcc_job_id /\ r.xlm_sent_at = row[o].xlm_sent_at
          /\ Grows(row[o], r)
      BY <1>1 DEF Grows, CtxLegRecorded, Row, UnpaidStatuses
    <3> HIDE DEF r
    <3> QED BY <2>3, <2>4, <3>1, <3>2 DEF r
  <2>5. CASE Update(o, [row[o] EXCEPT !.refund_stellar_txid = IF @ = 0 THEN i ELSE @])
    <3> DEFINE r == [row[o] EXCEPT !.refund_stellar_txid = IF @ = 0 THEN i ELSE @]
    <3>1. r \in Row
      BY <1>1, <2>1, RowChangeTypes
    <3>2. /\ r.vcc_job_id = row[o].vcc_job_id /\ r.xlm_sent_at = row[o].xlm_sent_at
          /\ Grows(row[o], r)
      BY <1>1 DEF Grows, CtxLegRecorded, Row, UnpaidStatuses
    <3> HIDE DEF r
    <3> QED BY <2>3, <2>5, <3>1, <3>2 DEF r
  <2>6. CASE UNCHANGED row
    BY <1>1, <2>1, <2>2, <2>6, RowStepInv
  <2> QED BY <1>3, <2>4, <2>5, <2>6 DEF RefundAnswered
<1> QED
  BY <1>2, <1>3 DEF RefundStep

\* A delivery: the card is stored, and charged for at most once.
Delivers(o) ==
  /\ StoreCard(o)
  /\ Charge(o) \/ (UNCHANGED spent /\ Dies)
  /\ \A p \in Orders : /\ refunds'[p].claims = refunds[p].claims
                       /\ refunds'[p].skipped = refunds[p].skipped

\* What the order was before it, and what is charged.
LEMMA DeliversEffect ==
  ASSUME TypeOK, FulfillmentInv, NEW o \in Orders, Delivers(o)
  PROVE  /\ CtxLegRecorded(row[o]) /\ ~row[o].card /\ row[o].status \notin TERMINAL
         /\ row[o].status \notin UnpaidStatuses
         /\ refunds[o].claims = 0 /\ spent[o] = 0
         /\ spent'[o] <= 1 /\ (spent'[o] > 0 => row[o].api_key_id) /\ spent'[o] \in Nat
         /\ Charge(o) /\ row[o].api_key_id => spent'[o] = 1
         /\ \A p \in Orders : p # o => row'[p] = row[p] /\ spent'[p] = spent[p]
         /\ row'[o].card /\ row'[o].status = "delivered"
         /\ row'[o].vcc_job_id = row[o].vcc_job_id /\ row'[o].xlm_sent_at = row[o].xlm_sent_at
         /\ row'[o].ctx_stellar_txid = row[o].ctx_stellar_txid
         /\ row'[o].api_key_id = row[o].api_key_id
<1> DEFINE r == [row[o] EXCEPT !.status = "delivered", !.card = TRUE]
<1>1. row[o] \in Row /\ OrderInv(o) /\ row[o].vcc_job_id
  BY WorkedOnFacts DEF Delivers, StoreCard
<1>2. /\ CtxLegRecorded(row[o]) /\ ~row[o].card /\ row[o].status \notin TERMINAL
      /\ refunds[o].claims = 0 /\ spent[o] = 0
  BY <1>1 DEF Delivers, StoreCard, Deliverable, OrderInv, PaidBeforeWorkedOn,
     OutcomesClose, TypeOK, RefundState
<1>3. row[o].status \notin UnpaidStatuses
  BY <1>1, WorkedOnFacts
<1>4. /\ r \in Row /\ r.status = "delivered" /\ r.card
      /\ r.vcc_job_id = row[o].vcc_job_id /\ r.xlm_sent_at = row[o].xlm_sent_at
      /\ r.ctx_stellar_txid = row[o].ctx_stellar_txid /\ r.api_key_id = row[o].api_key_id
  BY <1>1 DEF Row
<1>5. /\ spent'[o] = spent[o] \/ (row[o].api_key_id /\ spent'[o] = spent[o] + 1)
      /\ Charge(o) /\ row[o].api_key_id => spent'[o] = spent[o] + 1
      /\ \A p \in Orders : p # o => spent'[p] = spent[p]
  BY DEF Delivers, Charge, TypeOK
<1>6. Update(o, r)
  BY DEF Delivers, StoreCard
<1> HIDE DEF r
<1>7. /\ SameEvidence(row'[o], r) /\ row'[o].status = "delivered"
      /\ \A p \in Orders : p # o => row'[p] = row[p]
  BY <1>4, <1>6, UpdateEffect
<1> QED
  BY <1>2, <1>3, <1>4, <1>5, <1>7 DEF SameEvidence

\* A delivery preserves it: the order was paid at CTX and open, hence without a
\* refund.  The promises go on, or the process dies with it.
LEMMA DeliverInv ==
  ASSUME TypeOK, FulfillmentInv, NEW o \in Orders, Delivers(o), UNCHANGED vcc,
         Dies \/ UNCHANGED <<handler, jobs>>
  PROVE  FulfillmentInv'
<1>1. /\ CtxLegRecorded(row[o]) /\ refunds[o].claims = 0
      /\ spent'[o] <= 1 /\ (spent'[o] > 0 => row[o].api_key_id)
      /\ \A p \in Orders : p # o => row'[p] = row[p] /\ spent'[p] = spent[p]
      /\ row'[o].card /\ row'[o].status = "delivered"
      /\ row'[o].vcc_job_id = row[o].vcc_job_id /\ row'[o].xlm_sent_at = row[o].xlm_sent_at
      /\ row'[o].ctx_stellar_txid = row[o].ctx_stellar_txid
      /\ row'[o].api_key_id = row[o].api_key_id
  BY DeliversEffect
<1>2. \A p \in Orders : refunds'[p].claims = refunds[p].claims
  BY DEF Delivers
<1>3. \A p \in Orders :
        /\ handler'[p] = handler[p] \/ handler'[p].pc = "idle"
        /\ jobs'.snap[p] = jobs.snap[p] \/ jobs'.snap[p] = NewRow
        /\ p \in jobs'.todo => p \in jobs.todo
        /\ jobs'.cur = p => jobs.cur = p /\ jobs'.pc = jobs.pc
  BY DiesEffect, NoOrderIsNotAnOrder
<1>4. ~NewRow.vcc_job_id /\ ~NewRow.xlm_sent_at
  BY DEF NewRow
<1>5. OrderInv(o) /\ UNCHANGED vcc
  BY WorkedOnFacts
<1>6. OrderInv(o)'
  <2>1. (PaidBeforeWorkedOn(o) /\ JobIdsAreReal(o))'
    BY <1>1, <1>3, <1>4, <1>5 DEF OrderInv, PaidBeforeWorkedOn, JobIdsAreReal, CtxLegRecorded
  <2>2. (OutcomesClose(o) /\ UnpaidIsUntouched(o))'
    BY <1>1, <1>2 DEF OutcomesClose, UnpaidIsUntouched, CtxLegRecorded
  <2> QED BY <2>1, <2>2 DEF OrderInv
<1>7. ASSUME NEW p \in Orders, p # o PROVE OrderInv(p)'
  <2>1. OrderInv(p) /\ row'[p] = row[p] /\ spent'[p] = spent[p] /\ UNCHANGED vcc
    BY <1>1, <1>7 DEF FulfillmentInv
  <2>2. (PaidBeforeWorkedOn(p) /\ JobIdsAreReal(p))'
    BY <1>3, <1>4, <2>1 DEF OrderInv, PaidBeforeWorkedOn, JobIdsAreReal, CtxLegRecorded
  <2>3. (OutcomesClose(p) /\ UnpaidIsUntouched(p))'
    BY <1>2, <1>3, <2>1 DEF OrderInv, OutcomesClose, UnpaidIsUntouched, CtxLegRecorded
  <2> QED BY <2>2, <2>3 DEF OrderInv
<1> QED BY <1>6, <1>7 DEF FulfillmentInv

\* A failed one settles an order that was paid for.
LEMMA CallbackFailedInv ==
  ASSUME TypeOK, FulfillmentInv, NEW o \in Orders, CallbackFailed(o)
  PROVE  GoodStep(o)
<1>1. /\ FailedTarget(row[o]) \in TERMINAL
      /\ Settle(o, [row[o] EXCEPT !.status = FailedTarget(row[o])])
      /\ UNCHANGED <<spent, handler, jobs, vcc>>
  BY DEF CallbackFailed, FailedTarget
<1>2. row[o].status \notin UnpaidStatuses
  BY WorkedOnFacts DEF CallbackFailed, FailureAccepted
<1> QED BY <1>1, <1>2, SettleGrows, RowStepInv DEF SameEvidence

\* So do VCC's own moves, the ledger and time.
LEMMA OutsideInv ==
  ASSUME TypeOK, FulfillmentInv, NEW o \in Orders, VccStep(o) \/ LedgerStep(o) \/ GrowOlder(o)
  PROVE  GoodStep(o)
<1>1. row[o] \in Row /\ OrderInv(o) /\ o \in DOMAIN row /\ Grows(row[o], row[o])
  BY WorkedOnFacts DEF TypeOK, Grows
<1>2. CASE VccStep(o)
  <2>1. /\ UNCHANGED <<row, spent, handler, refunds, jobs>>
        /\ vcc[o] # "none" /\ vcc'[o] \in {"delivered", "failed"}
        /\ vcc'[o] = "delivered" => vcc[o] = "running"
        /\ \A p \in Orders : p # o => vcc'[p] = vcc[p]
    BY <1>2 DEF VccStep, VccDelivers, VccFails, TypeOK
  <2>2. OrderInv(o)'
    BY <1>1, <2>1 DEF OrderInv, PaidBeforeWorkedOn, JobIdsAreReal, OutcomesClose,
        UnpaidIsUntouched, CtxLegRecorded
  <2>3. ASSUME NEW p \in Orders, p # o PROVE OrderInv(p)'
    BY <2>1, <2>3 DEF FulfillmentInv, OrderInv, PaidBeforeWorkedOn, JobIdsAreReal,
        OutcomesClose, UnpaidIsUntouched, CtxLegRecorded
  <2> QED BY <1>1, <2>1, <2>2, <2>3 DEF FulfillmentInv, GoodStep, OrderMoves, RefundsMove
<1>3. CASE LedgerStep(o)
  <2>1. UNCHANGED <<row, spent, handler, refunds, jobs, vcc>>
    BY <1>3 DEF LedgerStep, TxLands, TxExpires
  <2>2. FulfillmentInv'
    BY <2>1 DEF FulfillmentInv, OrderInv, PaidBeforeWorkedOn, JobIdsAreReal,
       OutcomesClose, UnpaidIsUntouched, CtxLegRecorded
  <2> QED BY <1>1, <2>1, <2>2 DEF GoodStep, OrderMoves, RefundsMove
<1>4. CASE GrowOlder(o)
  <2>1. /\ row' = [row EXCEPT ![o] = [row[o] EXCEPT !.age = OlderThan[row[o].age]]]
        /\ UNCHANGED <<spent, handler, refunds, jobs, vcc>>
        /\ row[o].status \notin UnpaidStatuses
    BY <1>4 DEF GrowOlder, TypeOK, UnpaidStatuses
  <2>2. ASSUME NEW r \in Row PROVE LET s == [r EXCEPT !.age = OlderThan[r.age]] IN
          Grows(r, s) /\ SameEvidence(s, r)
    BY DEF Grows, SameEvidence, CtxLegRecorded, Row, UnpaidStatuses, OlderThan
  <2>3. Grows(row[o], row'[o]) /\ SameEvidence(row'[o], row[o])
    BY <1>1, <2>1, <2>2
  <2>4. \A p \in Orders : p # o => row'[p] = row[p]
    BY <2>1 DEF TypeOK
  <2> QED BY <2>1, <2>3, <2>4, RowStepInv DEF SameEvidence, RefundsMove
<1> QED
  BY <1>2, <1>3, <1>4

\* How the jobs move on: back to the loop, to an order they selected, to the
\* next step of the order they are at.
LEMMA JobMoves ==
  ASSUME TypeOK, NEW o \in Orders, NEW pc \in JobPcs,
         pc = "retry_notify" => CtxLegRecorded(row'[o]) \/ vcc'[o] = "failed",
         pc = "retry_status" => vcc'[o] # "none"
  PROVE  /\ Continue(o, pc) => JobsMove(o)
         /\ o \in jobs.todo /\ Take(o, pc) => JobsMove(o)
         /\ jobs.cur = o /\ JobTo(pc) => JobsMove(o)
<1> USE DEF JobsMove, JobsKeep, JobsAway
<1>1. ASSUME Continue(o, pc) PROVE JobsMove(o)
  <2>1. /\ jobs'.cur = NoOrder /\ jobs'.todo = jobs.todo \ {o}
        /\ \A p \in Orders : jobs'.snap[p] = jobs.snap[p] \/ jobs'.snap[p] = NewRow
    BY <1>1 DEF Continue, TypeOK
  <2> QED BY <2>1, NoOrderIsNotAnOrder DEF NewRow
<1>2. ASSUME o \in jobs.todo, Take(o, pc) PROVE JobsMove(o)
  <2>1. /\ jobs'.cur = o /\ jobs'.todo = jobs.todo \ {o}
        /\ jobs'.snap = jobs.snap /\ jobs'.pc = pc
    BY <1>2 DEF Take, TypeOK
  <2> QED BY <1>2, <2>1
<1>3. ASSUME jobs.cur = o, JobTo(pc) PROVE JobsMove(o)
  <2>1. /\ jobs'.cur = o /\ jobs'.todo = jobs.todo
        /\ jobs'.snap = jobs.snap /\ jobs'.pc = pc
    BY <1>3 DEF JobTo, TypeOK
  <2> QED BY <1>3, <2>1
<1> QED
  BY <1>1, <1>2, <1>3

\* A step of the jobs at an order they work on, whose row grows.
LEMMA JobAtOrderInv ==
  ASSUME TypeOK, FulfillmentInv, NEW o \in Orders, row[o].status \notin UnpaidStatuses,
         Grows(row[o], row'[o]), \A p \in Orders : p # o => row'[p] = row[p],
         VccMoves(o), RefundsMove(o), JobsMove(o), UNCHANGED <<spent, handler>>,
         row'[o].vcc_job_id => row[o].vcc_job_id \/ vcc'[o] # "none",
         row'[o].xlm_sent_at => \/ row[o].xlm_sent_at \/ CtxLegRecorded(row'[o])
                               \/ vcc'[o] = "failed"
  PROVE  GoodStep(o)
<1>1. OrderInv(o)
  BY DEF FulfillmentInv
<1>2. /\ handler[o].pc \in {"notify", "notify_again"} => CtxLegRecorded(row'[o])
      /\ handler[o].pc = "price" => vcc'[o] # "none"
  BY <1>1 DEF OrderInv, PaidBeforeWorkedOn, JobIdsAreReal, Grows, VccMoves
<1>3. row'[o].status \notin UnpaidStatuses
  BY DEF Grows
<1> QED
  BY <1>2, <1>3, StepInv DEF GoodStep, OrderMoves

\* The same when an UPDATE of the order is all that happens to the tables.
LEMMA JobUpdateInv ==
  ASSUME TypeOK, FulfillmentInv, NEW o \in Orders, row[o].status \notin UnpaidStatuses,
         NEW r \in Row, Grows(row[o], r), Update(o, r) \/ (r = row[o] /\ UNCHANGED row),
         VccMoves(o), JobsMove(o), UNCHANGED <<spent, handler, refunds>>,
         r.vcc_job_id => row[o].vcc_job_id \/ vcc'[o] # "none",
         r.xlm_sent_at => row[o].xlm_sent_at \/ CtxLegRecorded(r) \/ vcc'[o] = "failed"
  PROVE  GoodStep(o)
<1>1. /\ SameEvidence(row'[o], r) /\ \A p \in Orders : p # o => row'[p] = row[p]
  BY UpdateEffect DEF SameEvidence
<1>2. Grows(row[o], row'[o]) /\ RefundsMove(o)
  BY UpdateGrows DEF RefundsMove
<1> QED
  BY <1>1, <1>2, JobAtOrderInv DEF SameEvidence, CtxLegRecorded

\* Hard-failing an order.
LEMMA HardFailInv ==
  ASSUME TypeOK, FulfillmentInv, NEW o \in Orders, row[o].status \notin UnpaidStatuses,
         HardFail(o)
  PROVE  GoodStep(o)
<1>1. VccMoves(o) /\ JobsMove(o) /\ row[o] \in Row /\ Grows(row[o], row[o])
  BY JobMoves DEF HardFail, VccMoves, TypeOK, Grows
<1>2. CASE Settle(o, [row[o] EXCEPT !.status = "failed"])
  BY <1>1, <1>2, SettleGrows, JobAtOrderInv DEF SameEvidence, HardFail
<1>3. CASE UNCHANGED <<row, refunds>>
  BY <1>1, <1>3, JobUpdateInv DEF HardFail
<1> QED
  BY <1>2, <1>3 DEF HardFail

\* What the reconciler knows of the order it is at.
LEMMA AtOrderFacts ==
  ASSUME TypeOK, FulfillmentInv, NEW o \in Orders, o \in jobs.todo \/ jobs.cur = o
  PROVE  /\ row[o] \in Row /\ row[o].status \notin UnpaidStatuses
         /\ Grows(row[o], row[o])
         /\ vcc' = vcc => VccMoves(o)
         /\ jobs.snap[o].vcc_job_id => vcc[o] # "none"
         /\ jobs.snap[o].xlm_sent_at => CtxLegRecorded(row[o]) \/ vcc[o] = "failed"
         /\ jobs.pc = "retry_status" /\ jobs.cur = o => vcc[o] # "none"
         /\ jobs.pc = "retry_notify" /\ jobs.cur = o => CtxLegRecorded(row[o]) \/ vcc[o] = "failed"
<1>1. OrderInv(o) /\ row[o] \in Row
  BY WorkedOnFacts
<1>2. row[o].status \notin UnpaidStatuses /\ Grows(row[o], row[o])
  BY <1>1 DEF OrderInv, UnpaidIsUntouched, UnpaidStatuses, Grows
<1>3. vcc' = vcc => VccMoves(o)
  BY DEF VccMoves
<1> QED
  BY <1>1, <1>2, <1>3 DEF OrderInv, PaidBeforeWorkedOn, JobIdsAreReal

\* reconcileOrderingFulfillment preserves the invariant.
LEMMA ReconcileInv ==
  ASSUME TypeOK, FulfillmentInv, NEW o \in Orders, ReconcileStep(o)
  PROVE  GoodStep(o)
<1>1. o \in jobs.todo \/ jobs.cur = o
  BY DEF ReconcileStep, HardFailNoJob, AskBeforeHardFail, HardFailPostponed,
         HardFailConfirmed, HardFailNoStatus, NoJobToAskAbout, VccGaveUp, AnswerHasNoStatus,
         ClaimAttempt, RetryInvoiceAnswered, RetryStatusAnswered, RetryPaySubmit,
         RetryPayNotSubmitted, RetryPayAnswered, RetryNotifyAnswered
<1>2. /\ row[o] \in Row /\ row[o].status \notin UnpaidStatuses
      /\ Grows(row[o], row[o])
      /\ vcc' = vcc => VccMoves(o)
      /\ jobs.snap[o].vcc_job_id => vcc[o] # "none"
      /\ jobs.snap[o].xlm_sent_at => CtxLegRecorded(row[o]) \/ vcc[o] = "failed"
      /\ jobs.pc = "retry_status" /\ jobs.cur = o => vcc[o] # "none"
      /\ jobs.pc = "retry_notify" /\ jobs.cur = o => CtxLegRecorded(row[o]) \/ vcc[o] = "failed"
  BY <1>1, AtOrderFacts
<1>3. UNCHANGED <<spent, handler>>
  BY DEF ReconcileStep, HardFailNoJob, AskBeforeHardFail, HardFailPostponed,
         HardFailConfirmed, HardFailNoStatus, HardFail, ClaimAttempt, RetryInvoiceAnswered,
         RetryStatusAnswered, RetryPaySubmit, RetryPayNotSubmitted, RetryPayAnswered,
         RetryNotifyAnswered
<1>4. CASE HardFailNoJob(o) \/ HardFailConfirmed(o) \/ HardFailNoStatus(o)
  BY <1>2, <1>4, HardFailInv DEF HardFailNoJob, HardFailConfirmed, HardFailNoStatus
<1>5. CASE AskBeforeHardFail(o)
  <2>1. JobsMove(o) /\ UNCHANGED <<row, refunds, vcc>>
    BY <1>5, JobMoves DEF AskBeforeHardFail
  <2> QED BY <1>2, <1>3, <2>1, JobUpdateInv
<1>6. CASE HardFailPostponed(o)
  <2>1. JobsMove(o) /\ Update(o, row[o]) /\ UNCHANGED <<refunds, vcc>>
    BY <1>6, JobMoves DEF HardFailPostponed, Touch
  <2> QED BY <1>2, <1>3, <2>1, JobUpdateInv
<1>7. CASE ClaimAttempt(o)
  <2>1. UNCHANGED <<refunds, vcc>> /\ VccMoves(o) /\ o \in jobs.todo
    BY <1>2, <1>7 DEF ClaimAttempt
  <2>2. CASE UNCHANGED row /\ Continue(o, "reconciling")
    BY <1>2, <1>3, <2>1, <2>2, JobMoves, JobUpdateInv
  <2>3. CASE /\ Update(o, AttemptCounted(row[o]))
             /\ Take(o, FirstMissingStep(jobs.snap[o]))
    <3> DEFINE r == AttemptCounted(row[o])
               pc == FirstMissingStep(jobs.snap[o])
    <3>1. r \in Row /\ Grows(row[o], r)
      BY <1>2, RowChangeTypes, RowChangeGrows
    <3>2. /\ r.vcc_job_id = row[o].vcc_job_id /\ r.xlm_sent_at = row[o].xlm_sent_at
          /\ r.ctx_stellar_txid = row[o].ctx_stellar_txid
      BY <1>2 DEF AttemptCounted, Row
    <3>3. /\ pc \in JobPcs
          /\ pc = "retry_status" => vcc[o] # "none"
          /\ pc = "retry_notify" => CtxLegRecorded(row[o]) \/ vcc[o] = "failed"
      BY <1>2 DEF FirstMissingStep
    <3>4. Update(o, r) /\ Take(o, pc)
      BY <2>3
    <3> HIDE DEF r, pc
    <3>5. CtxLegRecorded(row[o]) => CtxLegRecorded(row'[o])
      BY <3>1, <3>2, <3>4, UpdateEffect DEF SameEvidence, CtxLegRecorded
    <3>6. JobsMove(o)
      BY <2>1, <3>3, <3>4, <3>5, JobMoves
    <3> QED BY <1>2, <1>3, <2>1, <3>1, <3>2, <3>4, <3>6, JobUpdateInv
  <2> QED BY <1>7, <2>2, <2>3 DEF ClaimAttempt
<1>8. CASE RetryInvoiceAnswered(o)
  <2>1. PICK ok \in BOOLEAN :
          /\ InvoiceCall(o, ok)
          /\ \/ /\ ok
                /\ Update(o, [row[o] EXCEPT !.vcc_job_id = TRUE])
                /\ IF jobs.snap[o].xlm_sent_at THEN ToNotify(o) ELSE JobTo("retry_pay")
             \/ ~ok /\ RetryFails(o)
    BY <1>8 DEF RetryInvoiceAnswered
  <2>2. /\ VccMoves(o) /\ (ok => vcc'[o] # "none") /\ UNCHANGED refunds
        /\ jobs.cur = o
    BY <1>8, <2>1, CallMovesVcc DEF RetryInvoiceAnswered
  <2>3. CASE RetryFails(o)
    BY <1>2, <1>3, <2>2, <2>3, JobMoves, JobUpdateInv DEF RetryFails
  <2>4. CASE /\ ok /\ Update(o, [row[o] EXCEPT !.vcc_job_id = TRUE])
             /\ IF jobs.snap[o].xlm_sent_at THEN ToNotify(o) ELSE JobTo("retry_pay")
    <3> DEFINE r == [row[o] EXCEPT !.vcc_job_id = TRUE]
    <3>1. r \in Row /\ Grows(row[o], r)
      BY <1>2, RowChangeTypes, RowChangeGrows
    <3>2. r.xlm_sent_at = row[o].xlm_sent_at
      BY <1>2 DEF Row
    <3>3. Update(o, r)
      BY <2>4
    <3> HIDE DEF r
    <3>4. CtxLegRecorded(row[o]) => CtxLegRecorded(row'[o])
      BY <3>1, <3>3, UpdateGrows DEF Grows
    <3>5. vcc[o] = "failed" => vcc'[o] = "failed"
      BY <2>2 DEF VccMoves
    <3>6. JobsMove(o)
      BY <1>2, <2>2, <2>4, <3>4, <3>5, JobMoves DEF ToNotify
    <3> QED BY <1>2, <1>3, <2>2, <2>4, <3>1, <3>2, <3>3, <3>6, JobUpdateInv
  <2> QED BY <2>1, <2>3, <2>4
<1>9. CASE RetryStatusAnswered(o)
  <2>1. jobs.cur = o /\ UNCHANGED <<refunds, vcc>> /\ VccMoves(o)
    BY <1>2, <1>9 DEF RetryStatusAnswered
  <2>2. CASE UNCHANGED row /\ (JobTo("retry_pay") \/ Continue(o, "reconciling"))
    BY <1>2, <1>3, <2>1, <2>2, JobMoves, JobUpdateInv
  <2>3. CASE /\ vcc[o] # "invoice_issued"
             /\ Update(o, [row[o] EXCEPT !.xlm_sent_at = TRUE])
             /\ ToNotify(o)
    <3> DEFINE r == [row[o] EXCEPT !.xlm_sent_at = TRUE]
    <3>1. r \in Row /\ Grows(row[o], r)
      BY <1>2, RowChangeTypes, RowChangeGrows
    <3>2. /\ r.vcc_job_id = row[o].vcc_job_id
          /\ r.ctx_stellar_txid = row[o].ctx_stellar_txid
      BY <1>2 DEF Row
    <3>3. Update(o, r)
      BY <2>3
    <3>4. CtxLegRecorded(row[o]) \/ vcc[o] = "failed"
      <4>1. vcc[o] \in {"running", "delivered", "failed"}
        BY <1>2, <1>9, <2>3 DEF RetryStatusAnswered, JobAt, TypeOK
      <4>2. OrderInv(o)
        BY DEF FulfillmentInv
      <4> QED BY <4>1, <4>2 DEF OrderInv, PaidBeforeWorkedOn
    <3> HIDE DEF r
    <3>5. CtxLegRecorded(row[o]) => CtxLegRecorded(row'[o])
      BY <3>1, <3>3, UpdateGrows DEF Grows
    <3>6. JobsMove(o)
      BY <1>2, <2>1, <2>3, <3>4, <3>5, JobMoves DEF ToNotify
    <3> QED BY <1>2, <1>3, <2>1, <3>1, <3>2, <3>3, <3>4, <3>6, JobUpdateInv
            DEF CtxLegRecorded
  <2> QED BY <1>9, <2>2, <2>3 DEF RetryStatusAnswered, RetryFails
<1>10. CASE RetryPaySubmit(o)
  <2>1. /\ UNCHANGED <<row, refunds, vcc>> /\ jobs.pc = "retry_pay"
        /\ jobs'.pc = jobs.pc /\ jobs'.cur = jobs.cur /\ jobs'.todo = jobs.todo
        /\ jobs'.snap = jobs.snap
    BY <1>10 DEF RetryPaySubmit, JobAt, TypeOK
  <2>2. JobsMove(o)
    BY <2>1 DEF JobsMove, JobsKeep, JobsAway
  <2> QED BY <1>2, <1>3, <2>1, <2>2, JobUpdateInv
<1>11. CASE RetryPayNotSubmitted(o)
  <2>1. JobsMove(o) /\ UNCHANGED <<row, refunds, vcc>>
    BY <1>11, JobMoves DEF RetryPayNotSubmitted, RetryFails
  <2> QED BY <1>2, <1>3, <2>1, JobUpdateInv
<1>12. CASE RetryPayAnswered(o)
  <2>1. jobs.cur = o /\ jobs.tx \in Nat \ {0} /\ UNCHANGED <<refunds, vcc>> /\ VccMoves(o)
    BY <1>2, <1>12 DEF RetryPayAnswered, TypeOK
  <2>2. CASE RetryFails(o)
    BY <1>2, <1>3, <2>1, <2>2, JobMoves, JobUpdateInv DEF RetryFails
  <2>3. CASE Update(o, PaidCheckpoint(row[o], jobs.tx)) /\ ToNotify(o)
    <3> DEFINE r == PaidCheckpoint(row[o], jobs.tx)
    <3>1. r \in Row /\ Grows(row[o], r) /\ CtxLegRecorded(r)
      BY <1>2, <2>1, RowChangeTypes, RowChangeGrows
    <3>2. r.vcc_job_id = row[o].vcc_job_id
      BY <1>2 DEF PaidCheckpoint, Row
    <3>3. Update(o, r) /\ ToNotify(o)
      BY <2>3
    <3> HIDE DEF r
    <3>4. CtxLegRecorded(row'[o])
      BY <3>1, <3>3, UpdateEffect DEF SameEvidence, CtxLegRecorded
    <3>5. JobsMove(o)
      BY <2>1, <3>3, <3>4, JobMoves DEF ToNotify
    <3> QED BY <1>2, <1>3, <2>1, <3>1, <3>2, <3>3, <3>5, JobUpdateInv
  <2>4. CASE Update(o, AmbiguousPark(row[o], jobs.tx)) /\ Continue(o, "reconciling")
    <3> DEFINE r == AmbiguousPark(row[o], jobs.tx)
    <3>1. r \in Row /\ Grows(row[o], r)
      BY <1>2, <2>1, RowChangeTypes, RowChangeGrows
    <3>2. r.vcc_job_id = row[o].vcc_job_id /\ r.xlm_sent_at = row[o].xlm_sent_at
      BY <1>2 DEF AmbiguousPark, Row
    <3>3. Update(o, r) /\ JobsMove(o)
      BY <2>4, JobMoves
    <3> HIDE DEF r
    <3> QED BY <1>2, <1>3, <2>1, <3>1, <3>2, <3>3, JobUpdateInv
  <2> QED BY <1>12, <2>2, <2>3, <2>4 DEF RetryPayAnswered
<1>13. CASE RetryNotifyAnswered(o)
  <2>1. PICK ok \in BOOLEAN :
          /\ PaidCall(o, ok)
          /\ \/ /\ Update(o, [row[o] EXCEPT !.vcc_notified_at = TRUE])
                /\ Continue(o, "reconciling")
             \/ RetryFails(o)
    BY <1>13 DEF RetryNotifyAnswered
  <2>2. VccMoves(o) /\ UNCHANGED refunds
    BY <1>2, <1>13, <2>1, CallMovesVcc DEF RetryNotifyAnswered, JobAt
  <2>3. CASE RetryFails(o)
    BY <1>2, <1>3, <2>2, <2>3, JobMoves, JobUpdateInv DEF RetryFails
  <2>4. CASE /\ Update(o, [row[o] EXCEPT !.vcc_notified_at = TRUE])
             /\ Continue(o, "reconciling")
    <3> DEFINE r == [row[o] EXCEPT !.vcc_notified_at = TRUE]
    <3>1. r \in Row /\ Grows(row[o], r)
      BY <1>2, RowChangeTypes, RowChangeGrows
    <3>2. r.vcc_job_id = row[o].vcc_job_id /\ r.xlm_sent_at = row[o].xlm_sent_at
      BY <1>2 DEF Row
    <3>3. Update(o, r) /\ JobsMove(o)
      BY <2>4, JobMoves
    <3> HIDE DEF r
    <3> QED BY <1>2, <1>3, <2>2, <3>1, <3>2, <3>3, JobUpdateInv
  <2> QED BY <2>1, <2>3, <2>4
<1> QED
  BY <1>4, <1>5, <1>6, <1>7, <1>8, <1>9, <1>10, <1>11, <1>12, <1>13 DEF ReconcileStep

\* recoverStuckOrders preserves it.
LEMMA RecoverInv ==
  ASSUME TypeOK, FulfillmentInv, NEW o \in Orders, RecoverStep(o)
  PROVE  GoodStep(o)
<1>1. o \in jobs.todo /\ UNCHANGED <<spent, handler, vcc>> /\ Continue(o, "recovering")
  BY DEF RecoverStep, PollSaysDelivered, PollSaysFailed, FailurePolled, PollSaysNothing
<1>2. /\ row[o] \in Row /\ row[o].status \notin UnpaidStatuses /\ Grows(row[o], row[o])
      /\ VccMoves(o) /\ JobsMove(o)
  BY <1>1, AtOrderFacts, JobMoves
<1>3. CASE PollSaysFailed(o)
  <2>1. /\ FailedTarget(jobs.snap[o]) \in TERMINAL
        /\ Settle(o, [row[o] EXCEPT !.status = FailedTarget(jobs.snap[o])])
    BY <1>3 DEF PollSaysFailed, FailedTarget
  <2> QED BY <1>1, <1>2, <2>1, SettleGrows, JobAtOrderInv DEF SameEvidence
<1>4. CASE PollSaysDelivered(o) \/ PollSaysNothing(o)
  <2>1. (Update(o, row[o]) \/ UNCHANGED row) /\ UNCHANGED refunds
    BY <1>4 DEF PollSaysDelivered, PollSaysNothing, Touch
  <2> QED BY <1>1, <1>2, <2>1, JobUpdateInv
<1> QED
  BY <1>3, <1>4 DEF RecoverStep

\* Jobs that forget what they knew, with the rows as they are.
LEMMA ForgetInv ==
  ASSUME TypeOK, FulfillmentInv, UNCHANGED <<row, spent, vcc>>, jobs'.cur = NoOrder,
         \A p \in Orders : /\ handler'[p] = handler[p] \/ handler'[p].pc = "idle"
                           /\ refunds'[p].claims = refunds[p].claims,
         \A p \in Orders : p \in jobs'.todo => row[p].status \notin UnpaidStatuses,
         \A p \in Orders : jobs'.snap[p] = row[p] \/ jobs'.snap[p] = NewRow
  PROVE  FulfillmentInv'
<1>1. ASSUME NEW p \in Orders PROVE OrderInv(p)'
  <2>1. OrderInv(p) /\ jobs'.cur # p
    BY NoOrderIsNotAnOrder DEF FulfillmentInv
  <2>2. /\ jobs'.snap[p].vcc_job_id => row[p].vcc_job_id
        /\ jobs'.snap[p].xlm_sent_at => row[p].xlm_sent_at
    BY DEF NewRow
  <2>3. /\ p \in jobs'.todo => row[p].status \notin UnpaidStatuses
        /\ handler'[p] = handler[p] \/ handler'[p].pc = "idle"
        /\ refunds'[p].claims = refunds[p].claims
    OBVIOUS
  <2>4. (PaidBeforeWorkedOn(p) /\ JobIdsAreReal(p))'
    BY <2>1, <2>2, <2>3 DEF OrderInv, PaidBeforeWorkedOn, JobIdsAreReal, CtxLegRecorded
  <2>5. (OutcomesClose(p) /\ UnpaidIsUntouched(p))'
    BY <2>1, <2>3 DEF OrderInv, OutcomesClose, UnpaidIsUntouched, CtxLegRecorded,
       UnpaidStatuses
  <2> QED BY <2>4, <2>5 DEF OrderInv
<1> QED
  BY <1>1 DEF FulfillmentInv

\* What the SELECTs of the jobs remember.
LEMMA JobMemory ==
  ASSUME TypeOK, NEW pc, NEW S \in SUBSET Orders, jobs' = NoJob(pc) \/ jobs' = Selected(pc, S)
  PROVE  /\ jobs'.cur = NoOrder /\ jobs'.pc = pc
         /\ \A p \in Orders : /\ p \in jobs'.todo => p \in S /\ jobs' = Selected(pc, S)
                              /\ jobs'.snap[p] = row[p] \/ jobs'.snap[p] = NewRow
<1>1. CASE jobs' = NoJob(pc)
  BY <1>1 DEF NoJob
<1>2. CASE jobs' = Selected(pc, S)
  BY <1>2 DEF Selected, NoJob
<1> QED
  BY <1>1, <1>2

\* The steps of the job loop between orders, a crash and the freeze switch.
LEMMA FrameInv ==
  ASSUME TypeOK, FulfillmentInv,
         ReconcileSelect \/ ReconcileDone \/ RecoverSelect \/ RecoverDone \/ Crash \/ SetFrozen
  PROVE  FulfillmentInv'
<1>1. CASE ReconcileSelect
  <2> DEFINE S == {o \in Orders : NeedsReconcile(row[o])}
  <2>1. \E pc : jobs' = NoJob(pc) \/ jobs' = Selected(pc, S)
    BY <1>1 DEF ReconcileSelect
  <2>2. \A p \in S : row[p].status \notin UnpaidStatuses
    BY DEF NeedsReconcile, UnpaidStatuses
  <2> QED BY <1>1, <2>1, <2>2, JobMemory, ForgetInv DEF ReconcileSelect
<1>2. CASE RecoverSelect
  <2> DEFINE S == {o \in Orders : NeedsPoll(row[o])}
  <2>1. \E pc : jobs' = Selected(pc, S)
    BY <1>2 DEF RecoverSelect
  <2>2. \A p \in S : row[p].status \notin UnpaidStatuses
    BY WorkedOnFacts DEF NeedsPoll
  <2> QED BY <1>2, <2>1, <2>2, JobMemory, ForgetInv DEF RecoverSelect
<1>3. CASE ReconcileDone \/ RecoverDone
  <2>1. \E pc : jobs' = NoJob(pc)
    BY <1>3 DEF ReconcileDone, RecoverDone
  <2>2. /\ jobs'.cur = NoOrder /\ jobs'.todo = {}
        /\ \A p \in Orders : jobs'.snap[p] = NewRow
    BY <2>1 DEF NoJob
  <2> QED BY <1>3, <2>2, ForgetInv DEF ReconcileDone, RecoverDone
<1>4. CASE Crash
  BY <1>4, DiesEffect, ForgetInv DEF Crash
<1>5. CASE SetFrozen
  BY <1>5 DEF SetFrozen, FulfillmentInv, OrderInv, PaidBeforeWorkedOn, JobIdsAreReal,
     OutcomesClose, UnpaidIsUntouched, CtxLegRecorded
<1> QED
  BY <1>1, <1>2, <1>3, <1>4, <1>5

\* expireStaleOrders touches only orders nobody has paid for.
LEMMA ExpireEffect ==
  ASSUME TypeOK, ExpireStaleOrders
  PROVE  /\ \E S \in SUBSET Orders : \A p \in Orders :
              IF p \in S
              THEN /\ row[p].status = "pending_payment" /\ row'[p].status = "expired"
                   /\ SameEvidence(row'[p], row[p])
              ELSE row'[p] = row[p]
         /\ jobs' = NoJob("reconcile") /\ UNCHANGED <<spent, handler, refunds, vcc>>
<1>1. PICK S \in SUBSET {o \in Orders : row[o].status = "pending_payment"} :
        row' = [o \in Orders |-> IF o \in S
                 THEN [row[o] EXCEPT !.status = "expired", !.age = "fresh"] ELSE row[o]]
  BY DEF ExpireStaleOrders
<1>2. ASSUME NEW r \in Row
      PROVE  LET q == [r EXCEPT !.status = "expired", !.age = "fresh"] IN
             q.status = "expired" /\ SameEvidence(q, r)
  BY DEF Row, SameEvidence
<1>3. \A p \in Orders :
        IF p \in S
        THEN /\ row[p].status = "pending_payment" /\ row'[p].status = "expired"
             /\ SameEvidence(row'[p], row[p])
        ELSE row'[p] = row[p]
  <2> TAKE p \in Orders
  <2>1. row[p] \in Row
    BY DEF TypeOK
  <2> QED BY <1>1, <1>2, <2>1
<1> QED
  BY <1>3 DEF ExpireStaleOrders

LEMMA ExpireInv ==
  ASSUME TypeOK, FulfillmentInv, ExpireStaleOrders
  PROVE  FulfillmentInv'
<1>1. /\ jobs'.cur = NoOrder /\ jobs'.todo = {} /\ \A p \in Orders : jobs'.snap[p] = NewRow
      /\ UNCHANGED <<spent, handler, refunds, vcc>> /\ jobs'.pc = "reconcile"
  BY ExpireEffect DEF NoJob
<1>2. ASSUME NEW p \in Orders PROVE OrderInv(p)'
  <2>1. OrderInv(p) /\ jobs'.cur # p /\ p \notin jobs'.todo /\ jobs'.snap[p] = NewRow
    BY <1>1, NoOrderIsNotAnOrder DEF FulfillmentInv
  <2>2. CASE row'[p] = row[p]
    BY <1>1, <2>1, <2>2 DEF OrderInv, PaidBeforeWorkedOn, JobIdsAreReal, OutcomesClose,
       UnpaidIsUntouched, CtxLegRecorded, NewRow
  <2>3. CASE /\ row[p].status = "pending_payment" /\ row'[p].status = "expired"
             /\ SameEvidence(row'[p], row[p])
    BY <1>1, <2>1, <2>3 DEF OrderInv, PaidBeforeWorkedOn, JobIdsAreReal, OutcomesClose,
       UnpaidIsUntouched, CtxLegRecorded, NewRow, SameEvidence
  <2> QED BY <2>2, <2>3, ExpireEffect
<1> QED
  BY <1>2 DEF FulfillmentInv

\* Dying between two statements that close an order preserves it: the order is
\* settled or delivered all the same, as far as the invariant goes.
LEMMA InterruptedInv ==
  ASSUME TypeOK, FulfillmentInv, NEW o \in Orders, InterruptedStep(o)
  PROVE  GoodStep(o) \/ (Delivers(o) /\ FulfillmentInv')
<1>1. \A r : FailedTarget(r) \in TERMINAL
  BY DEF FailedTarget
<1>2. vcc' = vcc => VccMoves(o)
  BY DEF VccMoves
<1>3. CASE HandlerFailsInterrupted(o)
  BY <1>3, HandlerThrowsMoves, DiesUnsettledInv DEF HandlerFailsInterrupted
<1>4. CASE CallbackFulfilledInterrupted(o)
  <2>1. Delivers(o) /\ UNCHANGED vcc /\ Dies
    BY <1>4, DiesEffect DEF CallbackFulfilledInterrupted, Delivers
  <2> QED BY <2>1, DeliverInv
<1>5. CASE CallbackFailedInterrupted(o)
  <2>1. row[o].status \notin UnpaidStatuses
    BY <1>5, WorkedOnFacts DEF CallbackFailedInterrupted, FailureAccepted
  <2> QED BY <1>1, <1>2, <1>5, <2>1, DiesUnsettledInv DEF CallbackFailedInterrupted
<1>6. CASE HardFailInterrupted(o)
  <2>1. row[o].status \notin UnpaidStatuses
    BY <1>6 DEF HardFailInterrupted, UnpaidStatuses
  <2> QED BY <1>2, <1>6, <2>1, DiesUnsettledInv DEF HardFailInterrupted
<1>7. CASE PollSaysFailedInterrupted(o)
  <2>1. row[o].status \notin UnpaidStatuses
    BY <1>7, AtOrderFacts DEF PollSaysFailedInterrupted, FailurePolled
  <2> QED BY <1>1, <1>2, <1>7, <2>1, DiesUnsettledInv DEF PollSaysFailedInterrupted
<1> QED
  BY <1>3, <1>4, <1>5, <1>6, <1>7 DEF InterruptedStep

-----------------------------------------------------------------------------
(* Every step, seen from outside.                                          *)

AllRefundsClaimed == \A o \in Orders : RefundsAreClaimed(o)

ProofInv == TypeOK /\ FulfillmentInv /\ AllRefundsClaimed

\* A step that no outcome depends on.
Quiet ==
  /\ UNCHANGED <<row, spent>>
  /\ \A p \in Orders : /\ refunds'[p].claims = refunds[p].claims
                       /\ refunds'[p].skipped = refunds[p].skipped

\* Every step moves one order, delivers it, expires orders nobody paid for, or
\* is quiet; and it preserves the invariant.
LEMMA StepCases ==
  ASSUME ProofInv, [Next]_vars
  PROVE  /\ FulfillmentInv'
         /\ \/ \E o \in Orders : OrderMoves(o) \/ Delivers(o)
            \/ ExpireStaleOrders \/ Quiet
<1> USE DEF ProofInv
<1>1. ASSUME NEW o \in Orders,
             \/ ClaimPayment(o) \/ HandlerStep(o) \/ CallbackFailed(o) \/ RefundStep(o)
             \/ VccStep(o) \/ LedgerStep(o) \/ GrowOlder(o)
             \/ ReconcileStep(o) \/ RecoverStep(o)
      PROVE  GoodStep(o)
  <2>1. RefundsAreClaimed(o)
    BY DEF AllRefundsClaimed
  <2> QED BY <1>1, <2>1, HandlerInv, CallbackFailedInv, RefundInv, OutsideInv,
             ReconcileInv, RecoverInv
<1>2. ASSUME NEW o \in Orders, CallbackFulfilled(o) PROVE FulfillmentInv' /\ Delivers(o)
  <2>1. Delivers(o) /\ UNCHANGED <<handler, jobs, vcc>>
    BY <1>2 DEF CallbackFulfilled, Delivers
  <2> QED BY <2>1, DeliverInv
<1>3. CASE ReconcileSelect \/ ReconcileDone \/ RecoverSelect \/ RecoverDone \/ Crash \/ SetFrozen
  <2>1. FulfillmentInv'
    BY <1>3, FrameInv
  <2>2. CASE Crash
    BY <2>1, <2>2, DiesEffect DEF Crash, Quiet
  <2>3. CASE ReconcileSelect \/ ReconcileDone \/ RecoverSelect \/ RecoverDone \/ SetFrozen
    <3>1. UNCHANGED <<row, spent, refunds>>
      BY <2>3 DEF ReconcileSelect, ReconcileDone, RecoverSelect, RecoverDone, SetFrozen
    <3> QED BY <2>1, <3>1 DEF Quiet
  <2> QED BY <1>3, <2>2, <2>3
<1>4. CASE ExpireStaleOrders
  BY <1>4, ExpireInv
<1>5. CASE UNCHANGED vars
  BY <1>5 DEF vars, Quiet, FulfillmentInv, OrderInv, PaidBeforeWorkedOn, JobIdsAreReal,
     OutcomesClose, UnpaidIsUntouched, CtxLegRecorded
<1> QED
  BY <1>1, <1>2, <1>3, <1>4, <1>5, InterruptedInv DEF Next, JobStep, CallbackStep, GoodStep

\* Whatever happens to the refunds of one order.
LEMMA SentIsClaimedKept ==
  ASSUME NEW f \in RefundState, SentIsClaimed(f)
  PROVE  /\ \A n \in Nat, skip \in BOOLEAN : SentIsClaimed(Claimed(f, n, skip))
         /\ f.start > 0 => /\ SentIsClaimed(Dropped(f))
                          /\ \A i : SentIsClaimed(Submitted(f, i))
         /\ \A i \in f.held : SentIsClaimed(Answered(f, i))
         /\ SentIsClaimed(Forgotten(f))
BY DEF SentIsClaimed, RefundState, Dropped, Forgotten, Claimed, Submitted, Answered

LEMMA InterruptedDies ==
  ASSUME NEW o, InterruptedStep(o)
  PROVE  Dies /\ frozen' = frozen
BY DEF InterruptedStep, HandlerFailsInterrupted, CallbackFulfilledInterrupted,
   CallbackFailedInterrupted, HardFailInterrupted, PollSaysFailedInterrupted, DiesUnsettled

\* Refunds start through StartSends only, and are sent only once started.
LEMMA ClaimedInv ==
  ASSUME TypeOK, AllRefundsClaimed, [Next]_vars
  PROVE  AllRefundsClaimed'
<1>1. \A o \in Orders : refunds[o] \in RefundState /\ SentIsClaimed(refunds[o])
  BY DEF TypeOK, AllRefundsClaimed, RefundsAreClaimed
<1>2. ASSUME NEW o \in Orders, NEW r, Settle(o, r) \/ SettleTwice(o, r)
      PROVE  \E g : refunds' = [refunds EXCEPT ![o] = g] /\ SentIsClaimed(g)
  <2>1. PICK n \in Nat, skip \in BOOLEAN : StartSends(o, n, skip)
    <3>1. /\ Sends(r) \in Nat /\ Sends(r) + Sends(RefundOrQuarantine(r)) \in Nat
          /\ SkippedFrozen(r) \in BOOLEAN
      BY SendsType DEF SkippedFrozen
    <3> QED BY <1>2, <3>1 DEF Settle, SettleTwice
  <2> QED BY <1>1, <2>1, SentIsClaimedKept DEF StartSends
<1>3. ASSUME NEW o \in Orders, RefundStep(o)
      PROVE  \E g : refunds' = [refunds EXCEPT ![o] = g] /\ SentIsClaimed(g)
  <2>1. CASE RefundSubmit(o)
    BY <1>1, <2>1, SentIsClaimedKept DEF RefundSubmit
  <2>2. CASE RefundNotSubmitted(o)
    BY <1>1, <2>2, SentIsClaimedKept DEF RefundNotSubmitted
  <2>3. ASSUME NEW i \in refunds[o].held, RefundAnswered(o, i)
        PROVE  \E g : refunds' = [refunds EXCEPT ![o] = g] /\ SentIsClaimed(g)
    BY <1>1, <2>3, SentIsClaimedKept DEF RefundAnswered
  <2> QED BY <1>3, <2>1, <2>2, <2>3 DEF RefundStep
<1>4. ASSUME NEW o \in Orders,
             \/ ClaimPayment(o) \/ HandlerStep(o) \/ CallbackStep(o) \/ RefundStep(o)
             \/ VccStep(o) \/ LedgerStep(o) \/ GrowOlder(o)
             \/ ReconcileStep(o) \/ RecoverStep(o)
      PROVE  \/ UNCHANGED refunds
             \/ \E g : refunds' = [refunds EXCEPT ![o] = g] /\ SentIsClaimed(g)
  <2>1. \/ UNCHANGED refunds \/ RefundStep(o)
        \/ \E r : Settle(o, r) \/ SettleTwice(o, r)
    <3>1. CASE ClaimPayment(o) \/ VccStep(o) \/ LedgerStep(o) \/ GrowOlder(o)
      BY <3>1 DEF ClaimPayment, VccStep, VccDelivers, VccFails, LedgerStep, TxLands,
         TxExpires, GrowOlder
    <3>2. CASE HandlerStep(o)
      BY <3>2 DEF HandlerStep, InvoiceAnswered, PersistInvoice, PaySubmit, PayAnswered,
         NotifyAnswered, NotifyAgainAnswered, HandlerFails
    <3>3. CASE CallbackStep(o)
      BY <3>3 DEF CallbackStep, CallbackFulfilled, CallbackFailed
    <3>4. CASE ReconcileStep(o)
      BY <3>4 DEF ReconcileStep, HardFailNoJob, AskBeforeHardFail, HardFailPostponed,
         HardFailConfirmed, HardFailNoStatus, HardFail, ClaimAttempt, RetryInvoiceAnswered,
         RetryStatusAnswered, RetryPaySubmit, RetryPayNotSubmitted, RetryPayAnswered,
         RetryNotifyAnswered
    <3>5. CASE RecoverStep(o)
      BY <3>5 DEF RecoverStep, PollSaysDelivered, PollSaysFailed, PollSaysNothing
    <3> QED BY <1>4, <3>1, <3>2, <3>3, <3>4, <3>5
  <2> QED BY <1>2, <1>3, <2>1
<1>5. CASE Dies
  <2> SUFFICES ASSUME NEW o \in Orders PROVE RefundsAreClaimed(o)'
    BY DEF AllRefundsClaimed
  <2>1. refunds'[o] = Forgotten(refunds[o])
    BY <1>5 DEF Dies
  <2> QED BY <1>1, <2>1, SentIsClaimedKept DEF RefundsAreClaimed
<1>6. ASSUME \/ ExpireStaleOrders \/ ReconcileSelect \/ ReconcileDone
             \/ RecoverSelect \/ RecoverDone \/ SetFrozen \/ UNCHANGED vars
      PROVE  UNCHANGED refunds
  BY <1>6 DEF ExpireStaleOrders, ReconcileSelect, ReconcileDone, RecoverSelect,
     RecoverDone, SetFrozen, vars
<1>7. ASSUME UNCHANGED refunds PROVE AllRefundsClaimed'
  BY <1>7 DEF AllRefundsClaimed, RefundsAreClaimed
<1>8. ASSUME NEW o \in Orders, NEW g, refunds' = [refunds EXCEPT ![o] = g], SentIsClaimed(g)
      PROVE  AllRefundsClaimed'
  BY <1>1, <1>8 DEF AllRefundsClaimed, RefundsAreClaimed, TypeOK
<1>9. ASSUME Crash \/ \E o \in Orders : InterruptedStep(o) PROVE Dies
  BY <1>9, InterruptedDies DEF Crash
<1> QED
  BY <1>4, <1>5, <1>6, <1>7, <1>8, <1>9 DEF Next, JobStep

-----------------------------------------------------------------------------
(* The theorems.                                                           *)

LEMMA InitProofInv == Init => ProofInv
<1> SUFFICES ASSUME Init PROVE ProofInv
  OBVIOUS
<1>1. TypeOK
  BY InitTypeOK
<1>2. PICK keyed : row = [o \in Orders |-> [NewRow EXCEPT !.api_key_id = o \in keyed]]
  BY DEF Init
<1>3. \A o \in Orders :
        /\ row[o].status = "pending_payment" /\ ~row[o].vcc_job_id /\ ~row[o].xlm_sent_at
        /\ ~row[o].card
  BY <1>2 DEF NewRow
<1>4. \A o \in Orders :
        /\ handler[o].pc = "idle" /\ vcc[o] = "none" /\ refunds[o].claims = 0 /\ spent[o] = 0
        /\ jobs.snap[o] = NewRow
  BY DEF Init, Idle, NoJob
<1>5. jobs.cur = NoOrder /\ jobs.todo = {}
  BY DEF Init, NoJob
<1>6. \A o \in Orders : OrderInv(o)
  BY <1>3, <1>4, <1>5, NoOrderIsNotAnOrder DEF NewRow, OrderInv, PaidBeforeWorkedOn,
     JobIdsAreReal, OutcomesClose, UnpaidIsUntouched, CtxLegRecorded
<1>7. AllRefundsClaimed
  BY DEF Init, AllRefundsClaimed, RefundsAreClaimed, SentIsClaimed
<1> QED
  BY <1>1, <1>6, <1>7 DEF ProofInv, FulfillmentInv

LEMMA TypeStep == TypeOK /\ [Next]_vars => TypeOK'
<1> SUFFICES ASSUME TypeOK, [Next]_vars PROVE TypeOK'
  OBVIOUS
<1>1. ASSUME NEW o \in Orders,
             \/ ClaimPayment(o) \/ HandlerStep(o) \/ CallbackStep(o) \/ RefundStep(o)
             \/ VccStep(o) \/ LedgerStep(o) \/ GrowOlder(o) \/ InterruptedStep(o)
      PROVE  TypeOK'
  BY <1>1, HandlerTypeOK, CallbackTypeOK, RefundTypeOK, OutsideTypeOK, InterruptedTypeOK
<1>2. CASE JobStep
  BY <1>2, JobFrameTypeOK, ReconcileTypeOK, RecoverTypeOK
<1>3. CASE Crash \/ SetFrozen
  BY <1>3, CrashTypeOK
<1>4. CASE UNCHANGED vars
  BY <1>4 DEF vars, TypeOK
<1> QED BY <1>1, <1>2, <1>3, <1>4 DEF Next

LEMMA NextProofInv == ProofInv /\ [Next]_vars => ProofInv'
BY TypeStep, StepCases, ClaimedInv DEF ProofInv

\* Every variable keeps its type, and every row the shape of a row.
THEOREM TypeCorrect == Spec => []TypeOK
BY InitTypeOK, TypeStep, PTL DEF Spec

\* The CTX payment is on the row before VCC works on the order, job ids are real,
\* card and refund close the order and exclude each other, unpaid orders are left
\* alone: for any number of orders, attempts, crashes and transactions.
THEOREM FulfillmentInvariant == Spec => []FulfillmentInv
<1>1. ProofInv => FulfillmentInv
  BY DEF ProofInv
<1> QED
  BY <1>1, InitProofInv, NextProofInv, PTL DEF Spec

\* No order ends with a card and a refund, whichever of the handler, the callbacks,
\* the jobs and the crashes raced for it.
THEOREM CardExcludesRefund == Spec => []NeverCardAndRefund
<1>1. FulfillmentInv => NeverCardAndRefund
  BY DEF FulfillmentInv, OrderInv, OutcomesClose, NeverCardAndRefund
<1> QED
  BY <1>1, FulfillmentInvariant, PTL

\* A key is charged at most once for an order, and never without its card.
THEOREM ChargedAtMostOnce == Spec => []ChargedOncePerCard
<1>1. FulfillmentInv => ChargedOncePerCard
  BY DEF FulfillmentInv, OrderInv, OutcomesClose, ChargedOncePerCard
<1> QED
  BY <1>1, FulfillmentInvariant, PTL

\* No step takes an order out of the terminal statuses.
THEOREM TerminalStaysTerminal == Spec => TerminalAbsorbing
<1> DEFINE Stays == \A o \in Orders : row[o].status \in TERMINAL => row'[o].status \in TERMINAL
<1>1. ASSUME ProofInv, [Next]_vars PROVE Stays
  <2>1. ASSUME NEW o \in Orders, OrderMoves(o) PROVE Stays
    BY <2>1 DEF OrderMoves, Grows
  <2>2. ASSUME NEW o \in Orders, Delivers(o) PROVE Stays
    BY <1>1, <2>2, DeliversEffect DEF ProofInv
  <2>3. CASE ExpireStaleOrders
    BY <1>1, <2>3, ExpireEffect DEF ProofInv
  <2>4. CASE Quiet
    BY <2>4 DEF Quiet
  <2> QED BY <1>1, <2>1, <2>2, <2>3, <2>4, StepCases
<1>2. ProofInv /\ [Next]_vars => [Stays]_vars
  BY <1>1
<1> QED
  BY <1>2, InitProofInv, NextProofInv, PTL DEF Spec, TerminalAbsorbing

\* Once the row says that CTX was paid, it goes on saying so and no refund starts.
THEOREM CtxPaidStaysUnrefunded == Spec => CtxPaidIsNeverRefunded
<1> DEFINE Safe == \A o \in Orders : row[o].ctx_stellar_txid # 0 =>
                     row'[o].ctx_stellar_txid # 0 /\ refunds'[o].claims = refunds[o].claims
<1>1. ASSUME ProofInv, [Next]_vars PROVE Safe
  <2>1. ASSUME NEW o \in Orders, OrderMoves(o) PROVE Safe
    BY <2>1 DEF OrderMoves, Grows, RefundsMove, CtxLegRecorded
  <2>2. ASSUME NEW o \in Orders, Delivers(o) PROVE Safe
    BY <1>1, <2>2, DeliversEffect DEF ProofInv, Delivers
  <2>3. CASE ExpireStaleOrders
    BY <1>1, <2>3, ExpireEffect DEF ProofInv, SameEvidence
  <2>4. CASE Quiet
    BY <2>4 DEF Quiet
  <2> QED BY <1>1, <2>1, <2>2, <2>3, <2>4, StepCases
<1>2. ProofInv /\ [Next]_vars => [Safe]_vars
  BY <1>1
<1> QED
  BY <1>2, InitProofInv, NextProofInv, PTL DEF Spec, CtxPaidIsNeverRefunded

-----------------------------------------------------------------------------
(* Refinement: OrderFulfillment implements OrderOutcome.                   *)

phaseBar == [o \in Orders |-> Phase(row[o])]
outcomeBar == [o \in Orders |-> OutcomeOf(row[o], refunds[o])]

\* The phase and the outcome of an order that moves.
LEMMA MoveEffect ==
  ASSUME ProofInv, TypeOK', NEW o \in Orders, OrderMoves(o),
         row[o].status \notin UnpaidStatuses
  PROVE  /\ Phase(row[o]) \in {"working", "closed"}
         /\ \/ /\ Phase(row'[o]) = Phase(row[o])
               /\ OutcomeOf(row'[o], refunds'[o]) = OutcomeOf(row[o], refunds[o])
            \/ /\ Phase(row'[o]) = "closed" /\ OutcomeOf(row[o], refunds[o]) # "card"
               /\ OutcomeOf(row'[o], refunds'[o]) \in {OutcomeOf(row[o], refunds[o]), "refund"}
<1>1. /\ Grows(row[o], row'[o]) /\ RefundsMove(o) /\ OutcomesClose(o)
      /\ row[o] \in Row /\ refunds[o].claims \in Nat /\ refunds'[o].claims \in Nat
  BY DEF ProofInv, TypeOK, RefundState, FulfillmentInv, OrderInv, OrderMoves
<1>2. row'[o].status \notin UnpaidStatuses /\ row'[o].card = row[o].card
  BY <1>1 DEF Grows
<1>3. Phase(row[o]) = IF row[o].status \in TERMINAL THEN "closed" ELSE "working"
  BY DEF Phase, UnpaidStatuses
<1>4. Phase(row'[o]) = IF row'[o].status \in TERMINAL THEN "closed" ELSE "working"
  BY <1>2 DEF Phase, UnpaidStatuses
<1>5. row[o].status \in TERMINAL => row'[o].status \in TERMINAL
  BY <1>1 DEF Grows
<1>6. CASE row[o].card
  <2>1. /\ row[o].status \in TERMINAL /\ OutcomeOf(row[o], refunds[o]) = "card"
        /\ OutcomeOf(row'[o], refunds'[o]) = "card"
    BY <1>1, <1>2, <1>6 DEF OutcomesClose, OutcomeOf
  <2> QED BY <1>3, <1>4, <1>5, <2>1
<1>7. CASE ~row[o].card
  <2>1. /\ OutcomeOf(row[o], refunds[o]) = IF refunds[o].claims > 0 THEN "refund" ELSE "none"
        /\ OutcomeOf(row'[o], refunds'[o]) = IF refunds'[o].claims > 0 THEN "refund" ELSE "none"
    BY <1>2, <1>7 DEF OutcomeOf
  <2>2. CASE refunds'[o].claims = refunds[o].claims
    BY <1>3, <1>4, <1>5, <2>1, <2>2
  <2>3. CASE refunds'[o].claims > refunds[o].claims /\ row'[o].status \in TERMINAL
    <3>1. OutcomeOf(row'[o], refunds'[o]) \in {OutcomeOf(row[o], refunds[o]), "refund"}
      BY <1>1, <2>1, <2>3
    <3> QED BY <1>3, <1>4, <2>1, <2>3, <3>1
  <2> QED BY <1>1, <2>2, <2>3 DEF RefundsMove
<1> QED
  BY <1>3, <1>6, <1>7

\* Every step is a step of OrderOutcome, or stutters.
LEMMA StepImplements ==
  ASSUME ProofInv, [Next]_vars
  PROVE  [Outcome!Next]_Outcome!vars
<1> USE DEF ProofInv
<1>1. ASSUME NEW o \in Orders, OrderMoves(o)
      PROVE  Outcome!Pay(o) \/ Outcome!GiveUp(o) \/ UNCHANGED Outcome!vars
  <2>1. \A p \in Orders : p # o => /\ Phase(row'[p]) = Phase(row[p])
                                  /\ OutcomeOf(row'[p], refunds'[p]) = OutcomeOf(row[p], refunds[p])
    BY <1>1 DEF OrderMoves, RefundsMove, OutcomeOf
  <2>2. UNCHANGED spent
    BY <1>1 DEF OrderMoves
  <2>3. CASE row[o].status \notin UnpaidStatuses
    <3>1. CASE /\ Phase(row'[o]) = Phase(row[o])
               /\ OutcomeOf(row'[o], refunds'[o]) = OutcomeOf(row[o], refunds[o])
      <4>1. phaseBar' = phaseBar /\ outcomeBar' = outcomeBar
        BY <2>1, <3>1 DEF phaseBar, outcomeBar
      <4> QED BY <2>2, <4>1 DEF phaseBar, outcomeBar, Outcome!vars
    <3>2. CASE /\ Phase(row[o]) \in {"working", "closed"} /\ Phase(row'[o]) = "closed"
               /\ OutcomeOf(row[o], refunds[o]) # "card"
               /\ OutcomeOf(row'[o], refunds'[o]) \in {OutcomeOf(row[o], refunds[o]), "refund"}
      <4>1. phaseBar' = [phaseBar EXCEPT ![o] = "closed"]
        BY <2>1, <3>2 DEF phaseBar
      <4>2. outcomeBar' \in {outcomeBar, [outcomeBar EXCEPT ![o] = "refund"]}
        BY <2>1, <3>2 DEF outcomeBar
      <4> QED BY <2>2, <3>2, <4>1, <4>2 DEF phaseBar, outcomeBar, Outcome!GiveUp
    <3> QED BY <1>1, <2>3, <3>1, <3>2, MoveEffect, TypeStep
  <2>4. CASE row[o].status \in UnpaidStatuses
    <3>1. /\ refunds'[o].claims = refunds[o].claims /\ row'[o].card = row[o].card
          /\ \/ row'[o].status = row[o].status
             \/ row[o].status = "pending_payment" /\ row'[o].status = "ordering"
      BY <1>1, <2>4 DEF OrderMoves, Grows
    <3>2. outcomeBar' = outcomeBar
      BY <2>1, <3>1 DEF outcomeBar, OutcomeOf
    <3>3. CASE row'[o].status = row[o].status
      <4>1. phaseBar' = phaseBar
        BY <2>1, <3>3 DEF phaseBar, Phase
      <4> QED BY <2>2, <3>2, <4>1 DEF phaseBar, outcomeBar, Outcome!vars
    <3>4. CASE row[o].status = "pending_payment" /\ row'[o].status = "ordering"
      <4>1. Phase(row[o]) = "open" /\ phaseBar' = [phaseBar EXCEPT ![o] = "working"]
        BY <2>1, <3>4 DEF phaseBar, Phase
      <4> QED BY <2>2, <3>2, <4>1 DEF phaseBar, outcomeBar, Outcome!Pay
    <3> QED BY <3>1, <3>3, <3>4
  <2> QED BY <2>3, <2>4
<1>2. ASSUME NEW o \in Orders, Delivers(o)
      PROVE  Outcome!Deliver(o)
  <2>1. /\ row[o].status \notin TERMINAL /\ row[o].status \notin UnpaidStatuses
        /\ ~row[o].card /\ refunds[o].claims = 0
        /\ row'[o].status = "delivered" /\ row'[o].card
        /\ \A p \in Orders : p # o => row'[p] = row[p]
    BY <1>2, DeliversEffect
  <2>2. \A p \in Orders : refunds'[p].claims = refunds[p].claims
    BY <1>2 DEF Delivers
  <2>3. spent' \in {spent, [spent EXCEPT ![o] = @ + 1]}
    <3>1. [spent EXCEPT ![o] = @] = spent
      BY DEF TypeOK
    <3> QED BY <1>2, <3>1 DEF Delivers, Charge
  <2>4. Phase(row[o]) = "working" /\ OutcomeOf(row[o], refunds[o]) = "none"
    BY <2>1 DEF Phase, OutcomeOf, UnpaidStatuses
  <2>5. phaseBar' = [phaseBar EXCEPT ![o] = "closed"]
    BY <2>1 DEF phaseBar, Phase
  <2>6. outcomeBar' = [outcomeBar EXCEPT ![o] = "card"]
    BY <2>1, <2>2 DEF outcomeBar, OutcomeOf
  <2> QED BY <2>3, <2>4, <2>5, <2>6 DEF phaseBar, outcomeBar, Outcome!Deliver
<1>3. ASSUME ExpireStaleOrders
      PROVE  \E S \in SUBSET Orders : Outcome!Expire(S)
  <2>1. PICK S \in SUBSET Orders : \A p \in Orders :
          IF p \in S
          THEN /\ row[p].status = "pending_payment" /\ row'[p].status = "expired"
               /\ SameEvidence(row'[p], row[p])
          ELSE row'[p] = row[p]
    BY <1>3, ExpireEffect
  <2>2. UNCHANGED <<spent, refunds>>
    BY <1>3, ExpireEffect
  <2>3. \A p \in S : Phase(row[p]) = "open"
    BY <2>1 DEF Phase
  <2>4. phaseBar' = [p \in Orders |-> IF p \in S THEN "expired" ELSE phaseBar[p]]
    BY <2>1 DEF phaseBar, Phase
  <2>5. outcomeBar' = outcomeBar
    BY <2>1, <2>2 DEF outcomeBar, OutcomeOf, SameEvidence
  <2> QED BY <2>2, <2>3, <2>4, <2>5 DEF phaseBar, outcomeBar, Outcome!Expire
<1>4. ASSUME Quiet PROVE UNCHANGED Outcome!vars
  BY <1>4 DEF Quiet, Outcome!vars, OutcomeOf
<1> QED
  BY <1>1, <1>2, <1>3, <1>4, StepCases DEF Outcome!Next

\* The backend, with its handler, callbacks, jobs, crashes and clocks, implements
\* the abstract specification of what becomes of an order.
THEOREM RefinesOrderOutcome == Spec => ImplementsOrderOutcome
<1>1. Init => Outcome!Init
  <2> SUFFICES ASSUME Init PROVE Outcome!Init
    OBVIOUS
  <2>1. PICK keyed : row = [o \in Orders |-> [NewRow EXCEPT !.api_key_id = o \in keyed]]
    BY DEF Init
  <2>2. \A o \in Orders : row[o].status = "pending_payment" /\ ~row[o].card
    BY <2>1 DEF NewRow
  <2>3. \A o \in Orders : refunds[o].claims = 0
    BY DEF Init
  <2>4. \A o \in Orders : Phase(row[o]) = "open" /\ OutcomeOf(row[o], refunds[o]) = "none"
    BY <2>2, <2>3 DEF Phase, OutcomeOf
  <2> QED BY <2>4 DEF Init, Outcome!Init
<1>2. ProofInv /\ [Next]_vars => [Outcome!Next]_Outcome!vars
  BY StepImplements
<1> QED
  BY <1>1, <1>2, InitProofInv, NextProofInv, PTL
  DEF Spec, ImplementsOrderOutcome, Outcome!Spec

-----------------------------------------------------------------------------
(* The money that moves is bounded.  What a step does to the row, the      *)
(* transactions, the handler, the refunds and the job of one order is said *)
(* once for all actions; the invariants then follow.                       *)

\* A row is not left in 'failed' by this step, unless with its payment recorded or
\* its refund skipped; only a claimed attempt is counted.
RowMoves(p) ==
  /\ row'[p].status = "failed" =>
       \/ row[p].status = "failed"
       \/ CtxLegRecorded(row'[p]) \/ refunds'[p].skipped
  /\ \/ row'[p].fulfillment_attempt = row[p].fulfillment_attempt
     \/ ClaimAttempt(p)

\* An UPDATE to a row with the same attempts and the same status, with another
\* status than 'failed', or with a payment.
LEMMA UpdatedRow ==
  ASSUME TypeOK, NEW o \in Orders, NEW r \in Row, Update(o, r),
         r.fulfillment_attempt = row[o].fulfillment_attempt,
         \/ r.status = row[o].status
         \/ r.status # "failed" \/ CtxLegRecorded(r)
  PROVE  RowMoves(o)
<1>1. row'[o].status = r.status /\ SameEvidence(row'[o], r)
  BY UpdateEffect
<1>2. row'[o].fulfillment_attempt = r.fulfillment_attempt
  <2>1. [r EXCEPT !.age = "fresh"].fulfillment_attempt = r.fulfillment_attempt
    BY DEF Row
  <2> QED BY <2>1, UpdateType DEF TypeOK
<1> QED
  BY <1>1, <1>2 DEF RowMoves, SameEvidence, CtxLegRecorded

\* Settling leaves an order in 'failed' only when it records the payment or the
\* freeze made it skip the refund.
LEMMA SettledRow ==
  ASSUME TypeOK, NEW o \in Orders, NEW r \in Row, Settle(o, r) \/ SettleTwice(o, r),
         r.fulfillment_attempt = row[o].fulfillment_attempt
  PROVE  RowMoves(o)
<1> DEFINE q == RefundOrQuarantine(r)
           q2 == RefundOrQuarantine(q)
<1>1. ASSUME NEW s \in Row
      PROVE  LET t == RefundOrQuarantine(s) IN
             /\ t \in Row /\ t.fulfillment_attempt = s.fulfillment_attempt
             /\ t.ctx_stellar_txid = s.ctx_stellar_txid
             /\ t.status = "failed" => CtxLegRecorded(t) \/ SkippedFrozen(s)
  <2>1. RefundOrQuarantine(s) \in Row
    BY RefundOrQuarantineType
  <2>2. ASSUME NEW st
        PROVE  LET t == [s EXCEPT !.status = st] IN
               /\ t.fulfillment_attempt = s.fulfillment_attempt
               /\ t.ctx_stellar_txid = s.ctx_stellar_txid /\ t.status = st
    BY DEF Row
  <2> QED BY <2>1, <2>2 DEF RefundOrQuarantine, QuarantineForManualRecovery, ScheduleRefund,
             RefundClaimed, RefundClaimable, CtxLegRecorded, SkippedFrozen
<1>2. PICK s \in Row : /\ Update(o, s) /\ s.fulfillment_attempt = r.fulfillment_attempt
                       /\ s.status = "failed" => CtxLegRecorded(s) \/ SkippedFrozen(r)
  <2>1. /\ q \in Row /\ q.fulfillment_attempt = r.fulfillment_attempt
        /\ q.ctx_stellar_txid = r.ctx_stellar_txid
        /\ q.status = "failed" => CtxLegRecorded(q) \/ SkippedFrozen(r)
    BY <1>1
  <2> HIDE DEF q
  <2>2. /\ q2 \in Row /\ q2.fulfillment_attempt = r.fulfillment_attempt
        /\ q2.status = "failed" => CtxLegRecorded(q2) \/ SkippedFrozen(q)
    BY <1>1, <2>1
  <2>3. SkippedFrozen(q) => SkippedFrozen(r)
    BY <2>1 DEF SkippedFrozen, CtxLegRecorded
  <2>4. Update(o, q) \/ Update(o, q2)
    BY DEF Settle, SettleTwice, q
  <2> HIDE DEF q2
  <2> QED BY <2>1, <2>2, <2>3, <2>4
<1>3. SkippedFrozen(r) => refunds'[o].skipped
  <2>1. \E n : refunds'[o] = Claimed(refunds[o], n, SkippedFrozen(r))
    BY DEF Settle, SettleTwice, StartSends, TypeOK
  <2>2. refunds'[o].skipped = (refunds[o].skipped \/ SkippedFrozen(r))
    BY <2>1 DEF Claimed
  <2> QED BY <2>2, Zenon
<1>4. row'[o].status = s.status /\ SameEvidence(row'[o], s)
  BY <1>2, UpdateEffect
<1>5. row'[o].fulfillment_attempt = s.fulfillment_attempt
  <2>1. [s EXCEPT !.age = "fresh"].fulfillment_attempt = s.fulfillment_attempt
    BY DEF Row
  <2> QED BY <1>2, <2>1, UpdateType DEF TypeOK
<1> QED
  BY <1>2, <1>3, <1>4, <1>5 DEF RowMoves, SameEvidence, CtxLegRecorded

\* The UPDATEs of the handler, the callbacks and the jobs.
LEMMA ChangedRows ==
  ASSUME TypeOK, NEW o \in Orders,
         \/ Update(o, row[o])
         \/ Update(o, [row[o] EXCEPT !.vcc_job_id = TRUE])
         \/ Update(o, [row[o] EXCEPT !.xlm_sent_at = TRUE])
         \/ Update(o, [row[o] EXCEPT !.vcc_notified_at = TRUE])
         \/ Update(o, [row[o] EXCEPT !.status = "ordering"])
         \/ Update(o, [row[o] EXCEPT !.status = "delivered", !.card = TRUE])
         \/ \E i \in Nat \ {0} : \/ Update(o, PaidCheckpoint(row[o], i))
                               \/ Update(o, AmbiguousPark(row[o], i))
         \/ \E i \in Nat :
              Update(o, [row[o] EXCEPT !.status = "refunded", !.refund_stellar_txid = i])
         \/ \E i \in Nat : Update(o, [row[o] EXCEPT !.refund_stellar_txid = IF @ = 0 THEN i ELSE @])
  PROVE  RowMoves(o)
<1>1. row[o] \in Row
  BY DEF TypeOK
<1>2. ASSUME NEW r, Update(o, r),
             \/ r = row[o]
             \/ r = [row[o] EXCEPT !.vcc_job_id = TRUE]
             \/ r = [row[o] EXCEPT !.xlm_sent_at = TRUE]
             \/ r = [row[o] EXCEPT !.vcc_notified_at = TRUE]
      PROVE  RowMoves(o)
  <2>1. r \in Row
    BY <1>1, <1>2, RowChangeTypes
  <2>2. r.status = row[o].status /\ r.fulfillment_attempt = row[o].fulfillment_attempt
    BY <1>1, <1>2 DEF Row
  <2> QED BY <1>2, <2>1, <2>2, UpdatedRow
<1>3. ASSUME NEW r, Update(o, r),
             \/ r = [row[o] EXCEPT !.status = "ordering"]
             \/ r = [row[o] EXCEPT !.status = "delivered", !.card = TRUE]
             \/ \E i \in Nat : r = [row[o] EXCEPT !.status = "refunded", !.refund_stellar_txid = i]
      PROVE  RowMoves(o)
  <2>1. r \in Row
    BY <1>1, <1>3, RowChangeTypes
  <2>2. r.status # "failed" /\ r.fulfillment_attempt = row[o].fulfillment_attempt
    BY <1>1, <1>3 DEF Row
  <2> QED BY <1>3, <2>1, <2>2, UpdatedRow
<1>4. ASSUME NEW i \in Nat \ {0}, NEW r, Update(o, r),
             r = PaidCheckpoint(row[o], i) \/ r = AmbiguousPark(row[o], i)
      PROVE  RowMoves(o)
  <2>1. r \in Row
    BY <1>1, <1>4, RowChangeTypes
  <2>2. CtxLegRecorded(r) /\ r.fulfillment_attempt = row[o].fulfillment_attempt
    BY <1>1, <1>4 DEF Row, CtxLegRecorded, PaidCheckpoint, AmbiguousPark
  <2> QED BY <1>4, <2>1, <2>2, UpdatedRow
<1>5. ASSUME NEW i \in Nat, NEW r, Update(o, r),
             r = [row[o] EXCEPT !.refund_stellar_txid = IF @ = 0 THEN i ELSE @]
      PROVE  RowMoves(o)
  <2>1. r \in Row
    BY <1>1, <1>5, RowChangeTypes
  <2>2. r.status = row[o].status /\ r.fulfillment_attempt = row[o].fulfillment_attempt
    BY <1>1, <1>5 DEF Row
  <2> QED BY <1>5, <2>1, <2>2, UpdatedRow
<1> QED
  BY <1>2, <1>3, <1>4, <1>5

\* The steps that are about one order, the process living on.
OrderStep(o) ==
  \/ ClaimPayment(o) \/ HandlerStep(o) \/ CallbackStep(o) \/ RefundStep(o)
  \/ VccStep(o) \/ GrowOlder(o) \/ ReconcileStep(o) \/ RecoverStep(o)

LEMMA OrderStepRow ==
  ASSUME TypeOK, NEW o \in Orders, OrderStep(o)
  PROVE  RowMoves(o)
<1>1. row[o] \in Row /\ jobs.tx \in Nat /\ handler[o].tx \in Nat /\ refunds[o].held \subseteq Nat
  BY DEF TypeOK, RefundState
<1>2. ASSUME NEW st \in TERMINAL,
             LET r == [row[o] EXCEPT !.status = st] IN Settle(o, r) \/ SettleTwice(o, r)
      PROVE  RowMoves(o)
  <2>1. [row[o] EXCEPT !.status = st] \in Row
    BY <1>1, RowChangeTypes
  <2>2. [row[o] EXCEPT !.status = st].fulfillment_attempt = row[o].fulfillment_attempt
    BY <1>1 DEF Row
  <2> QED BY <1>2, <2>1, <2>2, SettledRow
<1>3. ASSUME UNCHANGED row PROVE RowMoves(o)
  BY <1>3 DEF RowMoves
<1>4. CASE ClaimPayment(o)
  BY <1>4, ChangedRows DEF ClaimPayment
<1>5. CASE HandlerStep(o)
  <2>1. CASE InvoiceAnswered(o) \/ PaySubmit(o) \/ NotifyAnswered(o)
    BY <1>3, <2>1 DEF InvoiceAnswered, PaySubmit, NotifyAnswered
  <2>2. CASE PersistInvoice(o)
    BY <2>2, ChangedRows DEF PersistInvoice
  <2>3. CASE PayAnswered(o)
    BY <1>1, <2>3, ChangedRows DEF PayAnswered
  <2>4. CASE NotifyAgainAnswered(o)
    BY <2>4, ChangedRows DEF NotifyAgainAnswered
  <2>5. CASE HandlerFails(o)
    BY <1>2, <2>5 DEF HandlerFails
  <2> QED BY <1>5, <2>1, <2>2, <2>3, <2>4, <2>5 DEF HandlerStep
<1>6. CASE CallbackStep(o)
  <2>1. CASE CallbackFulfilled(o)
    BY <2>1, ChangedRows DEF CallbackFulfilled, StoreCard
  <2>2. CASE CallbackFailed(o)
    BY <1>2, <2>2 DEF CallbackFailed, FailedTarget
  <2> QED BY <1>6, <2>1, <2>2 DEF CallbackStep
<1>7. CASE RefundStep(o)
  <2>1. CASE RefundSubmit(o) \/ RefundNotSubmitted(o)
    BY <1>3, <2>1 DEF RefundSubmit, RefundNotSubmitted
  <2>2. ASSUME NEW i \in refunds[o].held, RefundAnswered(o, i) PROVE RowMoves(o)
    BY <1>1, <1>3, <2>2, ChangedRows DEF RefundAnswered
  <2> QED BY <1>7, <2>1, <2>2 DEF RefundStep
<1>8. CASE VccStep(o)
  BY <1>3, <1>8 DEF VccStep, VccDelivers, VccFails
<1>9. CASE GrowOlder(o)
  <2>1. ASSUME NEW r \in Row, NEW a
        PROVE  LET s == [r EXCEPT !.age = a] IN
               s.status = r.status /\ s.fulfillment_attempt = r.fulfillment_attempt
    BY DEF Row
  <2>2. row'[o].status = row[o].status /\ row'[o].fulfillment_attempt = row[o].fulfillment_attempt
    BY <1>1, <1>9, <2>1 DEF GrowOlder, TypeOK
  <2> QED BY <2>2 DEF RowMoves
<1>10. CASE ReconcileStep(o)
  <2>1. ASSUME HardFail(o) PROVE RowMoves(o)
    BY <1>2, <1>3, <2>1 DEF HardFail
  <2>2. ASSUME RetryFails(o) PROVE RowMoves(o)
    BY <1>3, <2>2 DEF RetryFails
  <2>3. CASE HardFailNoJob(o) \/ HardFailConfirmed(o) \/ HardFailNoStatus(o)
    BY <2>1, <2>3 DEF HardFailNoJob, HardFailConfirmed, HardFailNoStatus
  <2>4. CASE HardFailPostponed(o)
    BY <2>4, ChangedRows DEF HardFailPostponed, Touch
  <2>5. CASE AskBeforeHardFail(o) \/ RetryPaySubmit(o) \/ RetryPayNotSubmitted(o)
    BY <1>3, <2>2, <2>5 DEF AskBeforeHardFail, RetryPaySubmit, RetryPayNotSubmitted
  <2>6. CASE ClaimAttempt(o)
    <3>1. CASE UNCHANGED row
      BY <1>3, <3>1
    <3>2. CASE Update(o, AttemptCounted(row[o])) /\ AttemptClaimable(o)
      <4>1. AttemptCounted(row[o]) \in Row
        BY <1>1, RowChangeTypes
      <4>2. AttemptCounted(row[o]).status = "ordering"
        BY <1>1, <3>2 DEF AttemptCounted, AttemptClaimable, Row
      <4>3. row'[o].status = "ordering"
        BY <3>2, <4>1, <4>2, UpdateEffect
      <4> QED BY <2>6, <4>3 DEF RowMoves
    <3> QED BY <2>6, <3>1, <3>2 DEF ClaimAttempt
  <2>7. CASE RetryInvoiceAnswered(o)
    BY <2>2, <2>7, ChangedRows DEF RetryInvoiceAnswered
  <2>8. CASE RetryStatusAnswered(o)
    BY <1>3, <2>2, <2>8, ChangedRows DEF RetryStatusAnswered
  <2>9. CASE RetryPayAnswered(o)
    BY <1>1, <2>2, <2>9, ChangedRows DEF RetryPayAnswered
  <2>10. CASE RetryNotifyAnswered(o)
    BY <2>2, <2>10, ChangedRows DEF RetryNotifyAnswered
  <2> QED BY <1>10, <2>3, <2>4, <2>5, <2>6, <2>7, <2>8, <2>9, <2>10 DEF ReconcileStep
<1>11. CASE RecoverStep(o)
  <2>1. CASE PollSaysDelivered(o)
    BY <2>1, ChangedRows DEF PollSaysDelivered, Touch
  <2>2. CASE PollSaysFailed(o)
    BY <1>2, <2>2 DEF PollSaysFailed, FailedTarget
  <2>3. CASE PollSaysNothing(o)
    BY <1>3, <2>3 DEF PollSaysNothing
  <2> QED BY <1>11, <2>1, <2>2, <2>3 DEF RecoverStep
<1> QED
  BY <1>4, <1>5, <1>6, <1>7, <1>8, <1>9, <1>10, <1>11 DEF OrderStep

\* The transactions of order p are those there were.
TxsKept(p) == CtxTxs(p)' = CtxTxs(p) /\ SenderTxs(p)' = SenderTxs(p)

LEMMA SameTxs ==
  ASSUME NEW p, ledger'[p] = ledger[p]
  PROVE  TxsKept(p)
BY DEF TxsKept, CtxTxs, SenderTxs

LEMMA KilledTxs ==
  ASSUME TypeOK, NEW o \in Orders, NEW i, Kill(o, i)
  PROVE  \A p \in Orders : TxsKept(p)
<1>1. /\ \A p \in Orders : p # o => ledger'[p] = ledger[p]
      /\ DOMAIN ledger'[o] = DOMAIN ledger[o]
      /\ \A j \in DOMAIN ledger[o] : j # i => ledger'[o][j] = ledger[o][j]
      /\ i \in DOMAIN ledger[o] => ledger'[o][i] = [ledger[o][i] EXCEPT !.st = "dead"]
  BY DEF Kill, TypeOK
<1>2. \A j \in DOMAIN ledger[o] : ledger[o][j] \in Tx
  BY DEF TypeOK
<1>3. ASSUME NEW x \in Tx
      PROVE  [x EXCEPT !.st = "dead"].to = x.to
  BY DEF Tx
<1>4. ASSUME NEW j \in DOMAIN ledger[o]
      PROVE  ledger'[o][j].to = ledger[o][j].to
  <2>1. PICK x \in Tx : x = ledger[o][j]
    BY <1>2
  <2>2. PICK y : y = ledger'[o][j]
    OBVIOUS
  <2>3. IF j = i THEN y = [x EXCEPT !.st = "dead"] ELSE y = x
    BY <1>1, <2>1, <2>2
  <2>4. y.to = x.to
    BY <1>3, <2>3
  <2> QED BY <2>1, <2>2, <2>4
<1>5. TxsKept(o)
  BY <1>1, <1>4 DEF TxsKept, CtxTxs, SenderTxs
<1> QED
  BY <1>1, <1>5, SameTxs

LEMMA LandedTxs ==
  ASSUME TypeOK, NEW o \in Orders, NEW i \in DOMAIN ledger[o], TxLands(o, i), NEW p \in Orders
  PROVE  TxsKept(p)
<1>1. \A j \in DOMAIN ledger[p] : ledger[p][j] \in Tx
  BY DEF TypeOK
<1>2. ledger'[p] = [j \in DOMAIN ledger[p] |->
         IF p = o /\ j = i THEN [ledger[p][j] EXCEPT !.st = "landed"]
         ELSE IF Flying(p, j) /\ ~Held(p, j) THEN [ledger[p][j] EXCEPT !.st = "dead"]
         ELSE ledger[p][j]]
  BY DEF TxLands
<1>3. ASSUME NEW x \in Tx, NEW st \in {"landed", "dead"}
      PROVE  [x EXCEPT !.st = st].to = x.to
  BY DEF Tx
<1>4. DOMAIN ledger'[p] = DOMAIN ledger[p]
  BY <1>2
<1>5. ASSUME NEW j \in DOMAIN ledger[p]
      PROVE  ledger'[p][j].to = ledger[p][j].to
  <2>1. PICK x \in Tx : x = ledger[p][j]
    BY <1>1
  <2>2. PICK y : y = ledger'[p][j]
    OBVIOUS
  <2>3. y = [x EXCEPT !.st = "landed"] \/ y = [x EXCEPT !.st = "dead"] \/ y = x
    BY <1>2, <2>1, <2>2
  <2>4. y.to = x.to
    BY <1>3, <2>3
  <2> QED BY <2>1, <2>2, <2>4
<1> QED
  BY <1>4, <1>5 DEF TxsKept, CtxTxs, SenderTxs

LEMMA SubmittedTxs ==
  ASSUME TypeOK, NEW o \in Orders, NEW d \in {"ctx", "sender"}, Submit(o, d)
  PROVE  /\ \A p \in Orders : p # o => ledger'[p] = ledger[p]
         /\ Len(ledger'[o]) \in Nat \ {0}
         /\ CtxTxs(o)' = CtxTxs(o) \cup (IF d = "ctx" THEN {Len(ledger'[o])} ELSE {})
         /\ SenderTxs(o)' = SenderTxs(o) \cup (IF d = "sender" THEN {Len(ledger'[o])} ELSE {})
<1> DEFINE e == [to |-> d, st |-> "flying"]
<1>1. PICK s \in Seq(Tx) : s = ledger[o]
  BY DEF TypeOK
<1>2. PICK t : t = ledger'[o]
  OBVIOUS
<1>3. t = Append(s, e) /\ \A p \in Orders : p # o => ledger'[p] = ledger[p]
  BY <1>1, <1>2 DEF Submit, TypeOK
<1>4. e \in Tx
  BY DEF Tx
<1>5. PICK n \in Nat : n = Len(s)
  BY <1>1
<1>6. /\ Len(t) = n + 1 /\ DOMAIN t = 1..(n + 1) /\ DOMAIN s = 1..n
      /\ \A j \in 1..n : t[j] = s[j]
      /\ t[n + 1] = e
  BY <1>1, <1>3, <1>4, <1>5
<1>7. t[n + 1].to = d
  BY <1>6
<1>8. /\ CtxTxs(o) = {i \in DOMAIN s : s[i].to = "ctx"}
      /\ CtxTxs(o)' = {i \in DOMAIN t : t[i].to = "ctx"}
  BY <1>1, <1>2 DEF CtxTxs
<1>9. SenderTxs(o) = {i \in DOMAIN s : s[i].to = "sender"}
      /\ SenderTxs(o)' = {i \in DOMAIN t : t[i].to = "sender"}
  BY <1>1, <1>2 DEF SenderTxs
<1> HIDE DEF e
<1>11. CtxTxs(o)' = CtxTxs(o) \cup (IF d = "ctx" THEN {n + 1} ELSE {})
  BY <1>6, <1>7, <1>8
<1>12. SenderTxs(o)' = SenderTxs(o) \cup (IF d = "sender" THEN {n + 1} ELSE {})
  BY <1>6, <1>7, <1>9
<1>14. Len(ledger'[o]) = n + 1
  BY <1>2, <1>6
<1> QED
  BY <1>3, <1>11, <1>12, <1>14

LEMMA AnsweredTxs ==
  ASSUME TypeOK, NEW o \in Orders, NEW i, NEW out, SubmitAnswer(o, i, out)
  PROVE  /\ \A p \in Orders : TxsKept(p)
         /\ \A p \in Orders : p # o => ledger'[p] = ledger[p]
<1>1. Kill(o, i) \/ UNCHANGED ledger
  BY DEF SubmitAnswer
<1>2. Kill(o, i) => \A p \in Orders : p # o => ledger'[p] = ledger[p]
  BY DEF Kill, TypeOK
<1> QED
  BY <1>1, <1>2, KilledTxs, SameTxs

\* What the jobs do to an order they are not at.
JobsAside(p) ==
  jobs'.cur = p => jobs.cur = p /\ jobs'.pc = jobs.pc /\ jobs'.tx = jobs.tx

\* A step that is about something else than order p.
Aside(p) ==
  /\ row'[p] = row[p] /\ handler'[p] = handler[p] /\ refunds'[p] = refunds[p]
  /\ crashes' = crashes /\ TxsKept(p) /\ JobsAside(p)

LEMMA JobMovesAside ==
  ASSUME TypeOK, NEW o \in Orders, NEW p \in Orders, p # o
  PROVE  \A pc : /\ Continue(o, pc) => JobsAside(p)
                 /\ Take(o, pc) => JobsAside(p)
                 /\ jobs.cur = o /\ JobTo(pc) => JobsAside(p)
<1> TAKE pc
<1>1. CASE Continue(o, pc)
  <2>1. jobs'.cur = NoOrder
    BY <1>1 DEF Continue, TypeOK
  <2> QED BY <2>1, NoOrderIsNotAnOrder DEF JobsAside
<1>2. CASE Take(o, pc)
  <2>1. jobs'.cur = o
    BY <1>2 DEF Take, TypeOK
  <2> QED BY <2>1 DEF JobsAside
<1>3. CASE (jobs.cur = o /\ JobTo(pc))
  <2>1. jobs'.cur = o
    BY <1>3 DEF JobTo, TypeOK
  <2> QED BY <2>1 DEF JobsAside
<1> QED
  BY <1>1, <1>2, <1>3

LEMMA SameJobsAside ==
  ASSUME NEW p, jobs' = jobs
  PROVE  JobsAside(p)
BY DEF JobsAside

\* The UPDATEs, the calls and the promises are about one order.
LEMMA OtherRows ==
  ASSUME TypeOK, NEW o \in Orders, NEW p \in Orders, p # o
  PROVE  /\ \A r : Update(o, r) => row'[p] = row[p]
         /\ \A r : Settle(o, r) \/ SettleTwice(o, r) => row'[p] = row[p] /\ refunds'[p] = refunds[p]
         /\ \A pc : HandlerTo(o, pc) => handler'[p] = handler[p]
         /\ HardFail(o) => row'[p] = row[p] /\ refunds'[p] = refunds[p]
         /\ RetryFails(o) => row'[p] = row[p]
<1>1. ASSUME NEW r, Update(o, r) PROVE row'[p] = row[p]
  BY <1>1 DEF Update, TypeOK
<1>2. ASSUME NEW r, Settle(o, r) \/ SettleTwice(o, r)
      PROVE  row'[p] = row[p] /\ refunds'[p] = refunds[p]
  BY <1>1, <1>2 DEF Settle, SettleTwice, StartSends, TypeOK
<1>3. ASSUME NEW pc, HandlerTo(o, pc) PROVE handler'[p] = handler[p]
  BY <1>3 DEF HandlerTo, TypeOK
<1>6. ASSUME HardFail(o) PROVE row'[p] = row[p] /\ refunds'[p] = refunds[p]
  BY <1>2, <1>6 DEF HardFail
<1>7. ASSUME RetryFails(o) PROVE row'[p] = row[p]
  BY <1>7 DEF RetryFails
<1> QED
  BY <1>1, <1>2, <1>3, <1>6, <1>7

\* A step about o is not about p.
LEMMA OrderStepAside ==
  ASSUME TypeOK, NEW o \in Orders, NEW p \in Orders, p # o, OrderStep(o)
  PROVE  Aside(p)
<1>1. jobs' = jobs => JobsAside(p)
  BY SameJobsAside
<1>2. ledger' = ledger => TxsKept(p)
  BY SameTxs
<1>3. \A d \in {"ctx", "sender"} : Submit(o, d) => TxsKept(p)
  BY SubmittedTxs, SameTxs
<1>4. \A i, out : SubmitAnswer(o, i, out) => TxsKept(p)
  BY AnsweredTxs
<1>5. CASE ClaimPayment(o)
  BY <1>1, <1>2, <1>5, OtherRows DEF ClaimPayment, Aside
<1>6. CASE HandlerStep(o)
  <2>1. CASE InvoiceAnswered(o)
    BY <1>1, <1>2, <2>1, OtherRows DEF InvoiceAnswered, Aside
  <2>2. CASE PersistInvoice(o)
    BY <1>1, <1>2, <2>2, OtherRows DEF PersistInvoice, Aside
  <2>3. CASE PaySubmit(o)
    BY <1>1, <1>3, <2>3 DEF PaySubmit, Aside, TypeOK
  <2>4. CASE HandlerFails(o)
    BY <1>1, <1>2, <1>4, <2>4, OtherRows DEF HandlerFails, HandlerThrows, Aside
  <2>5. CASE PayAnswered(o)
    BY <1>1, <1>4, <2>5, OtherRows DEF PayAnswered, Aside
  <2>6. CASE NotifyAnswered(o)
    BY <1>1, <1>2, <2>6, OtherRows DEF NotifyAnswered, Aside
  <2>7. CASE NotifyAgainAnswered(o)
    BY <1>1, <1>2, <2>7, OtherRows DEF NotifyAgainAnswered, Aside
  <2> QED BY <1>6, <2>1, <2>2, <2>3, <2>4, <2>5, <2>6, <2>7 DEF HandlerStep
<1>7. CASE CallbackStep(o)
  BY <1>1, <1>2, <1>7, OtherRows DEF CallbackStep, CallbackFulfilled, StoreCard, CallbackFailed,
     Aside
<1>8. CASE RefundStep(o)
  <2>1. CASE RefundSubmit(o)
    BY <1>1, <1>3, <2>1 DEF RefundSubmit, Aside, TypeOK
  <2>2. CASE RefundNotSubmitted(o)
    BY <1>1, <1>2, <2>2 DEF RefundNotSubmitted, Aside, TypeOK
  <2>3. ASSUME NEW i \in refunds[o].held, RefundAnswered(o, i) PROVE Aside(p)
    <3>1. row'[p] = row[p] /\ TxsKept(p)
      BY <1>4, <2>3, OtherRows DEF RefundAnswered
    <3>2. refunds'[p] = refunds[p] /\ UNCHANGED <<handler, jobs, vcc, crashes>>
      BY <2>3 DEF RefundAnswered, TypeOK
    <3> QED BY <1>1, <3>1, <3>2 DEF Aside
  <2> QED BY <1>8, <2>1, <2>2, <2>3 DEF RefundStep
<1>9. CASE VccStep(o)
  BY <1>1, <1>2, <1>9 DEF VccStep, VccDelivers, VccFails, Aside, TypeOK
<1>10. CASE GrowOlder(o)
  BY <1>1, <1>2, <1>10 DEF GrowOlder, Aside, TypeOK
<1>11. CASE ReconcileStep(o)
  <2>1. \A pc : /\ Continue(o, pc) => JobsAside(p)
                /\ Take(o, pc) => JobsAside(p)
                /\ jobs.cur = o /\ JobTo(pc) => JobsAside(p)
    BY JobMovesAside
  <2>2. CASE HardFailNoJob(o) \/ HardFailConfirmed(o) \/ HardFailNoStatus(o)
    BY <1>2, <2>1, <2>2, OtherRows
    DEF HardFailNoJob, HardFailConfirmed, HardFailNoStatus, HardFail, Aside
  <2>3. CASE AskBeforeHardFail(o)
    BY <1>2, <2>1, <2>3 DEF AskBeforeHardFail, Aside
  <2>4. CASE HardFailPostponed(o)
    BY <1>2, <2>1, <2>4, OtherRows DEF HardFailPostponed, Touch, Aside
  <2>5. CASE ClaimAttempt(o)
    <3>1. JobsAside(p)
      BY <2>1, <2>5 DEF ClaimAttempt
    <3> QED BY <1>2, <2>5, <3>1, OtherRows DEF ClaimAttempt, Aside
  <2>6. ASSUME jobs.cur = o
        PROVE  /\ ToNotify(o) => JobsAside(p)
               /\ RetryFails(o) => JobsAside(p)
    BY <2>1, <2>6 DEF ToNotify, RetryFails
  <2>7. CASE RetryInvoiceAnswered(o)
    BY <1>2, <2>1, <2>6, <2>7, OtherRows DEF RetryInvoiceAnswered, Aside
  <2>8. CASE RetryStatusAnswered(o)
    BY <1>2, <2>1, <2>6, <2>8, OtherRows DEF RetryStatusAnswered, Aside
  <2>9. CASE RetryPaySubmit(o)
    <3>1. jobs'.cur = o /\ jobs'.todo = jobs.todo /\ jobs'.pc = jobs.pc /\ jobs'.snap = jobs.snap
      BY <2>9 DEF RetryPaySubmit, TypeOK
    <3>2. JobsAside(p)
      BY <3>1 DEF JobsAside
    <3> QED BY <1>3, <2>9, <3>2 DEF RetryPaySubmit, Aside
  <2>10. CASE RetryPayNotSubmitted(o)
    BY <1>2, <2>6, <2>10, OtherRows DEF RetryPayNotSubmitted, Aside
  <2>11. CASE RetryPayAnswered(o)
    BY <1>4, <2>1, <2>6, <2>11, OtherRows DEF RetryPayAnswered, Aside
  <2>12. CASE RetryNotifyAnswered(o)
    BY <1>2, <2>1, <2>6, <2>12, OtherRows DEF RetryNotifyAnswered, Aside
  <2> QED BY <1>11, <2>2, <2>3, <2>4, <2>5, <2>7, <2>8, <2>9, <2>10, <2>11, <2>12
          DEF ReconcileStep
<1>12. CASE RecoverStep(o)
  <2>1. Continue(o, "recovering") => JobsAside(p)
    BY JobMovesAside
  <2>2. CASE PollSaysDelivered(o)
    BY <1>2, <2>1, <2>2, OtherRows DEF PollSaysDelivered, Touch, Aside
  <2>3. CASE PollSaysFailed(o)
    BY <1>2, <2>1, <2>3, OtherRows DEF PollSaysFailed, Aside
  <2>4. CASE PollSaysNothing(o)
    BY <1>2, <2>1, <2>4 DEF PollSaysNothing, Aside
  <2> QED BY <1>12, <2>2, <2>3, <2>4 DEF RecoverStep
<1> QED
  BY <1>5, <1>6, <1>7, <1>8, <1>9, <1>10, <1>11, <1>12 DEF OrderStep

\* So are a landing or expiring transaction, the freeze switch and a stutter.
LEMMA OtherAside ==
  ASSUME TypeOK, NEW p \in Orders,
         SetFrozen \/ UNCHANGED vars \/ \E o \in Orders : LedgerStep(o)
  PROVE  Aside(p)
<1>1. CASE SetFrozen \/ UNCHANGED vars
  BY <1>1, SameTxs, SameJobsAside DEF SetFrozen, vars, Aside
<1>2. ASSUME NEW o \in Orders, LedgerStep(o) PROVE Aside(p)
  <2>1. TxsKept(p)
    BY <1>2, LandedTxs, KilledTxs DEF LedgerStep, TxExpires
  <2>2. UNCHANGED <<row, spent, frozen, handler, refunds, jobs, vcc, crashes>>
    BY <1>2 DEF LedgerStep, TxExpires, TxLands
  <2> QED BY <2>1, <2>2, SameJobsAside DEF Aside
<1> QED
  BY <1>1, <1>2

\* What the death of the process leaves of an order.
Killed(p) ==
  /\ Dies /\ TxsKept(p)
  /\ row'[p].fulfillment_attempt = row[p].fulfillment_attempt

LEMMA KilledStep ==
  ASSUME TypeOK, NEW p \in Orders, Crash \/ \E o \in Orders : InterruptedStep(o)
  PROVE  Killed(p)
<1>1. CASE Crash
  BY <1>1, SameTxs DEF Crash, Killed
<1>2. ASSUME NEW o \in Orders, InterruptedStep(o) PROVE Killed(p)
  <2>1. TxsKept(p)
    BY <1>2, SameTxs, AnsweredTxs DEF InterruptedStep, HandlerFailsInterrupted, HandlerThrows,
       CallbackFulfilledInterrupted, CallbackFailedInterrupted, HardFailInterrupted,
       PollSaysFailedInterrupted
  <2>2. PICK r : /\ Update(o, r)
                 /\ \/ \E st \in TERMINAL : r = [row[o] EXCEPT !.status = st]
                    \/ r = [row[o] EXCEPT !.status = "delivered", !.card = TRUE]
    BY <1>2 DEF FailedTarget, InterruptedStep, HandlerFailsInterrupted, CallbackFulfilledInterrupted,
       StoreCard, CallbackFailedInterrupted, HardFailInterrupted, PollSaysFailedInterrupted,
       DiesUnsettled
  <2>3. row'[p].fulfillment_attempt = row[p].fulfillment_attempt
    <3>1. row[o] \in Row
      BY DEF TypeOK
    <3>2. r \in Row /\ r.fulfillment_attempt = row[o].fulfillment_attempt
      <4>1. r \in Row
        BY <2>2, <3>1, RowChangeTypes
      <4>2. r.fulfillment_attempt = row[o].fulfillment_attempt
        BY <2>2, <3>1 DEF Row
      <4> QED BY <4>1, <4>2
    <3>3. [r EXCEPT !.age = "fresh"].fulfillment_attempt = r.fulfillment_attempt
      BY <3>2 DEF Row
    <3>4. row'[o].fulfillment_attempt = row[o].fulfillment_attempt
      BY <2>2, <3>2, <3>3, UpdateType DEF TypeOK
    <3>5. p # o => row'[p] = row[p]
      BY <2>2, <3>2, UpdateEffect
    <3> QED BY <3>4, <3>5
  <2> QED BY <1>2, <2>1, <2>3, InterruptedDies DEF Killed
<1> QED
  BY <1>1, <1>2

\* The loop of the jobs, between two orders.
LoopStep == ReconcileSelect \/ ReconcileDone \/ RecoverSelect \/ RecoverDone

LEMMA LoopAside ==
  ASSUME TypeOK, NEW p \in Orders, LoopStep
  PROVE  Aside(p)
<1>1. /\ UNCHANGED <<row, handler, refunds, crashes, ledger>>
      /\ \E pc : \E S \in SUBSET Orders : jobs' = NoJob(pc) \/ jobs' = Selected(pc, S)
  BY DEF LoopStep, ReconcileSelect, ReconcileDone, RecoverSelect, RecoverDone
<1>2. jobs'.cur = NoOrder
  BY <1>1, JobMemory
<1> QED
  BY <1>1, <1>2, SameTxs, NoOrderIsNotAnOrder DEF Aside, JobsAside

\* Every step is about one order, about none, expires some, or kills the process.
LEMMA StepKinds ==
  ASSUME TypeOK, [Next]_vars, NEW p \in Orders
  PROVE  OrderStep(p) \/ Aside(p) \/ ExpireStaleOrders \/ Killed(p)
<1>1. ASSUME NEW o \in Orders, OrderStep(o) PROVE OrderStep(p) \/ Aside(p)
  BY <1>1, OrderStepAside
<1> QED
  BY <1>1, OtherAside, LoopAside, KilledStep DEF Next, JobStep, OrderStep, LoopStep

-----------------------------------------------------------------------------
(* One order cut short for each death of the process.                      *)

\* Only a death is counted, and it is one.
LEMMA CrashesCount ==
  ASSUME TypeOK, [Next]_vars
  PROVE  /\ crashes' \in {crashes, crashes + 1}
         /\ crashes' # crashes => Crash \/ \E o \in Orders : InterruptedStep(o)
         /\ Crash \/ (\E o \in Orders : InterruptedStep(o)) => crashes' = crashes + 1
<1>1. Crash \/ (\E o \in Orders : InterruptedStep(o)) => crashes' = crashes + 1
  BY InterruptedDies DEF Crash, Dies
<1>2. ASSUME NEW o \in Orders, OrderStep(o) PROVE crashes' = crashes
  <2>1. CASE ClaimPayment(o) \/ HandlerStep(o)
    BY <2>1 DEF ClaimPayment, HandlerStep, InvoiceAnswered, PersistInvoice, PaySubmit,
       PayAnswered, NotifyAnswered, NotifyAgainAnswered, HandlerFails
  <2>2. CASE CallbackStep(o) \/ RefundStep(o)
    BY <2>2 DEF CallbackStep, CallbackFulfilled, CallbackFailed, RefundStep, RefundSubmit,
       RefundNotSubmitted, RefundAnswered
  <2>3. CASE VccStep(o) \/ GrowOlder(o)
    BY <2>3 DEF VccStep, VccDelivers, VccFails, GrowOlder
  <2>4. CASE ReconcileStep(o)
    BY <2>4 DEF ReconcileStep, HardFailNoJob, AskBeforeHardFail, HardFailPostponed,
       HardFailConfirmed, HardFailNoStatus, HardFail, ClaimAttempt, RetryInvoiceAnswered,
       RetryStatusAnswered, RetryPaySubmit, RetryPayNotSubmitted, RetryPayAnswered,
       RetryNotifyAnswered
  <2>5. CASE RecoverStep(o)
    BY <2>5 DEF RecoverStep, PollSaysDelivered, PollSaysFailed, PollSaysNothing
  <2> QED BY <1>2, <2>1, <2>2, <2>3, <2>4, <2>5 DEF OrderStep
<1>3. ASSUME \/ ExpireStaleOrders \/ LoopStep \/ SetFrozen \/ UNCHANGED vars
             \/ \E o \in Orders : LedgerStep(o)
      PROVE  crashes' = crashes
  BY <1>3 DEF ExpireStaleOrders, LoopStep, ReconcileSelect, ReconcileDone, RecoverSelect,
     RecoverDone, SetFrozen, vars, LedgerStep, TxLands, TxExpires
<1> QED
  BY <1>1, <1>2, <1>3 DEF Next, JobStep, OrderStep, LoopStep

\* A step moves the row of p, what it was charged and what was noted of its refunds:
\* nothing that is recorded is lost.
RecordKept(p) ==
  /\ CtxLegRecorded(row[p]) => CtxLegRecorded(row'[p])
  /\ refunds[p].skipped => refunds'[p].skipped
  /\ row[p].status = "failed" => row'[p].status \in TERMINAL
  /\ row'[p].status = "pending_payment" => row[p].status = "pending_payment"

LEMMA RecordStep ==
  ASSUME ProofInv, [Next]_vars, NEW p \in Orders
  PROVE  RecordKept(p)
<1>1. ASSUME NEW o \in Orders, OrderMoves(o) PROVE RecordKept(p)
  <2>1. refunds[p].skipped => refunds'[p].skipped
    BY <1>1 DEF OrderMoves, RefundsMove
  <2>2. CASE p = o
    BY <1>1, <2>1, <2>2 DEF OrderMoves, Grows, RecordKept, UnpaidStatuses
  <2>3. CASE p # o
    BY <1>1, <2>1, <2>3 DEF OrderMoves, RecordKept
  <2> QED BY <2>2, <2>3
<1>2. ASSUME NEW o \in Orders, Delivers(o) PROVE RecordKept(p)
  BY <1>2, DeliversEffect DEF Delivers, RecordKept, CtxLegRecorded, ProofInv
<1>3. CASE ExpireStaleOrders
  BY <1>3, ExpireEffect DEF RecordKept, CtxLegRecorded, SameEvidence, ProofInv
<1>4. CASE Quiet
  BY <1>4 DEF Quiet, RecordKept
<1> QED
  BY <1>1, <1>2, <1>3, <1>4, StepCases

\* A step at which the process lives on cuts no order short.
LEMMA NotCutShort ==
  ASSUME ProofInv, [Next]_vars, crashes' = crashes, NEW p \in Orders
  PROVE  (Uncharged(p)' => Uncharged(p)) /\ (Unsettled(p)' => Unsettled(p))
<1>1. ~Dies
  BY DEF Dies, ProofInv, TypeOK
<1>2. Uncharged(p)' => Uncharged(p)
  <2>1. ASSUME NEW o \in Orders, OrderMoves(o) PROVE Uncharged(p)' => Uncharged(p)
    <3>1. spent' = spent /\ (p # o => row'[p] = row[p])
          /\ row'[o].card = row[o].card /\ row'[o].api_key_id = row[o].api_key_id
      BY <2>1 DEF OrderMoves, Grows
    <3> QED BY <3>1 DEF Uncharged
  <2>2. ASSUME NEW o \in Orders, Delivers(o) PROVE Uncharged(p)' => Uncharged(p)
    <3>1. Charge(o)
      BY <1>1, <2>2 DEF Delivers
    <3>2. /\ row[o].api_key_id => spent'[o] = 1
          /\ row'[o].api_key_id = row[o].api_key_id
          /\ p # o => row'[p] = row[p] /\ spent'[p] = spent[p]
      BY <2>2, <3>1, DeliversEffect DEF ProofInv
    <3> QED BY <3>2 DEF Uncharged
  <2>3. CASE ExpireStaleOrders
    <3>1. spent' = spent /\ row'[p].card = row[p].card /\ row'[p].api_key_id = row[p].api_key_id
      BY <2>3, ExpireEffect DEF SameEvidence, ProofInv
    <3> QED BY <3>1 DEF Uncharged
  <2>4. CASE Quiet
    BY <2>4 DEF Quiet, Uncharged
  <2> QED BY <2>1, <2>2, <2>3, <2>4, StepCases
<1>3. row'[p].status = "failed" =>
        row[p].status = "failed" \/ CtxLegRecorded(row'[p]) \/ refunds'[p].skipped
  <2>1. CASE OrderStep(p)
    BY <2>1, OrderStepRow DEF RowMoves, ProofInv
  <2>2. CASE Aside(p)
    BY <2>2 DEF Aside
  <2>3. CASE ExpireStaleOrders
    BY <2>3, ExpireEffect DEF ProofInv
  <2>4. ~Killed(p)
    BY <1>1 DEF Killed
  <2> QED BY <2>1, <2>2, <2>3, <2>4, StepKinds DEF ProofInv
<1>4. Unsettled(p)' => Unsettled(p)
  BY <1>3, RecordStep DEF RecordKept, Unsettled
<1> QED
  BY <1>2, <1>4

\* A death between two statements about order o cuts short no other.
LEMMA OneCutShort ==
  ASSUME ProofInv, NEW o \in Orders, InterruptedStep(o), NEW p \in Orders, p # o
  PROVE  (Uncharged(p)' => Uncharged(p)) /\ (Unsettled(p)' => Unsettled(p))
<1>1. OrderMoves(o) \/ Delivers(o)
  BY InterruptedInv DEF GoodStep, ProofInv
<1>2. row'[p] = row[p] /\ spent'[p] = spent[p]
  BY <1>1, DeliversEffect DEF OrderMoves, ProofInv
<1>3. [Next]_vars
  BY DEF Next
<1>4. refunds[p].skipped => refunds'[p].skipped
  BY <1>3, RecordStep DEF RecordKept
<1> QED
  BY <1>2, <1>4 DEF Uncharged, Unsettled

CutInv == IsFiniteSet(CutShort) /\ Cardinality(CutShort) <= crashes

LEMMA CutStep ==
  ASSUME ProofInv, CutInv, [Next]_vars
  PROVE  CutInv'
<1>1. crashes \in Nat /\ IsFiniteSet(CutShort) /\ Cardinality(CutShort) \in Nat
  BY FS_CardinalityType DEF ProofInv, TypeOK, CutInv
<1>2. CASE crashes' = crashes
  <2>1. CutShort' \subseteq CutShort
    BY <1>2, NotCutShort DEF CutShort
  <2>2. IsFiniteSet(CutShort') /\ Cardinality(CutShort') <= Cardinality(CutShort)
    BY <1>1, <2>1, FS_Subset
  <2>3. Cardinality(CutShort') \in Nat
    BY <2>2, FS_CardinalityType
  <2> QED BY <1>1, <1>2, <2>2, <2>3 DEF CutInv
<1>3. CASE Crash
  <2>1. /\ UNCHANGED <<row, spent>> /\ crashes' = crashes + 1
        /\ \A p \in Orders : refunds'[p].skipped = refunds[p].skipped
    BY <1>3, DiesEffect DEF Crash, Dies, ProofInv
  <2>2. CutShort' = CutShort
    BY <2>1 DEF CutShort, Uncharged, Unsettled
  <2> QED BY <1>1, <2>1, <2>2 DEF CutInv
<1>4. ASSUME NEW o \in Orders, InterruptedStep(o) PROVE CutInv'
  <2>1. CutShort' \subseteq CutShort \cup {o}
    BY <1>4, OneCutShort DEF CutShort
  <2>2. /\ IsFiniteSet(CutShort \cup {o})
        /\ Cardinality(CutShort \cup {o}) \in {Cardinality(CutShort), Cardinality(CutShort) + 1}
    BY <1>1, FS_AddElement
  <2>3. IsFiniteSet(CutShort') /\ Cardinality(CutShort') <= Cardinality(CutShort \cup {o})
    BY <2>1, <2>2, FS_Subset
  <2>4. Cardinality(CutShort') \in Nat /\ crashes' = crashes + 1
    BY <1>4, <2>3, FS_CardinalityType, InterruptedDies DEF Dies
  <2> QED BY <1>1, <2>2, <2>3, <2>4 DEF CutInv
<1> QED
  BY <1>2, <1>3, <1>4, CrashesCount DEF ProofInv

\* The death of the process between two statements leaves at most one order with an
\* uncharged card or without its refund; nothing else does.
THEOREM CutShortIsCounted == Spec => []OneCutShortPerRestart
<1>1. Init => CutInv
  <2> SUFFICES ASSUME Init PROVE CutInv
    OBVIOUS
  <2>1. PICK keyed : row = [o \in Orders |-> [NewRow EXCEPT !.api_key_id = o \in keyed]]
    BY DEF Init
  <2>2. \A o \in Orders : row[o].status = "pending_payment" /\ ~row[o].card
    BY <2>1 DEF NewRow
  <2>3. CutShort = {}
    BY <2>2 DEF CutShort, Uncharged, Unsettled
  <2>4. crashes = 0
    BY DEF Init
  <2> QED BY <2>3, <2>4, FS_EmptySet DEF CutInv
<1>2. ProofInv /\ CutInv /\ [Next]_vars => CutInv'
  BY CutStep
<1>3. CutInv => OneCutShortPerRestart
  BY DEF CutInv, OneCutShortPerRestart
<1> QED
  BY <1>1, <1>2, <1>3, InitProofInv, NextProofInv, PTL DEF Spec

-----------------------------------------------------------------------------
(* Refunds that are sent were claimed, and no third one is claimed.        *)

LEMMA TxsAreFinite ==
  ASSUME TypeOK, NEW o \in Orders
  PROVE  /\ IsFiniteSet(CtxTxs(o)) /\ Cardinality(CtxTxs(o)) \in Nat
         /\ IsFiniteSet(SenderTxs(o)) /\ Cardinality(SenderTxs(o)) \in Nat
<1>1. PICK s \in Seq(Tx) : s = ledger[o]
  BY DEF TypeOK
<1>2. Len(s) \in Nat /\ DOMAIN s = 1..Len(s)
  BY <1>1
<1>3. IsFiniteSet(1..Len(s))
  BY <1>2, FS_Interval
<1>4. CtxTxs(o) \subseteq 1..Len(s) /\ SenderTxs(o) \subseteq 1..Len(s)
  BY <1>1, <1>2 DEF CtxTxs, SenderTxs
<1> QED
  BY <1>3, <1>4, FS_Subset, FS_CardinalityType

LEMMA LandedAreSent ==
  ASSUME TypeOK, NEW o \in Orders
  PROVE  /\ Cardinality(Landed(o, "sender")) <= Cardinality(SenderTxs(o))
         /\ Cardinality(Landed(o, "ctx")) <= Cardinality(CtxTxs(o))
         /\ Cardinality(Landed(o, "sender")) \in Nat /\ Cardinality(Landed(o, "ctx")) \in Nat
<1>1. Landed(o, "sender") \subseteq SenderTxs(o) /\ Landed(o, "ctx") \subseteq CtxTxs(o)
  BY DEF Landed, SenderTxs, CtxTxs
<1> QED
  BY <1>1, TxsAreFinite, FS_Subset, FS_CardinalityType

\* Claims and sends stay as they are; a handler starts at most where the order was
\* not paid for.
RefundKeeps(p) ==
  /\ refunds'[p].claims = refunds[p].claims /\ refunds'[p].start = refunds[p].start
  /\ SenderTxs(p)' = SenderTxs(p)
  /\ handler'[p].pc # "idle" => handler[p].pc # "idle" \/ row[p].status = "pending_payment"

\* At most one refund is claimed: for an open order, or by a handler that ends.
RefundSettles(p) ==
  /\ \E n \in {0, 1} : /\ refunds'[p].claims = refunds[p].claims + n
                       /\ refunds'[p].start = refunds[p].start + n
  /\ SenderTxs(p)' = SenderTxs(p)
  /\ \/ row[p].status \notin TERMINAL /\ handler'[p] = handler[p]
     \/ handler[p].pc # "idle" /\ handler'[p].pc = "idle"

\* A claimed refund is submitted or given up.
RefundSends(p) ==
  /\ refunds'[p].claims = refunds[p].claims
  /\ refunds[p].start > 0 /\ refunds'[p].start = refunds[p].start - 1
  /\ \E k : SenderTxs(p)' \subseteq SenderTxs(p) \cup {k}
  /\ handler'[p] = handler[p]

\* Settling twice claims at most one refund: the first claim closes the order.
LEMMA SettleClaims ==
  ASSUME TypeOK, NEW o \in Orders, NEW r \in Row, Settle(o, r) \/ SettleTwice(o, r)
  PROVE  \E n \in {0, 1} : /\ refunds'[o].claims = refunds[o].claims + n
                           /\ refunds'[o].start = refunds[o].start + n
<1>1. Sends(r) \in {0, 1} /\ Sends(RefundOrQuarantine(r)) \in {0, 1}
  BY SendsType
<1>2. Sends(r) = 1 => Sends(RefundOrQuarantine(r)) = 0
  <2>1. ASSUME Sends(r) = 1 PROVE RefundOrQuarantine(r) = [r EXCEPT !.status = "refund_pending"]
    BY <2>1 DEF Sends, RefundOrQuarantine, ScheduleRefund
  <2>2. ~RefundClaimable([r EXCEPT !.status = "refund_pending"])
    BY DEF RefundClaimable, Row
  <2> QED BY <2>1, <2>2 DEF Sends, RefundClaimed
<1>3. Sends(r) + Sends(RefundOrQuarantine(r)) \in {0, 1}
  BY <1>1, <1>2
<1>4. PICK n \in {0, 1} : \E skip : refunds'[o] = Claimed(refunds[o], n, skip)
  BY <1>1, <1>3 DEF Settle, SettleTwice, StartSends, TypeOK
<1> QED
  BY <1>4 DEF Claimed

LEMMA OrderStepRefund ==
  ASSUME TypeOK, FulfillmentInv, NEW o \in Orders, OrderStep(o)
  PROVE  RefundKeeps(o) \/ RefundSettles(o) \/ RefundSends(o)
<1>1. row[o] \in Row /\ refunds[o] \in RefundState
  BY DEF TypeOK
<1>2. ASSUME UNCHANGED refunds, TxsKept(o),
             handler'[o].pc # "idle" => handler[o].pc # "idle" \/ row[o].status = "pending_payment"
      PROVE  RefundKeeps(o)
  BY <1>2 DEF RefundKeeps, TxsKept
<1>3. ASSUME NEW st \in TERMINAL, TxsKept(o),
             LET r == [row[o] EXCEPT !.status = st] IN Settle(o, r) \/ SettleTwice(o, r),
             \/ row[o].status \notin TERMINAL /\ handler'[o] = handler[o]
             \/ handler[o].pc # "idle" /\ handler'[o].pc = "idle"
      PROVE  RefundSettles(o)
  <2>1. [row[o] EXCEPT !.status = st] \in Row
    BY <1>1, RowChangeTypes
  <2> QED BY <1>3, <2>1, SettleClaims DEF RefundSettles, TxsKept
<1>4. UNCHANGED ledger => TxsKept(o)
  BY SameTxs
<1>5. \A i, out : SubmitAnswer(o, i, out) => TxsKept(o)
  BY AnsweredTxs
<1>6. Submit(o, "ctx") => SenderTxs(o)' = SenderTxs(o)
  BY SubmittedTxs
<1>7. \A pc : HandlerTo(o, pc) => handler'[o].pc = pc
  BY DEF HandlerTo, TypeOK
<1>8. CASE ClaimPayment(o)
  BY <1>2, <1>4, <1>8 DEF ClaimPayment
<1>9. CASE HandlerStep(o)
  <2>1. CASE InvoiceAnswered(o) \/ PersistInvoice(o) \/ NotifyAnswered(o) \/ NotifyAgainAnswered(o)
    BY <1>2, <1>4, <2>1 DEF InvoiceAnswered, PersistInvoice, NotifyAnswered,
       NotifyAgainAnswered, HandlerAt
  <2>2. CASE PaySubmit(o)
    BY <1>6, <2>2 DEF PaySubmit, HandlerAt, RefundKeeps
  <2>3. CASE PayAnswered(o)
    BY <1>2, <1>5, <2>3 DEF PayAnswered, HandlerAt
  <2>4. CASE HandlerFails(o)
    <3>1. TxsKept(o) /\ handler[o].pc # "idle"
      BY <1>4, <1>5, <2>4 DEF HandlerFails, HandlerThrows, HandlerAt
    <3> QED BY <1>3, <1>7, <2>4, <3>1 DEF HandlerFails
  <2> QED BY <1>9, <2>1, <2>2, <2>3, <2>4 DEF HandlerStep
<1>10. CASE CallbackStep(o)
  <2>1. CASE CallbackFulfilled(o)
    BY <1>2, <1>4, <2>1 DEF CallbackFulfilled
  <2>2. CASE CallbackFailed(o)
    BY <1>3, <1>4, <2>2 DEF CallbackFailed, FailureAccepted, FailedTarget
  <2> QED BY <1>10, <2>1, <2>2 DEF CallbackStep
<1>11. CASE RefundStep(o)
  <2>1. CASE RefundSubmit(o)
    <3>1. refunds'[o] = Submitted(refunds[o], Len(ledger'[o])) /\ refunds[o].start > 0
      BY <2>1 DEF RefundSubmit, TypeOK
    <3>2. SenderTxs(o)' \subseteq SenderTxs(o) \cup {Len(ledger'[o])}
      BY <2>1, SubmittedTxs DEF RefundSubmit
    <3>3. ASSUME NEW f \in RefundState, NEW i
          PROVE  Submitted(f, i).claims = f.claims /\ Submitted(f, i).start = f.start - 1
      BY DEF Submitted, RefundState
    <3> QED BY <1>1, <2>1, <3>1, <3>2, <3>3 DEF RefundSubmit, RefundSends
  <2>2. CASE RefundNotSubmitted(o)
    <3>1. refunds'[o] = Dropped(refunds[o]) /\ refunds[o].start > 0
      BY <2>2 DEF RefundNotSubmitted, TypeOK
    <3>2. SenderTxs(o)' = SenderTxs(o)
      BY <1>4, <2>2 DEF RefundNotSubmitted, TxsKept
    <3>3. ASSUME NEW f \in RefundState
          PROVE  Dropped(f).claims = f.claims /\ Dropped(f).start = f.start - 1
      BY DEF Dropped, RefundState
    <3> QED BY <1>1, <2>2, <3>1, <3>2, <3>3 DEF RefundNotSubmitted, RefundSends
  <2>3. ASSUME NEW i \in refunds[o].held, RefundAnswered(o, i) PROVE RefundKeeps(o)
    <3>1. refunds'[o] = Answered(refunds[o], i) /\ UNCHANGED handler
      BY <2>3 DEF RefundAnswered, TypeOK
    <3>2. SenderTxs(o)' = SenderTxs(o)
      BY <1>5, <2>3 DEF RefundAnswered, TxsKept
    <3>3. ASSUME NEW f \in RefundState
          PROVE  Answered(f, i).claims = f.claims /\ Answered(f, i).start = f.start
      BY DEF Answered, RefundState
    <3> QED BY <1>1, <3>1, <3>2, <3>3 DEF RefundKeeps
  <2> QED BY <1>11, <2>1, <2>2, <2>3 DEF RefundStep
<1>12. CASE VccStep(o) \/ GrowOlder(o)
  BY <1>2, <1>4, <1>12 DEF VccStep, VccDelivers, VccFails, GrowOlder
<1>13. CASE ReconcileStep(o)
  <2>1. CASE HardFailNoJob(o) \/ HardFailConfirmed(o) \/ HardFailNoStatus(o)
    <3>1. HardFail(o) /\ UNCHANGED <<handler, ledger>>
      BY <2>1 DEF HardFailNoJob, HardFailConfirmed, HardFailNoStatus, HardFail
    <3> QED BY <1>2, <1>3, <1>4, <3>1 DEF HardFail
  <2>2. CASE \/ AskBeforeHardFail(o) \/ HardFailPostponed(o) \/ ClaimAttempt(o)
             \/ RetryInvoiceAnswered(o) \/ RetryStatusAnswered(o) \/ RetryPayNotSubmitted(o)
             \/ RetryNotifyAnswered(o)
    BY <1>2, <1>4, <2>2 DEF AskBeforeHardFail, HardFailPostponed, ClaimAttempt,
       RetryInvoiceAnswered, RetryStatusAnswered, RetryPayNotSubmitted, RetryNotifyAnswered
  <2>3. CASE RetryPaySubmit(o)
    BY <1>6, <2>3 DEF RetryPaySubmit, RefundKeeps
  <2>4. CASE RetryPayAnswered(o)
    BY <1>2, <1>5, <2>4 DEF RetryPayAnswered
  <2> QED BY <1>13, <2>1, <2>2, <2>3, <2>4 DEF ReconcileStep
<1>14. CASE RecoverStep(o)
  <2>1. CASE PollSaysDelivered(o) \/ PollSaysNothing(o)
    BY <1>2, <1>4, <2>1 DEF PollSaysDelivered, PollSaysNothing
  <2>2. CASE PollSaysFailed(o)
    BY <1>3, <1>4, <2>2 DEF PollSaysFailed, FailurePolled, FailedTarget
  <2> QED BY <1>14, <2>1, <2>2 DEF RecoverStep
<1> QED
  BY <1>8, <1>9, <1>10, <1>11, <1>12, <1>13, <1>14 DEF OrderStep

\* The numbers of one order.
LEMMA RefundNumbers ==
  ASSUME NEW S, NEW T, IsFiniteSet(S), NEW k, T \subseteq S \cup {k}
  PROVE  Cardinality(T) \in Nat /\ Cardinality(T) <= Cardinality(S) + 1
<1>1. /\ IsFiniteSet(S \cup {k}) /\ Cardinality(S) \in Nat
      /\ Cardinality(S \cup {k}) \in {Cardinality(S), Cardinality(S) + 1}
  BY FS_AddElement, FS_CardinalityType
<1>2. IsFiniteSet(T) /\ Cardinality(T) <= Cardinality(S \cup {k})
  BY <1>1, FS_Subset
<1> QED
  BY <1>1, <1>2, FS_CardinalityType

LEMMA RefundsStep ==
  ASSUME ProofInv, [Next]_vars, NEW o \in Orders, RefundsBooked(o)
  PROVE  RefundsBooked(o)'
<1>1. /\ refunds[o].claims \in Nat /\ refunds[o].start \in Nat /\ TypeOK
      /\ refunds[o].claims > 0 => row[o].status \in TERMINAL
  BY DEF ProofInv, TypeOK, RefundState, FulfillmentInv, OrderInv, OutcomesClose
<1>2. IsFiniteSet(SenderTxs(o)) /\ Cardinality(SenderTxs(o)) \in Nat
  BY <1>1, TxsAreFinite
<1>3. CASE RefundKeeps(o)
  <2>1. Cardinality(SenderTxs(o)') + refunds'[o].start <= refunds'[o].claims
    BY <1>3 DEF RefundKeeps, RefundsBooked
  <2>2. refunds'[o].claims <= IF handler'[o].pc = "idle" THEN 2 ELSE 1
    BY <1>1, <1>3 DEF RefundKeeps, RefundsBooked
  <2> QED BY <2>1, <2>2 DEF RefundsBooked
<1>4. CASE RefundSettles(o)
  <2>1. PICK n \in {0, 1} : /\ refunds'[o].claims = refunds[o].claims + n
                           /\ refunds'[o].start = refunds[o].start + n
    BY <1>4 DEF RefundSettles
  <2>2. Cardinality(SenderTxs(o)') + refunds'[o].start <= refunds'[o].claims
    <3>1. Cardinality(SenderTxs(o)') = Cardinality(SenderTxs(o))
      BY <1>4 DEF RefundSettles
    <3> QED BY <1>1, <1>2, <2>1, <3>1 DEF RefundsBooked
  <2>3. refunds'[o].claims <= IF handler'[o].pc = "idle" THEN 2 ELSE 1
    BY <1>1, <1>4, <2>1 DEF RefundSettles, RefundsBooked
  <2> QED BY <2>2, <2>3 DEF RefundsBooked
<1>5. CASE RefundSends(o)
  <2>1. /\ Cardinality(SenderTxs(o)') \in Nat
        /\ Cardinality(SenderTxs(o)') <= Cardinality(SenderTxs(o)) + 1
    BY <1>2, <1>5, RefundNumbers DEF RefundSends
  <2>2. Cardinality(SenderTxs(o)') + refunds'[o].start <= refunds'[o].claims
    BY <1>1, <1>2, <1>5, <2>1 DEF RefundSends, RefundsBooked
  <2>3. refunds'[o].claims <= IF handler'[o].pc = "idle" THEN 2 ELSE 1
    BY <1>5 DEF RefundSends, RefundsBooked
  <2> QED BY <2>2, <2>3 DEF RefundsBooked
<1>6. CASE Aside(o)
  BY <1>6 DEF Aside, TxsKept, RefundsBooked
<1>7. CASE ExpireStaleOrders
  BY <1>7, SameTxs DEF ExpireStaleOrders, TxsKept, RefundsBooked
<1>8. CASE Killed(o)
  <2>1. handler'[o].pc = "idle" /\ refunds'[o].claims = refunds[o].claims
    BY <1>1, <1>8, DiesEffect DEF Killed
  <2>2. refunds'[o].start = 0
    <3>1. ASSUME NEW f \in RefundState PROVE Forgotten(f).start = 0
      BY DEF Forgotten, RefundState
    <3> QED BY <1>1, <1>8, <3>1 DEF Killed, Dies, TypeOK
  <2>3. Cardinality(SenderTxs(o)') + refunds'[o].start <= refunds'[o].claims
    <3>1. Cardinality(SenderTxs(o)') = Cardinality(SenderTxs(o))
      BY <1>8 DEF Killed, TxsKept
    <3> QED BY <1>1, <1>2, <2>1, <2>2, <3>1 DEF RefundsBooked
  <2>4. refunds'[o].claims <= IF handler'[o].pc = "idle" THEN 2 ELSE 1
    BY <1>1, <2>1 DEF RefundsBooked
  <2> QED BY <2>3, <2>4 DEF RefundsBooked
<1> QED
  BY <1>1, <1>3, <1>4, <1>5, <1>6, <1>7, <1>8, StepKinds, OrderStepRefund DEF ProofInv

\* A refund that is claimed is sent at most once, and at most two are claimed: the
\* second by the catch block of a handler whose order was closed behind its back.
THEOREM RefundsAreBooked == Spec => []RefundsFollowClaims
<1> DEFINE Inv == \A o \in Orders : RefundsBooked(o)
<1>1. Init => Inv
  <2> SUFFICES ASSUME Init, NEW o \in Orders PROVE RefundsBooked(o)
    OBVIOUS
  <2>1. ledger[o] = <<>> /\ refunds[o].claims = 0 /\ refunds[o].start = 0
    BY DEF Init
  <2>2. SenderTxs(o) = {}
    BY <2>1 DEF SenderTxs
  <2> QED BY <2>1, <2>2, FS_EmptySet DEF RefundsBooked
<1>2. ProofInv /\ Inv /\ [Next]_vars => Inv'
  BY RefundsStep
<1>3. ProofInv /\ Inv => RefundsFollowClaims
  <2> SUFFICES ASSUME ProofInv, Inv, NEW o \in Orders
      PROVE  /\ Cardinality(Landed(o, "sender")) <= refunds[o].claims
             /\ refunds[o].claims <= IF handler[o].pc = "idle" THEN 2 ELSE 1
    BY DEF RefundsFollowClaims
  <2>1. refunds[o].claims \in Nat /\ refunds[o].start \in Nat /\ TypeOK
    BY DEF ProofInv, TypeOK, RefundState
  <2>2. RefundsBooked(o)
    OBVIOUS
  <2> HIDE DEF Inv
  <2> QED BY <2>1, <2>2, TxsAreFinite, LandedAreSent DEF RefundsBooked
<1> QED
  BY <1>1, <1>2, <1>3, InitProofInv, NextProofInv, PTL DEF Spec

-----------------------------------------------------------------------------
(* Payments to CTX: the handler's one, and one for each attempt.           *)

HandlerAtPay(p) ==
  handler[p].pc \in {"invoice", "price"} \/ (handler[p].pc = "pay" /\ handler[p].tx = 0)

\* No payment is made, and nobody is newly allowed to make one.
PaymentsKept(p) ==
  /\ CtxTxs(p)' = CtxTxs(p)
  /\ HandlerAtPay(p)' => HandlerAtPay(p) \/ ClaimPayment(p)
  /\ JobMayPay(p)' => JobMayPay(p) \/ ClaimAttempt(p)

\* Where the jobs are at order o after a move.
LEMMA JobMovePay ==
  ASSUME TypeOK, NEW o \in Orders
  PROVE  /\ \A pc : Continue(o, pc) => ~JobMayPay(o)'
         /\ \A pc : JobTo(pc) /\ jobs.cur = o =>
              (JobMayPay(o)' => pc \in {"retry_invoice", "retry_status", "retry_pay"})
         /\ Take(o, "hard_fail_check") => ~JobMayPay(o)'
         /\ jobs' = jobs => (JobMayPay(o)' => JobMayPay(o))
<1>1. ASSUME NEW pc, Continue(o, pc) PROVE ~JobMayPay(o)'
  <2>1. jobs'.cur = NoOrder
    BY <1>1 DEF Continue, TypeOK
  <2> QED BY <2>1, NoOrderIsNotAnOrder DEF JobMayPay
<1>2. ASSUME NEW pc, JobTo(pc), JobMayPay(o)'
      PROVE  pc \in {"retry_invoice", "retry_status", "retry_pay"}
  <2>1. jobs'.pc = pc
    BY <1>2 DEF JobTo, TypeOK
  <2> QED BY <1>2, <2>1 DEF JobMayPay
<1>3. ASSUME Take(o, "hard_fail_check") PROVE ~JobMayPay(o)'
  <2>1. jobs'.pc = "hard_fail_check"
    BY <1>3 DEF Take, TypeOK
  <2> QED BY <2>1 DEF JobMayPay
<1>4. ASSUME jobs' = jobs PROVE JobMayPay(o)' => JobMayPay(o)
  BY <1>4 DEF JobMayPay
<1> QED
  BY <1>1, <1>2, <1>3, <1>4

LEMMA OrderStepPay ==
  ASSUME TypeOK, NEW o \in Orders, OrderStep(o)
  PROVE  PaymentsKept(o) \/ PaySubmit(o) \/ RetryPaySubmit(o)
<1>1. UNCHANGED ledger => CtxTxs(o)' = CtxTxs(o)
  BY SameTxs DEF TxsKept
<1>2. \A i, out : SubmitAnswer(o, i, out) => CtxTxs(o)' = CtxTxs(o)
  BY AnsweredTxs DEF TxsKept
<1>3. UNCHANGED handler => (HandlerAtPay(o)' => HandlerAtPay(o))
  BY DEF HandlerAtPay
<1>4. UNCHANGED jobs => (JobMayPay(o)' => JobMayPay(o))
  BY JobMovePay
<1>5. \A pc \in {"idle", "notify", "notify_again"} : HandlerTo(o, pc) => ~HandlerAtPay(o)'
  BY DEF HandlerTo, HandlerAtPay, TypeOK
<1>6. CASE ClaimPayment(o)
  BY <1>1, <1>4, <1>6 DEF ClaimPayment, PaymentsKept
<1>7. CASE HandlerStep(o)
  <2>1. CASE InvoiceAnswered(o) \/ PersistInvoice(o)
    <3>1. HandlerAtPay(o) /\ UNCHANGED <<jobs, ledger>>
      BY <2>1 DEF InvoiceAnswered, PersistInvoice, HandlerAt, HandlerAtPay
    <3> QED BY <1>1, <1>4, <3>1 DEF PaymentsKept
  <2>2. CASE NotifyAnswered(o) \/ NotifyAgainAnswered(o)
    BY <1>1, <1>4, <1>5, <2>2 DEF NotifyAnswered, NotifyAgainAnswered, PaymentsKept
  <2>3. CASE PayAnswered(o)
    BY <1>2, <1>4, <1>5, <2>3 DEF PayAnswered, PaymentsKept
  <2>4. CASE HandlerFails(o)
    <3>1. CtxTxs(o)' = CtxTxs(o) /\ UNCHANGED jobs /\ HandlerTo(o, "idle")
      BY <1>1, <1>2, <2>4 DEF HandlerFails, HandlerThrows
    <3> QED BY <1>4, <1>5, <3>1 DEF PaymentsKept
  <2> QED BY <1>7, <2>1, <2>2, <2>3, <2>4 DEF HandlerStep
<1>8. CASE CallbackStep(o)
  BY <1>1, <1>3, <1>4, <1>8 DEF CallbackStep, CallbackFulfilled, CallbackFailed, PaymentsKept
<1>9. CASE RefundStep(o)
  <2>1. CASE RefundSubmit(o)
    BY <1>3, <1>4, <2>1, SubmittedTxs DEF RefundSubmit, PaymentsKept
  <2>2. CASE RefundNotSubmitted(o)
    BY <1>1, <1>3, <1>4, <2>2 DEF RefundNotSubmitted, PaymentsKept
  <2>3. ASSUME NEW i \in refunds[o].held, RefundAnswered(o, i) PROVE PaymentsKept(o)
    BY <1>2, <1>3, <1>4, <2>3 DEF RefundAnswered, PaymentsKept
  <2> QED BY <1>9, <2>1, <2>2, <2>3 DEF RefundStep
<1>10. CASE VccStep(o) \/ GrowOlder(o)
  BY <1>1, <1>3, <1>4, <1>10 DEF VccStep, VccDelivers, VccFails, GrowOlder, PaymentsKept
<1>11. CASE ReconcileStep(o)
  <2>1. \A pc : Continue(o, pc) => ~JobMayPay(o)'
    BY JobMovePay
  <2>2. CASE HardFailNoJob(o) \/ HardFailConfirmed(o) \/ HardFailNoStatus(o)
    <3>1. Continue(o, "reconciling") /\ UNCHANGED <<handler, ledger>>
      BY <2>2 DEF HardFailNoJob, HardFailConfirmed, HardFailNoStatus, HardFail
    <3> QED BY <1>1, <1>3, <2>1, <3>1 DEF PaymentsKept
  <2>3. CASE AskBeforeHardFail(o)
    BY <1>1, <1>3, <2>3, JobMovePay DEF AskBeforeHardFail, PaymentsKept
  <2>4. CASE HardFailPostponed(o)
    BY <1>1, <1>3, <2>1, <2>4 DEF HardFailPostponed, PaymentsKept
  <2>5. CASE ClaimAttempt(o)
    BY <1>1, <1>3, <2>5 DEF ClaimAttempt, PaymentsKept
  <2>6. ASSUME jobs.cur = o, ToNotify(o) PROVE ~JobMayPay(o)'
    <3>1. JobTo("retry_notify") => ~JobMayPay(o)'
      BY <2>6, JobMovePay
    <3> QED BY <2>1, <2>6, <3>1 DEF ToNotify
  <2>7. ASSUME RetryFails(o) PROVE ~JobMayPay(o)'
    BY <2>1, <2>7 DEF RetryFails
  <2>8. CASE RetryInvoiceAnswered(o) \/ RetryStatusAnswered(o)
    <3>1. JobMayPay(o) /\ UNCHANGED <<handler, ledger>>
      BY <2>8 DEF RetryInvoiceAnswered, RetryStatusAnswered, JobAt, JobMayPay
    <3> QED BY <1>1, <1>3, <3>1 DEF PaymentsKept
  <2>9. CASE RetryPayNotSubmitted(o)
    BY <1>1, <1>3, <2>7, <2>9 DEF RetryPayNotSubmitted, PaymentsKept
  <2>10. CASE RetryPayAnswered(o)
    <3>1. ~JobMayPay(o)'
      BY <2>1, <2>6, <2>7, <2>10 DEF RetryPayAnswered
    <3> QED BY <1>2, <1>3, <2>10, <3>1 DEF RetryPayAnswered, PaymentsKept
  <2>11. CASE RetryNotifyAnswered(o)
    <3>1. ~JobMayPay(o)'
      BY <2>1, <2>7, <2>11 DEF RetryNotifyAnswered
    <3> QED BY <1>1, <1>3, <2>11, <3>1 DEF RetryNotifyAnswered, PaymentsKept
  <2>12. CASE RetryPaySubmit(o)
    BY <2>12
  <2> QED BY <1>11, <2>2, <2>3, <2>4, <2>5, <2>8, <2>9, <2>10, <2>11, <2>12
          DEF ReconcileStep
<1>12. CASE RecoverStep(o)
  <2>1. Continue(o, "recovering") /\ UNCHANGED <<handler, ledger>>
    BY <1>12 DEF RecoverStep, PollSaysDelivered, PollSaysFailed, PollSaysNothing
  <2> QED BY <1>1, <1>3, <2>1, JobMovePay DEF PaymentsKept
<1> QED
  BY <1>6, <1>7, <1>8, <1>9, <1>10, <1>11, <1>12 DEF OrderStep

\* Claiming an attempt counts it, or leaves the order.
LEMMA ClaimAttemptCounts ==
  ASSUME TypeOK, NEW o \in Orders, ClaimAttempt(o)
  PROVE  /\ ~JobMayPay(o)
         /\ \/ /\ row'[o].fulfillment_attempt = row[o].fulfillment_attempt + 1
               /\ row'[o].fulfillment_attempt <= MaxAttempts
            \/ ~JobMayPay(o)' /\ row' = row
         /\ UNCHANGED <<handler, ledger>>
<1>1. ~JobMayPay(o) /\ UNCHANGED <<handler, ledger>>
  BY DEF ClaimAttempt, JobAt, JobMayPay
<1>2. row[o] \in Row /\ jobs.snap[o] \in Row /\ MaxAttempts \in Nat
  BY BoundsAreNaturals DEF TypeOK
<1>3. CASE Update(o, AttemptCounted(row[o])) /\ AttemptClaimable(o)
  <2>1. AttemptCounted(row[o]) \in Row
    BY <1>2, RowChangeTypes
  <2>2. AttemptCounted(row[o]).fulfillment_attempt = row[o].fulfillment_attempt + 1
    BY <1>2 DEF AttemptCounted, Row
  <2>3. [AttemptCounted(row[o]) EXCEPT !.age = "fresh"].fulfillment_attempt
          = AttemptCounted(row[o]).fulfillment_attempt
    BY <2>1 DEF Row
  <2>4. row'[o].fulfillment_attempt = row[o].fulfillment_attempt + 1
    BY <1>3, <2>1, <2>2, <2>3, UpdateType DEF TypeOK
  <2>5. ~(row[o].fulfillment_attempt >= MaxAttempts)
    BY <1>3 DEF ClaimAttempt, OutOfTime, AttemptClaimable
  <2>6. row[o].fulfillment_attempt \in Nat
    BY <1>2 DEF Row
  <2> QED BY <1>1, <1>2, <2>4, <2>5, <2>6
<1>4. CASE UNCHANGED row /\ Continue(o, "reconciling")
  BY <1>1, <1>4, JobMovePay
<1> QED
  BY <1>3, <1>4 DEF ClaimAttempt

LEMMA PaymentsStep ==
  ASSUME ProofInv, [Next]_vars, NEW o \in Orders, PaymentsBooked(o)
  PROVE  PaymentsBooked(o)'
<1>1. TypeOK /\ row[o].fulfillment_attempt \in Nat /\ MaxAttempts \in Nat
  BY BoundsAreNaturals DEF ProofInv, TypeOK, Row
<1>2. IsFiniteSet(CtxTxs(o)) /\ Cardinality(CtxTxs(o)) \in Nat
  BY <1>1, TxsAreFinite
<1>3. row'[o].status = "pending_payment" => row[o].status = "pending_payment"
  BY RecordStep DEF RecordKept
<1>4. row[o].status = "pending_payment" => handler[o].pc = "idle"
  BY DEF ProofInv, FulfillmentInv, OrderInv, UnpaidIsUntouched
<1>5. HandlerMayPay(o) <=> row[o].status = "pending_payment" \/ HandlerAtPay(o)
  BY DEF HandlerMayPay, HandlerAtPay
<1>6. HandlerMayPay(o)' <=> row'[o].status = "pending_payment" \/ HandlerAtPay(o)'
  BY DEF HandlerMayPay, HandlerAtPay
<1>7. ASSUME Cardinality(CtxTxs(o)') = Cardinality(CtxTxs(o)),
             row'[o].fulfillment_attempt = row[o].fulfillment_attempt,
             HandlerMayPay(o)' => HandlerMayPay(o), JobMayPay(o)' => JobMayPay(o)
      PROVE  PaymentsBooked(o)'
  BY <1>1, <1>2, <1>7 DEF PaymentsBooked
<1>8. CASE ClaimAttempt(o)
  <2>1. /\ Cardinality(CtxTxs(o)') = Cardinality(CtxTxs(o))
        /\ HandlerMayPay(o)' => HandlerMayPay(o)
    BY <1>1, <1>3, <1>5, <1>6, <1>8, ClaimAttemptCounts, SameTxs DEF TxsKept, HandlerAtPay
  <2>2. CASE ~JobMayPay(o)' /\ row' = row
    BY <1>7, <2>1, <2>2
  <2>3. CASE /\ row'[o].fulfillment_attempt = row[o].fulfillment_attempt + 1
             /\ row'[o].fulfillment_attempt <= MaxAttempts
    <3>1. ~JobMayPay(o)
      BY <1>1, <1>8, ClaimAttemptCounts
    <3> QED BY <1>1, <1>2, <2>1, <2>3, <3>1 DEF PaymentsBooked
  <2> QED BY <1>1, <1>8, <2>2, <2>3, ClaimAttemptCounts
<1>9. ASSUME Submit(o, "ctx"), row' = row
      PROVE  /\ Cardinality(CtxTxs(o)') \in Nat
             /\ Cardinality(CtxTxs(o)') <= Cardinality(CtxTxs(o)) + 1
  <2>1. CtxTxs(o)' \subseteq CtxTxs(o) \cup {Len(ledger'[o])}
    BY <1>1, <1>9, SubmittedTxs
  <2> QED BY <1>2, <2>1, RefundNumbers
<1>10. CASE PaySubmit(o)
  <2>1. Submit(o, "ctx") /\ row' = row /\ UNCHANGED jobs
    BY <1>10 DEF PaySubmit
  <2>2. HandlerMayPay(o) /\ row'[o].status # "pending_payment"
    BY <1>4, <1>10, <2>1 DEF PaySubmit, HandlerAt, HandlerMayPay
  <2>3. ~HandlerMayPay(o)'
    <3>1. handler'[o].tx # 0 /\ handler'[o].pc = "pay"
      <4>1. Len(ledger'[o]) # 0
        BY <1>1, <2>1, SubmittedTxs
      <4> QED BY <1>1, <1>10, <4>1 DEF PaySubmit, HandlerAt, TypeOK
    <3> QED BY <1>6, <2>2, <3>1 DEF HandlerAtPay
  <2>4. JobMayPay(o)' => JobMayPay(o)
    BY <1>1, <2>1, JobMovePay
  <2> QED BY <1>1, <1>2, <1>9, <2>1, <2>2, <2>3, <2>4 DEF PaymentsBooked
<1>11. CASE RetryPaySubmit(o)
  <2>1. Submit(o, "ctx") /\ row' = row /\ UNCHANGED handler
    BY <1>11 DEF RetryPaySubmit
  <2>2. JobMayPay(o)
    BY <1>11 DEF RetryPaySubmit, JobAt, JobMayPay
  <2>3. ~JobMayPay(o)'
    <3>1. jobs'.tx # 0 /\ jobs'.pc = "retry_pay"
      <4>1. Len(ledger'[o]) # 0
        BY <1>1, <2>1, SubmittedTxs
      <4> QED BY <1>1, <1>11, <4>1 DEF RetryPaySubmit, JobAt, TypeOK
    <3> QED BY <3>1 DEF JobMayPay
  <2>4. HandlerMayPay(o)' => HandlerMayPay(o)
    BY <2>1 DEF HandlerMayPay
  <2> QED BY <1>1, <1>2, <1>9, <2>1, <2>2, <2>3, <2>4 DEF PaymentsBooked
<1>12. CASE PaymentsKept(o) /\ OrderStep(o) /\ ~ClaimAttempt(o)
  <2>1. row'[o].fulfillment_attempt = row[o].fulfillment_attempt
    BY <1>1, <1>12, OrderStepRow DEF RowMoves
  <2>2. ClaimPayment(o) => HandlerMayPay(o)
    BY DEF ClaimPayment, HandlerMayPay
  <2>3. HandlerMayPay(o)' => HandlerMayPay(o)
    BY <1>3, <1>5, <1>6, <1>12, <2>2 DEF PaymentsKept
  <2> QED BY <1>7, <1>12, <2>1, <2>3 DEF PaymentsKept
<1>13. CASE Aside(o)
  <2>1. HandlerMayPay(o)' => HandlerMayPay(o)
    BY <1>13 DEF Aside, HandlerMayPay
  <2>2. JobMayPay(o)' => JobMayPay(o)
    BY <1>13 DEF Aside, JobsAside, JobMayPay
  <2> QED BY <1>7, <1>13, <2>1, <2>2 DEF Aside, TxsKept
<1>14. CASE ExpireStaleOrders
  <2>1. UNCHANGED <<handler, ledger>> /\ jobs' = NoJob("reconcile")
    BY <1>14 DEF ExpireStaleOrders
  <2>2. ~JobMayPay(o)'
    BY <2>1, NoOrderIsNotAnOrder DEF NoJob, JobMayPay
  <2>3. row'[o].fulfillment_attempt = row[o].fulfillment_attempt
    <3>1. ASSUME NEW r \in Row
          PROVE  [r EXCEPT !.status = "expired", !.age = "fresh"].fulfillment_attempt
                   = r.fulfillment_attempt
      BY DEF Row
    <3> QED BY <1>1, <1>14, <3>1 DEF ExpireStaleOrders, TypeOK
  <2>4. HandlerMayPay(o)' => HandlerMayPay(o)
    BY <1>3, <1>5, <1>6, <2>1 DEF HandlerAtPay
  <2> QED BY <1>7, <2>1, <2>2, <2>3, <2>4, SameTxs DEF TxsKept
<1>15. CASE Killed(o)
  <2>1. handler'[o].pc = "idle" /\ jobs'.cur = NoOrder
    BY <1>1, <1>15, DiesEffect DEF Killed
  <2>2. ~JobMayPay(o)' /\ (HandlerMayPay(o)' => HandlerMayPay(o))
    BY <1>3, <1>5, <1>6, <2>1, NoOrderIsNotAnOrder DEF JobMayPay, HandlerAtPay
  <2> QED BY <1>7, <1>15, <2>2 DEF Killed, TxsKept
<1> QED
  BY <1>1, <1>8, <1>10, <1>11, <1>12, <1>13, <1>14, <1>15, StepKinds, OrderStepPay

\* CTX is paid at most once by the handler and once for each attempt counted on the
\* row, which are no more than MAX_FULFILLMENT_ATTEMPTS: whatever crashes, is slow
\* or lands late.
THEOREM PaymentsAreBooked == Spec => []CtxPaidWithinAttempts
<1> DEFINE Inv == \A o \in Orders : PaymentsBooked(o)
<1>1. Init => Inv
  <2> SUFFICES ASSUME Init, NEW o \in Orders PROVE PaymentsBooked(o)
    OBVIOUS
  <2>1. PICK keyed : row = [p \in Orders |-> [NewRow EXCEPT !.api_key_id = p \in keyed]]
    BY DEF Init
  <2>2. row[o].fulfillment_attempt = 0 /\ MaxAttempts \in Nat
    BY <2>1, BoundsAreNaturals DEF NewRow
  <2>3. ledger[o] = <<>> /\ jobs.cur = NoOrder
    BY DEF Init, NoJob
  <2>4. CtxTxs(o) = {} /\ ~JobMayPay(o)
    BY <2>3, NoOrderIsNotAnOrder DEF CtxTxs, JobMayPay
  <2>5. Cardinality(CtxTxs(o)) = 0
    BY <2>4, FS_EmptySet
  <2> QED BY <2>2, <2>4, <2>5 DEF PaymentsBooked
<1>2. ProofInv /\ Inv /\ [Next]_vars => Inv'
  BY PaymentsStep
<1>3. ProofInv /\ Inv => CtxPaidWithinAttempts
  <2> SUFFICES ASSUME ProofInv, Inv, NEW o \in Orders
      PROVE  /\ Cardinality(Landed(o, "ctx")) <= 1 + row[o].fulfillment_attempt
             /\ row[o].fulfillment_attempt <= MaxAttempts
    BY DEF CtxPaidWithinAttempts
  <2>1. row[o].fulfillment_attempt \in Nat /\ TypeOK
    BY DEF ProofInv, TypeOK, Row
  <2>2. PaymentsBooked(o)
    OBVIOUS
  <2> HIDE DEF Inv
  <2>3. Cardinality(CtxTxs(o)) <= 1 + row[o].fulfillment_attempt
    BY <2>1, <2>2, TxsAreFinite DEF PaymentsBooked
  <2>4. row[o].fulfillment_attempt <= MaxAttempts
    BY <2>2 DEF PaymentsBooked
  <2> QED BY <2>1, <2>3, <2>4, TxsAreFinite, LandedAreSent
<1> QED
  BY <1>1, <1>2, <1>3, InitProofInv, NextProofInv, PTL DEF Spec

=============================================================================
