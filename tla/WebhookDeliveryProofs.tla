------------------------ MODULE WebhookDeliveryProofs ------------------------
(***************************************************************************)
(* Proofs about WebhookDelivery, for any notifications and origins, any    *)
(* ladder of attempts, any threshold and any number of restarts.           *)
(***************************************************************************)
EXTENDS WebhookDelivery, TLAPS

-----------------------------------------------------------------------------
(* Types.                                                                  *)

LEMMA RowTypes ==
  /\ NoRow \in Row
  /\ \A n \in Nat, due \in BOOLEAN : QueueRow(n, due) \in Row
  /\ \A n \in Nat : AfterFailure(n) \in Row
  /\ \A r \in Row : DeliveredRow(r) \in Row
  BY BoundsAreNaturals DEF Row, NoRow, QueueRow, AfterFailure, DeliveredRow

LEMMA CircuitTypes ==
  ASSUME NEW c \in Circuit
  PROVE  recordCircuitFailure(c) \in Circuit /\ recordCircuitSuccess(c) \in Circuit
  BY BoundsAreNaturals DEF Circuit, recordCircuitFailure, recordCircuitSuccess

LEMMA FireTypes ==
  /\ \A f \in Fire, at \in {"resolving", "sent", "accepted"} :
       /\ At(f, at) \in Fire
       /\ At(f, at).hook = f.hook /\ At(f, at).by = f.by /\ At(f, at).at = at
       /\ At(f, at).attempts = f.attempts /\ At(f, at).withCard = f.withCard
  /\ \A h \in Hooks, by \in {"enqueue", "retry"}, n \in Nat, withCard \in BOOLEAN :
       /\ NewFire(h, by, n, withCard) \in Fire
       /\ NewFire(h, by, n, withCard).hook = h /\ NewFire(h, by, n, withCard).by = by
       /\ NewFire(h, by, n, withCard).attempts = n
       /\ NewFire(h, by, n, withCard).withCard = withCard
  BY DEF At, NewFire, Fire

LEMMA ClosedTypes == Closed \in Circuit
  BY DEF Closed, Circuit

LEMMA AllClosedTypes == [o \in Origins |-> Closed] \in [Origins -> Circuit]
  BY ClosedTypes

LEMMA InitTypes == Init => TypeOK
  <1> SUFFICES ASSUME Init PROVE TypeOK
    OBVIOUS
  <1>1. card \in [Hooks -> Cards]
    BY DEF Init, Cards
  <1>2. queue \in [Hooks -> Row]
    BY RowTypes DEF Init
  <1>3. circuit \in [Origins -> Circuit]
    BY AllClosedTypes DEF Init
  <1> QED
    BY <1>1, <1>2, <1>3 DEF Init, TypeOK

\* What a failed fire does to the queue.
LEMMA FailedQueue ==
  ASSUME TypeOK, NEW f \in Fire, Failed(f)
  PROVE  /\ queue' \in [Hooks -> Row]
         /\ \A h \in Hooks : h # f.hook => queue'[h] = queue[h]
         /\ f.by = "enqueue" =>
              queue'[f.hook] \in {queue[f.hook], QueueRow(1, FALSE)}
         /\ \/ queue'[f.hook] = QueueRow(1, FALSE) /\ f.by = "enqueue" /\ lost' = lost
            \/ queue' = queue /\ f.by = "enqueue" /\ lost' = lost \cup {f.hook}
            \/ queue'[f.hook] = AfterFailure(f.attempts) /\ f.by = "retry" /\ lost' = lost
         /\ f.by = "retry" => queue'[f.hook] = AfterFailure(f.attempts)
         /\ lost' \subseteq Hooks
  <1>1. f.hook \in Hooks /\ f.attempts \in Nat /\ queue \in [Hooks -> Row]
    BY DEF Fire, TypeOK
  <1>2. QueueRow(1, FALSE) \in Row /\ AfterFailure(f.attempts) \in Row
    BY <1>1, RowTypes
  <1>3. lost' \subseteq Hooks
    BY <1>1 DEF Failed, TypeOK
  <1> QED
    BY <1>1, <1>2, <1>3 DEF Failed

LEMMA FailedTypes ==
  ASSUME TypeOK, NEW f \in fires, Failed(f)
  PROVE  queue' \in [Hooks -> Row] /\ lost' \subseteq Hooks
  BY FailedQueue DEF TypeOK

LEMMA SetCircuitTypes ==
  ASSUME TypeOK, NEW h \in Hooks, NEW c \in Circuit, SetCircuit(h, c)
  PROVE  circuit' \in [Origins -> Circuit]
  BY OriginsOfHooks DEF TypeOK, SetCircuit

LEMMA FireStepTypes ==
  ASSUME TypeOK, NEW f \in fires, FireStep(f) \/ EndpointAccepts(f)
  PROVE  TypeOK'
  <1>1. f \in Fire /\ f.hook \in Hooks /\ OriginOf[f.hook] \in Origins
    BY OriginsOfHooks DEF TypeOK, Fire
  <1>2. circuit[OriginOf[f.hook]] \in Circuit
    BY <1>1 DEF TypeOK
  <1> DEFINE c == circuit[OriginOf[f.hook]]
  <1>3. /\ recordCircuitSuccess(c) \in Circuit
        /\ recordCircuitFailure(c) \in Circuit
        /\ recordCircuitFailure(recordCircuitFailure(c)) \in Circuit
    BY <1>2, CircuitTypes
  <1>4. CASE UrlRefused(f)
    BY <1>4, FailedTypes DEF UrlRefused, TypeOK
  <1>5. CASE FetchSent(f)
    <2>1. At(f, "sent") \in Fire
      BY <1>1, FireTypes
    <2> QED
      BY <1>1, <1>5, <2>1 DEF FetchSent, Advance, TypeOK
  <1>6. CASE EndpointAccepts(f)
    <2>1. At(f, "accepted") \in Fire
      BY <1>1, FireTypes
    <2> QED
      BY <1>1, <1>6, <2>1 DEF EndpointAccepts, Advance, TypeOK
  <1>7. CASE FireSucceeds(f)
    <2>1. queue' \in [Hooks -> Row]
      BY <1>1, <1>7, RowTypes DEF FireSucceeds, TypeOK
    <2>2. circuit' \in [Origins -> Circuit]
      BY <1>1, <1>3, <1>7, SetCircuitTypes DEF FireSucceeds
    <2> QED
      BY <1>1, <1>7, <2>1, <2>2 DEF FireSucceeds, TypeOK
  <1>8. CASE FireBreaks(f)
    <2>1. circuit' \in [Origins -> Circuit]
      BY <1>1, <1>3, <1>8, SetCircuitTypes DEF FireBreaks
    <2> QED
      BY <1>8, <2>1, FailedTypes DEF FireBreaks, TypeOK
  <1>9. CASE FireAnsweredError(f)
    <2>1. circuit' \in [Origins -> Circuit]
      BY <1>1, <1>3, <1>9, SetCircuitTypes DEF FireAnsweredError
    <2> QED
      BY <1>9, <2>1, FailedTypes DEF FireAnsweredError, TypeOK
  <1> QED
    BY <1>4, <1>5, <1>6, <1>7, <1>8, <1>9 DEF FireStep

LEMMA EnqueueTypes ==
  ASSUME TypeOK, NEW h \in Hooks, EnqueueWebhook(h)
  PROVE  TypeOK'
  <1> DEFINE f == NewFire(h, "enqueue", 0, h \in CardHooks)
  <1>1. f \in Fire
    BY DEF NewFire, Fire
  <1>2. queue' \in [Hooks -> Row] /\ fires' \subseteq Fire /\ lost' \subseteq Hooks
    <2>1. CASE circuit[OriginOf[h]].open
      BY <1>1, <2>1, FailedQueue DEF EnqueueWebhook, TypeOK
    <2>2. CASE ~circuit[OriginOf[h]].open
      BY <1>1, <2>2 DEF EnqueueWebhook, TypeOK
    <2> QED
      BY <2>1, <2>2
  <1> QED
    BY <1>2 DEF EnqueueWebhook, TypeOK

\* What a tick of the retry job does to the queue and to the fires.
LEMMA RetryQueue ==
  ASSUME TypeOK, RetryWebhooks
  PROVE  /\ queue' \in [Hooks -> Row]
         /\ fires' \subseteq Fire
         /\ \A h \in Hooks : h \notin Selected => queue'[h] = queue[h]
         /\ \A h \in Selected :
              \/ queue'[h] = queue[h]
              \/ queue'[h] = AfterFailure(queue[h].attempts)
              \/ queue'[h] = QueueRow(MaxAttempts + 1, TRUE)
         /\ \A f \in fires' \ fires : \E h \in Selected :
              ~VaultFails(h) /\ ~CircuitIsOpen(h) /\ f = RetryFire(h) /\ queue'[h] = queue[h]
  <1>1. \A h \in Hooks : queue[h] \in Row /\ queue[h].attempts \in Nat
    BY DEF TypeOK, Row
  <1>2. QueueRow(MaxAttempts + 1, TRUE) \in Row
    <2>1. MaxAttempts + 1 \in Nat
      BY BoundsAreNaturals
    <2> QED
      BY <2>1, RowTypes
  <1>3. \A h \in Hooks : AfterFailure(queue[h].attempts) \in Row
    BY <1>1, RowTypes
  <1>4. \A h \in Hooks : RetryFire(h) \in Fire
    BY <1>1, FireTypes DEF RetryFire
  <1>5. Selected \subseteq Hooks
    BY DEF Selected
  <1>6. queue' \in [Hooks -> Row]
    BY <1>1, <1>2, <1>3 DEF RetryWebhooks
  <1>7. fires' \subseteq Fire
    BY <1>4, <1>5 DEF RetryWebhooks, TypeOK
  <1> QED
    BY <1>5, <1>6, <1>7 DEF RetryWebhooks

LEMMA TypesStep == TypeOK /\ [Next]_vars => TypeOK'
  <1> SUFFICES ASSUME TypeOK, [Next]_vars PROVE TypeOK'
    OBVIOUS
  <1>1. ASSUME NEW h \in Hooks, EnqueueWebhook(h) PROVE TypeOK'
    BY <1>1, EnqueueTypes
  <1>2. ASSUME NEW h \in Hooks, BackoffElapses(h) PROVE TypeOK'
    <2>1. queue[h].attempts \in Nat
      BY DEF TypeOK, Row
    <2>2. QueueRow(queue[h].attempts, TRUE) \in Row
      BY <2>1, RowTypes
    <2> QED
      BY <1>2, <2>2 DEF BackoffElapses, TypeOK
  <1>3. ASSUME NEW h \in Hooks, PurgeOldCards(h) \/ VaultKeyLost(h) PROVE TypeOK'
    BY <1>3 DEF PurgeOldCards, VaultKeyLost, TypeOK, Cards
  <1>4. ASSUME NEW f \in fires, FireStep(f) \/ EndpointAccepts(f) PROVE TypeOK'
    BY <1>4, FireStepTypes
  <1>5. ASSUME NEW o \in Origins, FailureAges(o) PROVE TypeOK'
    <2>1. circuit[o] \in Circuit
      BY DEF TypeOK
    <2>2. [failures |-> circuit[o].failures - 1, open |-> circuit[o].open] \in Circuit
      BY <1>5, <2>1 DEF FailureAges, Circuit
    <2> QED
      BY <1>5, <2>2 DEF FailureAges, TypeOK
  <1>6. ASSUME NEW o \in Origins, CooldownEnds(o) PROVE TypeOK'
    <2>1. [failures |-> circuit[o].failures, open |-> FALSE] \in Circuit
      BY DEF TypeOK, Circuit
    <2> QED
      BY <1>6, <2>1 DEF CooldownEnds, TypeOK
  <1>7. CASE RetryWebhooks
    BY <1>7, RetryQueue DEF RetryWebhooks, TypeOK
  <1>8. CASE JobsDone
    BY <1>8 DEF JobsDone, TypeOK
  <1>9. CASE Crash
    <2>1. circuit' \in [Origins -> Circuit]
      BY <1>9, AllClosedTypes DEF Crash
    <2>2. crashes' \in Nat
      BY <1>9 DEF Crash, TypeOK
    <2>3. fires' \subseteq Fire /\ jobsRunning' \in BOOLEAN
      BY <1>9 DEF Crash
    <2>4. lost' \subseteq Hooks
      BY <1>9 DEF Crash, FirstFires, TypeOK, Fire
    <2> QED
      BY <1>9, <2>1, <2>2, <2>3, <2>4 DEF Crash, TypeOK
  <1>10. CASE UNCHANGED vars
    BY <1>10 DEF vars, TypeOK
  <1> QED
    BY <1>1, <1>2, <1>3, <1>4, <1>5, <1>6, <1>7, <1>8, <1>9, <1>10 DEF Next

\* The variables stay in their types: rows, circuits and fires are never malformed.
THEOREM TypeCorrect == Spec => []TypeOK
  BY InitTypes, TypesStep, PTL DEF Spec

-----------------------------------------------------------------------------
(* One delivery at a time.                                                 *)

\* A fire that ends leaves the rest of the fires and rows as they were; its own
\* row is pending, delivered or, after the first fire, still absent.
LEMMA FireEnds ==
  ASSUME DeliveryInv, TypeOK', NEW f \in fires,
         fires' = fires \ {f}, begun' = begun, jobsRunning' = jobsRunning,
         \A h \in Hooks : h # f.hook => queue'[h] = queue[h],
         queue'[f.hook].attempts <= MaxAttempts + 1,
         \/ acked' = acked
         \/ acked' = acked \cup {f.hook} /\ queue'[f.hook].st \in {"absent", "delivered"}
  PROVE  DeliveryInv'
  <1>1. /\ f \in Fire /\ f.hook \in Hooks /\ f.hook \in begun /\ f.hook \notin acked
        /\ \A g \in fires' : g \in fires /\ g \in Fire /\ g.hook \in Hooks /\ g.hook # f.hook
    BY DEF DeliveryInv, TypeOK, Fire, OneDeliveryAtATime, RetriesMatchTheQueue
  <1>2. OneDeliveryAtATime'
    BY <1>1 DEF DeliveryInv, OneDeliveryAtATime
  <1>3. \A g \in fires' :
          IF g.by = "retry"
          THEN /\ queue'[g.hook].st = "pending" /\ queue'[g.hook].attempts = g.attempts
               /\ g.attempts <= MaxAttempts /\ jobsRunning'
          ELSE queue'[g.hook].st = "absent"
    BY <1>1 DEF DeliveryInv, RetriesMatchTheQueue
  <1>4. \A h \in acked' : /\ h \in begun' /\ queue'[h].st \in {"absent", "delivered"}
                          /\ \A g \in fires' : g.hook # h
    BY <1>1 DEF DeliveryInv, RetriesMatchTheQueue, TypeOK
  <1>5. /\ \A h \in Hooks : queue'[h].attempts <= MaxAttempts + 1
        /\ \A g \in fires' : g.hook \in begun'
        /\ \A h \in Hooks : queue'[h].st # "absent" => h \in begun'
    BY <1>1 DEF DeliveryInv, RetriesMatchTheQueue
  <1> QED
    BY <1>2, <1>3, <1>4, <1>5 DEF DeliveryInv, RetriesMatchTheQueue

\* A fire that fails writes at most one more attempt than the ladder has.
LEMMA FailedAttempts ==
  ASSUME DeliveryInv, NEW f \in fires, Failed(f)
  PROVE  queue'[f.hook].attempts <= MaxAttempts + 1
  <1>1. f \in Fire /\ f.hook \in Hooks /\ f.by \in {"enqueue", "retry"} /\ f.attempts \in Nat
    BY DEF DeliveryInv, TypeOK, Fire
  <1>2. queue[f.hook].attempts <= MaxAttempts + 1
    BY <1>1 DEF DeliveryInv, RetriesMatchTheQueue
  <1>3. CASE f.by = "enqueue"
    BY <1>1, <1>2, <1>3, FailedQueue, BoundsAreNaturals DEF DeliveryInv, QueueRow
  <1>4. CASE f.by = "retry"
    <2>1. f.attempts <= MaxAttempts
      BY <1>4 DEF DeliveryInv, RetriesMatchTheQueue
    <2>2. queue'[f.hook] = AfterFailure(f.attempts)
      BY <1>1, <1>4, FailedQueue DEF DeliveryInv
    <2> QED
      BY <1>1, <2>1, <2>2, BoundsAreNaturals DEF AfterFailure, QueueRow
  <1> QED
    BY <1>1, <1>3, <1>4

LEMMA FailedEnds ==
  ASSUME DeliveryInv, TypeOK', NEW f \in fires, Failed(f), fires' = fires \ {f},
         begun' = begun, jobsRunning' = jobsRunning, acked' = acked
  PROVE  DeliveryInv'
  <1>1. f \in Fire /\ TypeOK
    BY DEF DeliveryInv, TypeOK
  <1> QED
    BY <1>1, FailedQueue, FailedAttempts, FireEnds

\* A fire that goes on stays the one it was.
LEMMA FireAdvances ==
  ASSUME DeliveryInv, TypeOK', NEW f \in fires,
         NEW at \in {"resolving", "sent", "accepted"}, Advance(f, at),
         UNCHANGED <<begun, queue, jobsRunning, acked>>
  PROVE  DeliveryInv'
  <1>1. f \in Fire
    BY DEF DeliveryInv, TypeOK
  <1>2. /\ At(f, at).hook = f.hook /\ At(f, at).by = f.by /\ At(f, at).attempts = f.attempts
    BY <1>1, FireTypes
  <1>3. fires' = (fires \ {f}) \cup {At(f, at)}
    BY DEF Advance
  <1>4. OneDeliveryAtATime'
    BY <1>2, <1>3 DEF DeliveryInv, OneDeliveryAtATime
  <1>5. RetriesMatchTheQueue'
    BY <1>2, <1>3 DEF DeliveryInv, RetriesMatchTheQueue
  <1> QED
    BY <1>4, <1>5 DEF DeliveryInv

LEMMA FireStepKeeps ==
  ASSUME DeliveryInv, TypeOK', NEW f \in fires, FireStep(f) \/ EndpointAccepts(f)
  PROVE  DeliveryInv'
  <1>1. f \in Fire /\ f.hook \in Hooks /\ f.by \in {"enqueue", "retry"}
    BY DEF DeliveryInv, TypeOK, Fire
  <1>2. CASE UrlRefused(f) \/ FireBreaks(f) \/ FireAnsweredError(f)
    BY <1>2, FailedEnds DEF UrlRefused, FireBreaks, FireAnsweredError
  <1>3. CASE FetchSent(f)
    BY <1>3, FireAdvances DEF FetchSent
  <1>4. CASE EndpointAccepts(f)
    BY <1>4, FireAdvances DEF EndpointAccepts
  <1>5. CASE FireSucceeds(f)
    <2>1. queue[f.hook].attempts <= MaxAttempts + 1
      BY <1>1 DEF DeliveryInv, RetriesMatchTheQueue
    <2>2. f.by # "retry" => queue[f.hook].st = "absent"
      BY DEF DeliveryInv, RetriesMatchTheQueue
    <2>3. queue \in [Hooks -> Row]
      BY DEF DeliveryInv, TypeOK
    <2>4. /\ \A h \in Hooks : h # f.hook => queue'[h] = queue[h]
          /\ queue'[f.hook].attempts <= MaxAttempts + 1
          /\ queue'[f.hook].st \in {"absent", "delivered"}
      BY <1>1, <1>5, <2>1, <2>2, <2>3 DEF FireSucceeds, DeliveredRow
    <2>5. /\ fires' = fires \ {f} /\ begun' = begun /\ jobsRunning' = jobsRunning
          /\ acked' = acked \cup {f.hook}
      BY <1>5 DEF FireSucceeds
    <2> QED
      BY <2>4, <2>5, FireEnds
  <1> QED
    BY <1>2, <1>3, <1>4, <1>5 DEF FireStep

LEMMA EnqueueKeeps ==
  ASSUME DeliveryInv, TypeOK', NEW h \in Hooks, EnqueueWebhook(h)
  PROVE  DeliveryInv'
  <1> DEFINE f == NewFire(h, "enqueue", 0, h \in CardHooks)
  <1>1. f \in Fire /\ f.hook = h /\ f.by = "enqueue"
    BY DEF NewFire, Fire
  <1>2. /\ h \notin begun /\ h \notin acked /\ queue[h].st = "absent"
        /\ \A g \in fires : g.hook # h
    BY DEF EnqueueWebhook, DeliveryInv, RetriesMatchTheQueue
  <1>3. /\ begun' = begun \cup {h} /\ jobsRunning' = jobsRunning /\ acked' = acked
    BY DEF EnqueueWebhook
  <1>4. CASE circuit[OriginOf[h]].open
    <2>1. Failed(f) /\ fires' = fires
      BY <1>4 DEF EnqueueWebhook
    <2>2. /\ \A i \in Hooks : i # h => queue'[i] = queue[i]
          /\ queue'[h] \in {queue[h], QueueRow(1, FALSE)}
      BY <1>1, <2>1, FailedQueue DEF DeliveryInv
    <2>3. queue'[h].attempts <= MaxAttempts + 1
      BY <2>2, BoundsAreNaturals DEF DeliveryInv, RetriesMatchTheQueue, QueueRow
    <2>4. OneDeliveryAtATime'
      BY <2>1 DEF DeliveryInv, OneDeliveryAtATime
    <2>5. \A g \in fires : g.hook \in Hooks /\ g.hook # h
      BY <1>2 DEF DeliveryInv, TypeOK, Fire
    <2>6. RetriesMatchTheQueue'
      BY <1>2, <1>3, <2>1, <2>2, <2>3, <2>5 DEF DeliveryInv, RetriesMatchTheQueue, TypeOK
    <2> QED
      BY <2>4, <2>6 DEF DeliveryInv
  <1>5. CASE ~circuit[OriginOf[h]].open
    <2>1. fires' = fires \cup {f} /\ queue' = queue
      BY <1>5 DEF EnqueueWebhook
    <2>2. OneDeliveryAtATime'
      BY <1>1, <1>2, <2>1 DEF DeliveryInv, OneDeliveryAtATime
    <2>3. RetriesMatchTheQueue'
      BY <1>1, <1>2, <1>3, <2>1 DEF DeliveryInv, RetriesMatchTheQueue
    <2> QED
      BY <2>2, <2>3 DEF DeliveryInv
  <1> QED
    BY <1>4, <1>5

\* The tick selects pending rows; whatever is still on its way is a first fire,
\* which has none.
LEMMA RetryKeeps ==
  ASSUME DeliveryInv, TypeOK', RetryWebhooks
  PROVE  DeliveryInv'
  <1>1. TypeOK /\ ~jobsRunning /\ jobsRunning' /\ begun' = begun /\ acked' = acked
    BY DEF DeliveryInv, RetryWebhooks
  <1>2. \A g \in fires : /\ g.by # "retry" /\ g.hook \in Hooks
                        /\ queue[g.hook].st = "absent"
    BY <1>1 DEF DeliveryInv, RetriesMatchTheQueue, TypeOK, Fire
  <1>3. \A h \in Selected : /\ h \in Hooks /\ queue[h].st = "pending"
                           /\ queue[h].attempts <= MaxAttempts /\ queue[h].attempts \in Nat
                           /\ h \in begun /\ h \notin acked
    BY <1>1 DEF Selected, Retryable, DeliveryInv, RetriesMatchTheQueue, TypeOK, Row
  <1>4. \A g \in fires' \ fires : /\ g.hook \in Selected /\ g.by = "retry"
                                  /\ g.attempts = queue[g.hook].attempts
                                  /\ g = RetryFire(g.hook) /\ queue'[g.hook] = queue[g.hook]
    BY <1>1, RetryQueue DEF RetryFire, NewFire
  <1>5. OneDeliveryAtATime'
    BY <1>2, <1>3, <1>4 DEF DeliveryInv, OneDeliveryAtATime
  <1>6. \A h \in Hooks : \/ h \notin Selected /\ queue'[h] = queue[h]
                        \/ /\ h \in Selected
                           /\ queue'[h].st = "pending"
                           /\ queue'[h].attempts <= MaxAttempts + 1
    <2>1. MaxAttempts \in Nat
      BY BoundsAreNaturals
    <2>2. ASSUME NEW h \in Selected
          PROVE  queue'[h].st = "pending" /\ queue'[h].attempts <= MaxAttempts + 1
      <3>1. /\ queue[h].st = "pending" /\ queue[h].attempts \in Nat
            /\ queue[h].attempts <= MaxAttempts
        BY <1>3
      <3>2. \/ queue'[h] = queue[h]
            \/ queue'[h] = AfterFailure(queue[h].attempts)
            \/ queue'[h] = QueueRow(MaxAttempts + 1, TRUE)
        BY <1>1, RetryQueue
      <3>3. CASE queue'[h] = queue[h]
        BY <2>1, <3>1, <3>3
      <3>4. CASE queue'[h] = AfterFailure(queue[h].attempts)
        BY <2>1, <3>1, <3>4 DEF AfterFailure, QueueRow
      <3>5. CASE queue'[h] = QueueRow(MaxAttempts + 1, TRUE)
        BY <2>1, <3>5 DEF QueueRow
      <3> QED
        BY <3>2, <3>3, <3>4, <3>5
    <2> QED
      BY <1>1, <2>2, RetryQueue
  <1>7. \A g \in fires' : \/ g \in fires /\ g.hook \notin Selected
                         \/ g \in fires' \ fires
    BY <1>2, <1>3
  <1>8. \A g \in fires' :
          IF g.by = "retry"
          THEN /\ queue'[g.hook].st = "pending" /\ queue'[g.hook].attempts = g.attempts
               /\ g.attempts <= MaxAttempts /\ jobsRunning'
          ELSE queue'[g.hook].st = "absent"
    BY <1>1, <1>2, <1>3, <1>4, <1>6, <1>7
  <1>9. \A h \in acked' : /\ h \in begun' /\ queue'[h].st \in {"absent", "delivered"}
                          /\ \A g \in fires' : g.hook # h
    BY <1>1, <1>3, <1>4, <1>6 DEF DeliveryInv, RetriesMatchTheQueue, TypeOK
  <1>10. /\ \A h \in Hooks : queue'[h].attempts <= MaxAttempts + 1
         /\ \A g \in fires' : g.hook \in begun'
         /\ \A h \in Hooks : queue'[h].st # "absent" => h \in begun'
    BY <1>1, <1>3, <1>4, <1>6 DEF DeliveryInv, RetriesMatchTheQueue
  <1> QED
    BY <1>5, <1>8, <1>9, <1>10 DEF DeliveryInv, RetriesMatchTheQueue

LEMMA DeliveryStep == DeliveryInv /\ [Next]_vars => DeliveryInv'
  <1> SUFFICES ASSUME DeliveryInv, [Next]_vars PROVE DeliveryInv'
    OBVIOUS
  <1> USE DEF DeliveryInv
  <1>1. TypeOK'
    BY TypesStep
  <1>2. ASSUME NEW h \in Hooks, EnqueueWebhook(h) PROVE DeliveryInv'
    BY <1>1, <1>2, EnqueueKeeps
  <1>3. ASSUME NEW h \in Hooks, BackoffElapses(h) PROVE DeliveryInv'
    <2>1. /\ \A i \in Hooks : /\ queue'[i].st = queue[i].st
                             /\ queue'[i].attempts = queue[i].attempts
      BY <1>3 DEF BackoffElapses, QueueRow, TypeOK
    <2>2. /\ fires' = fires /\ begun' = begun /\ acked' = acked /\ jobsRunning' = jobsRunning
      BY <1>3 DEF BackoffElapses
    <2>3. \A g \in fires : g.hook \in Hooks
      BY DEF TypeOK, Fire
    <2> QED
      BY <1>1, <2>1, <2>2, <2>3 DEF OneDeliveryAtATime, RetriesMatchTheQueue, TypeOK
  <1>4. ASSUME NEW f \in fires, FireStep(f) \/ EndpointAccepts(f) PROVE DeliveryInv'
    BY <1>1, <1>4, FireStepKeeps
  <1>5. CASE RetryWebhooks
    BY <1>1, <1>5, RetryKeeps
  <1>6. CASE JobsDone
    BY <1>1, <1>6 DEF JobsDone, OneDeliveryAtATime, RetriesMatchTheQueue
  <1>7. CASE Crash
    BY <1>1, <1>7 DEF Crash, OneDeliveryAtATime, RetriesMatchTheQueue
  <1>8. CASE UNCHANGED <<begun, queue, fires, jobsRunning, acked>>
    BY <1>1, <1>8 DEF OneDeliveryAtATime, RetriesMatchTheQueue
  <1>9. ASSUME NEW h \in Hooks, PurgeOldCards(h) \/ VaultKeyLost(h) PROVE DeliveryInv'
    BY <1>8, <1>9 DEF PurgeOldCards, VaultKeyLost
  <1>10. ASSUME NEW o \in Origins, FailureAges(o) \/ CooldownEnds(o) PROVE DeliveryInv'
    BY <1>8, <1>10 DEF FailureAges, CooldownEnds
  <1>11. CASE UNCHANGED vars
    BY <1>8, <1>11 DEF vars
  <1> QED
    BY <1>2, <1>3, <1>4, <1>5, <1>6, <1>7, <1>9, <1>10, <1>11 DEF Next

\* No two deliveries of a notification are on their way at once, a retry always
\* belongs to the pending row it was selected from, and what was answered for with
\* a 2xx is never sent again: the mutex of runJobs and the INSERT only after the
\* first failure are enough.
THEOREM DeliveriesMatchTheQueue == Spec => []DeliveryInv
  <1>1. Init => DeliveryInv
    <2> SUFFICES ASSUME Init PROVE DeliveryInv
      OBVIOUS
    <2>1. fires = {} /\ acked = {} /\ \A h \in Hooks : queue[h].st = "absent" /\ queue[h].attempts = 0
      BY DEF Init, NoRow
    <2> QED
      BY <2>1, InitTypes, BoundsAreNaturals
      DEF DeliveryInv, OneDeliveryAtATime, RetriesMatchTheQueue
  <1>2. DeliveryInv /\ [Next]_vars => DeliveryInv'
    BY DeliveryStep
  <1> QED
    BY <1>1, <1>2, PTL DEF Spec

-----------------------------------------------------------------------------
(* What becomes of a notification and of its card.                         *)

\* Inductive: a notification is fired without its card only once the card is purged.
CardInv ==
  /\ \A h \in CardHooks : card[h] # "none"
  /\ \A f \in fires : f.hook \in CardHooks /\ ~f.withCard => card[f.hook] = "purged"
  /\ CardBlankedOnlyIfPurged

LEMMA FiresKeepCards ==
  ASSUME TypeOK, CardInv, card' = card, blanked' = blanked,
         \A f \in fires' \ fires :
           f.hook \in CardHooks /\ ~f.withCard => card[f.hook] = "purged"
  PROVE  CardInv'
  BY DEF CardInv, CardBlankedOnlyIfPurged

LEMMA CardStep == TypeOK /\ CardInv /\ [Next]_vars => CardInv'
  <1> SUFFICES ASSUME TypeOK, CardInv, [Next]_vars PROVE CardInv'
    OBVIOUS
  <1>1. ASSUME NEW h \in Hooks, EnqueueWebhook(h) PROVE CardInv'
    <2>1. /\ fires' \subseteq fires \cup {NewFire(h, "enqueue", 0, h \in CardHooks)}
          /\ card' = card /\ blanked' = blanked
      BY <1>1 DEF EnqueueWebhook
    <2>2. \A f \in fires' \ fires : f.hook = h /\ f.withCard = (h \in CardHooks)
      BY <2>1 DEF NewFire
    <2>3. \A f \in fires' \ fires : ~(f.hook \in CardHooks /\ ~f.withCard)
      BY <2>2
    <2> QED
      BY <2>1, <2>3, FiresKeepCards
  <1>2. ASSUME NEW f \in fires, UrlRefused(f) \/ FireSucceeds(f) \/ FireBreaks(f)
                                \/ FireAnsweredError(f)
        PROVE  CardInv'
    <2>1. fires' = fires \ {f} /\ card' = card /\ blanked' = blanked
      BY <1>2 DEF UrlRefused, FireSucceeds, FireBreaks, FireAnsweredError
    <2> QED
      BY <2>1, FiresKeepCards
  <1>3. ASSUME NEW f \in fires, FetchSent(f) PROVE CardInv'
    <2>1. f \in Fire /\ f.hook \in Hooks
      BY DEF TypeOK, Fire
    <2>2. /\ fires' = (fires \ {f}) \cup {At(f, "sent")} /\ card' = card
          /\ At(f, "sent").hook = f.hook /\ At(f, "sent").withCard = f.withCard
      BY <1>3, <2>1, FireTypes DEF FetchSent, Advance
    <2>3. \A h \in blanked' :
            h \in blanked \/ (h = f.hook /\ f.hook \in CardHooks /\ ~f.withCard)
      BY <1>3 DEF FetchSent
    <2> QED
      BY <2>2, <2>3 DEF CardInv, CardBlankedOnlyIfPurged
  <1>4. ASSUME NEW f \in fires, EndpointAccepts(f) PROVE CardInv'
    <2>1. f \in Fire
      BY DEF TypeOK
    <2>2. /\ fires' = (fires \ {f}) \cup {At(f, "accepted")}
          /\ card' = card /\ blanked' = blanked
          /\ At(f, "accepted").hook = f.hook /\ At(f, "accepted").withCard = f.withCard
      BY <1>4, <2>1, FireTypes DEF EndpointAccepts, Advance
    <2> QED
      BY <2>2 DEF CardInv, CardBlankedOnlyIfPurged
  <1>5. CASE RetryWebhooks
    <2>1. card' = card /\ blanked' = blanked
      BY <1>5 DEF RetryWebhooks
    <2>2. ASSUME NEW f \in fires' \ fires, f.hook \in CardHooks, ~f.withCard
          PROVE  card[f.hook] = "purged"
      <3>1. PICK h \in Selected : ~VaultFails(h) /\ f = RetryFire(h)
        BY <1>5, RetryQueue
      <3>2. f.hook = h /\ f.withCard = (card[h] = "sealed") /\ h \in Hooks
        BY <3>1 DEF RetryFire, NewFire, Selected
      <3>3. card[h] \in Cards /\ card[h] # "none" /\ card[h] # "unreadable" /\ card[h] # "sealed"
        BY <2>2, <3>1, <3>2 DEF TypeOK, CardInv, VaultFails
      <3> QED
        BY <3>2, <3>3 DEF Cards
    <2> QED
      BY <2>1, <2>2, FiresKeepCards
  <1>6. CASE JobsDone
    BY <1>6, FiresKeepCards DEF JobsDone
  <1>7. ASSUME NEW h \in Hooks, PurgeOldCards(h) PROVE CardInv'
    <2>1. \A i : card[i] # "none" /\ i \in Hooks => card'[i] # "none"
      BY <1>7 DEF PurgeOldCards, TypeOK
    <2>2. \A i \in Hooks : card[i] = "purged" => card'[i] = "purged"
      BY <1>7 DEF PurgeOldCards, TypeOK
    <2> QED
      BY <1>7, <2>1, <2>2, CardHooksAreHooks
      DEF PurgeOldCards, CardInv, CardBlankedOnlyIfPurged, TypeOK, Fire
  <1>8. ASSUME NEW h \in Hooks, VaultKeyLost(h) PROVE CardInv'
    <2>1. \A i : card[i] # "none" /\ i \in Hooks => card'[i] # "none"
      BY <1>8 DEF VaultKeyLost, TypeOK
    <2>2. \A i \in Hooks : card[i] = "purged" => card'[i] = "purged"
      BY <1>8 DEF VaultKeyLost, TypeOK
    <2> QED
      BY <1>8, <2>1, <2>2, CardHooksAreHooks
      DEF VaultKeyLost, CardInv, CardBlankedOnlyIfPurged, TypeOK, Fire
  <1>9. CASE UNCHANGED <<card, fires, blanked>>
    BY <1>9, FiresKeepCards
  <1>10. ASSUME NEW h \in Hooks, BackoffElapses(h) PROVE CardInv'
    BY <1>9, <1>10 DEF BackoffElapses
  <1>11. ASSUME NEW o \in Origins, FailureAges(o) \/ CooldownEnds(o) PROVE CardInv'
    BY <1>9, <1>11 DEF FailureAges, CooldownEnds
  <1>12. CASE Crash
    BY <1>12, FiresKeepCards DEF Crash
  <1>13. CASE UNCHANGED vars
    BY <1>9, <1>13 DEF vars
  <1> QED
    BY <1>1, <1>2, <1>3, <1>4, <1>5, <1>6, <1>7, <1>8, <1>10, <1>11, <1>12, <1>13
    DEF Next, FireStep

\* An agent is told that a card was delivered without being shown it only when the
\* retention job has purged it: what the vault cannot open is abandoned instead.
THEOREM CardShownUnlessPurged == Spec => []CardBlankedOnlyIfPurged
  <1>1. Init => CardInv
    <2> SUFFICES ASSUME Init PROVE CardInv
      OBVIOUS
    <2>1. fires = {} /\ blanked = {}
      BY DEF Init
    <2>2. \A h \in CardHooks : card[h] = "sealed"
      BY CardHooksAreHooks DEF Init
    <2> QED
      BY <2>1, <2>2 DEF CardInv, CardBlankedOnlyIfPurged
  <1>2. TypeOK /\ CardInv /\ [Next]_vars => CardInv'
    BY CardStep
  <1>3. CardInv => CardBlankedOnlyIfPurged
    BY DEF CardInv
  <1> QED
    BY TypeCorrect, <1>1, <1>2, <1>3, PTL DEF Spec

\* Inductive: what was given up had been begun.
LostInv == lost \subseteq begun /\ LossesAreExplained

\* A step that keeps or gives up as many notifications as it records.
LEMMA SameKept ==
  ASSUME DeliveryInv, LostInv, begun' = begun, lost' = lost,
         \A h \in begun : Kept(h)' <=> Kept(h)
  PROVE  LostInv'
  BY DEF LostInv, LossesAreExplained

\* A fire that fails leaves a row, or is given up.
LEMMA FailedLoses ==
  ASSUME DeliveryInv, LostInv, NEW f \in fires, Failed(f), fires' = fires \ {f},
         begun' = begun, acked' = acked
  PROVE  LostInv'
  <1>1. /\ TypeOK /\ f \in Fire /\ f.hook \in Hooks /\ f.hook \in begun
        /\ f.hook \notin acked /\ \A g \in fires' : g \in fires /\ g.hook # f.hook
    BY DEF DeliveryInv, TypeOK, Fire, OneDeliveryAtATime, RetriesMatchTheQueue
  <1>2. f.by = "enqueue" => queue[f.hook].st = "absent"
    BY DEF DeliveryInv, RetriesMatchTheQueue
  <1>3. \A h \in Hooks : h # f.hook => (Kept(h)' <=> Kept(h))
    <2>1. \A h \in Hooks : h # f.hook => queue'[h] = queue[h]
      BY <1>1, FailedQueue
    <2> QED
      BY <2>1 DEF Kept, FirstFires
  <1>4. /\ begun \subseteq Hooks
        /\ \A h \in begun : h \in lost <=> ~Kept(h)
    BY DEF DeliveryInv, TypeOK, LostInv, LossesAreExplained
  <1>5. CASE queue'[f.hook] = QueueRow(1, FALSE) /\ f.by = "enqueue" /\ lost' = lost
    <2>1. Kept(f.hook) /\ Kept(f.hook)'
      BY <1>5 DEF Kept, FirstFires, QueueRow
    <2> QED
      BY <1>3, <1>4, <1>5, <2>1 DEF LostInv, LossesAreExplained
  <1>6. CASE queue' = queue /\ f.by = "enqueue" /\ lost' = lost \cup {f.hook}
    <2>1. ~Kept(f.hook)'
      BY <1>1, <1>2, <1>6 DEF Kept, FirstFires
    <2> QED
      BY <1>1, <1>3, <1>4, <1>6, <2>1 DEF LostInv, LossesAreExplained
  <1>7. CASE queue'[f.hook] = AfterFailure(f.attempts) /\ f.by = "retry" /\ lost' = lost
    <2>1. queue[f.hook].st = "pending"
      BY <1>7 DEF DeliveryInv, RetriesMatchTheQueue
    <2>2. Kept(f.hook) /\ Kept(f.hook)'
      BY <1>7, <2>1 DEF Kept, AfterFailure, QueueRow
    <2> QED
      BY <1>3, <1>4, <1>7, <2>2 DEF LostInv, LossesAreExplained
  <1> QED
    BY <1>1, <1>5, <1>6, <1>7, FailedQueue

\* A first fire that an open circuit ends at once leaves a row, or is given up.
LEMMA EnqueueLoses ==
  ASSUME DeliveryInv, LostInv, NEW i \in Hooks, EnqueueWebhook(i)
  PROVE  LostInv'
  <1> DEFINE g == NewFire(i, "enqueue", 0, i \in CardHooks)
  <1>1. g \in Fire /\ g.hook = i /\ g.by = "enqueue"
    BY DEF NewFire, Fire
  <1> HIDE DEF g
  <1>2. /\ TypeOK /\ i \notin begun /\ i \notin acked /\ queue[i].st = "absent" /\ i \notin lost
        /\ begun' = begun \cup {i} /\ acked' = acked /\ \A f \in fires : f.hook # i
    BY DEF EnqueueWebhook, DeliveryInv, RetriesMatchTheQueue, LostInv
  <1>3. begun \subseteq Hooks /\ lost \subseteq begun /\ \A h \in begun : h \in lost <=> ~Kept(h)
    BY <1>2 DEF TypeOK, LostInv, LossesAreExplained
  <1>4. CASE circuit[OriginOf[i]].open
    <2>1. Failed(g) /\ fires' = fires
      BY <1>4 DEF EnqueueWebhook, g
    <2>2. \A h \in Hooks : h # i => queue'[h] = queue[h]
      BY <1>1, <1>2, <2>1, FailedQueue
    <2>3. \A h \in begun : Kept(h)' <=> Kept(h)
      BY <1>2, <1>3, <2>1, <2>2 DEF Kept, FirstFires
    <2>4. CASE queue'[i] = QueueRow(1, FALSE) /\ lost' = lost
      <3>1. Kept(i)'
        BY <2>4 DEF Kept, QueueRow
      <3> QED
        BY <1>2, <1>3, <2>3, <2>4, <3>1 DEF LostInv, LossesAreExplained
    <2>5. CASE queue' = queue /\ lost' = lost \cup {i}
      <3>1. ~Kept(i)'
        BY <1>2, <2>1, <2>5 DEF Kept, FirstFires
      <3> QED
        BY <1>2, <1>3, <2>3, <2>5, <3>1 DEF LostInv, LossesAreExplained
    <2> QED
      BY <1>1, <1>2, <2>1, <2>4, <2>5, FailedQueue
  <1>5. CASE ~circuit[OriginOf[i]].open
    <2>1. fires' = fires \cup {g} /\ queue' = queue /\ lost' = lost
      BY <1>5 DEF EnqueueWebhook, g
    <2>2. Kept(i)'
      BY <1>1, <2>1 DEF Kept, FirstFires
    <2>3. \A h \in begun : Kept(h)' <=> Kept(h)
      BY <1>1, <1>2, <2>1 DEF Kept, FirstFires
    <2> QED
      BY <1>2, <1>3, <2>1, <2>2, <2>3 DEF LostInv, LossesAreExplained
  <1> QED
    BY <1>4, <1>5

\* A row never goes away and an answer is never forgotten.
LEMMA LostStep == DeliveryInv /\ LostInv /\ [Next]_vars => LostInv'
  <1> SUFFICES ASSUME DeliveryInv, LostInv, [Next]_vars PROVE LostInv'
    OBVIOUS
  <1>1. /\ TypeOK /\ TypeOK' /\ begun \subseteq Hooks
        /\ \A f \in fires : f \in Fire /\ f.hook \in Hooks /\ f.by \in {"enqueue", "retry"}
    BY TypesStep DEF DeliveryInv, TypeOK, Fire
  <1>2. ASSUME NEW i \in Hooks, EnqueueWebhook(i) PROVE LostInv'
    BY <1>2, EnqueueLoses
  <1>3. ASSUME NEW f \in fires, UrlRefused(f) \/ FireBreaks(f) \/ FireAnsweredError(f)
        PROVE  LostInv'
    BY <1>3, FailedLoses DEF UrlRefused, FireBreaks, FireAnsweredError
  <1>4. ASSUME NEW f \in fires, NEW at \in {"sent", "accepted"}, Advance(f, at),
               UNCHANGED <<begun, queue, acked, lost>>
        PROVE  LostInv'
    <2>1. At(f, at).hook = f.hook /\ At(f, at).by = f.by
      BY <1>1, FireTypes
    <2>2. \A h \in begun : Kept(h)' <=> Kept(h)
      BY <1>4, <2>1 DEF Advance, Kept, FirstFires
    <2> QED
      BY <1>4, <2>2, SameKept
  <1>5. ASSUME NEW f \in fires, FetchSent(f) \/ EndpointAccepts(f) PROVE LostInv'
    BY <1>4, <1>5 DEF FetchSent, EndpointAccepts
  <1>6. ASSUME NEW f \in fires, FireSucceeds(f) PROVE LostInv'
    <2>1. /\ fires' = fires \ {f} /\ begun' = begun /\ acked' = acked \cup {f.hook}
          /\ lost' = lost /\ \A h \in Hooks : h # f.hook => queue'[h] = queue[h]
      BY <1>1, <1>6 DEF FireSucceeds, TypeOK
    <2>2. Kept(f.hook)
      <3>1. f.by = "retry" => queue[f.hook].st = "pending"
        BY DEF DeliveryInv, RetriesMatchTheQueue
      <3> QED
        BY <1>1, <3>1 DEF Kept, FirstFires
    <2>3. Kept(f.hook)'
      BY <2>1 DEF Kept
    <2>4. \A h \in begun : h # f.hook => (Kept(h)' <=> Kept(h))
      BY <1>1, <2>1 DEF Kept, FirstFires
    <2>5. \A h \in begun : Kept(h)' <=> Kept(h)
      BY <2>2, <2>3, <2>4
    <2> QED
      BY <2>1, <2>5, SameKept
  <1>7. CASE RetryWebhooks
    <2>1. /\ begun' = begun /\ acked' = acked /\ lost' = lost /\ fires \subseteq fires'
      BY <1>7 DEF RetryWebhooks
    <2>2. \A f \in fires' : f.by = "enqueue" => f \in fires
      BY <1>1, <1>7, RetryQueue DEF RetryFire, NewFire
    <2>3. \A h \in Hooks : queue'[h].st # "absent" <=> queue[h].st # "absent"
      <3> TAKE h \in Hooks
      <3>1. h \in Selected => queue[h].st = "pending"
        BY DEF Selected, Retryable
      <3>2. \/ queue'[h] = queue[h]
            \/ h \in Selected /\ queue'[h] = AfterFailure(queue[h].attempts)
            \/ h \in Selected /\ queue'[h] = QueueRow(MaxAttempts + 1, TRUE)
        BY <1>1, <1>7, RetryQueue
      <3>3. queue'[h] = AfterFailure(queue[h].attempts) => queue'[h].st = "pending"
        BY DEF AfterFailure, QueueRow
      <3>4. queue'[h] = QueueRow(MaxAttempts + 1, TRUE) => queue'[h].st = "pending"
        BY DEF QueueRow
      <3> QED
        BY <3>1, <3>2, <3>3, <3>4
    <2>4. FirstFires' = FirstFires
      BY <2>1, <2>2 DEF FirstFires
    <2>5. \A h \in begun : Kept(h)' <=> Kept(h)
      BY <1>1, <2>1, <2>3, <2>4 DEF Kept
    <2> QED
      BY <2>1, <2>5, SameKept
  <1>8. ASSUME NEW i \in Hooks, BackoffElapses(i) PROVE LostInv'
    <2>1. \A h \in Hooks : queue'[h].st = queue[h].st
      BY <1>1, <1>8 DEF BackoffElapses, QueueRow, TypeOK
    <2>2. begun' = begun /\ acked' = acked /\ lost' = lost /\ fires' = fires
      BY <1>8 DEF BackoffElapses
    <2>3. \A h \in begun : Kept(h)' <=> Kept(h)
      BY <1>1, <2>1, <2>2 DEF Kept, FirstFires
    <2> QED
      BY <2>2, <2>3, SameKept
  <1>9. CASE UNCHANGED <<begun, queue, acked, fires, lost>>
    BY <1>9 DEF LostInv, LossesAreExplained, Kept, FirstFires
  <1>10. ASSUME NEW i \in Hooks, PurgeOldCards(i) \/ VaultKeyLost(i) PROVE LostInv'
    BY <1>9, <1>10 DEF PurgeOldCards, VaultKeyLost
  <1>11. ASSUME NEW o \in Origins, FailureAges(o) \/ CooldownEnds(o) PROVE LostInv'
    BY <1>9, <1>11 DEF FailureAges, CooldownEnds
  <1>12. CASE JobsDone
    BY <1>9, <1>12 DEF JobsDone
  <1>13. CASE Crash
    <2>1. /\ fires' = {} /\ begun' = begun /\ acked' = acked /\ queue' = queue
          /\ lost' = lost \cup {f.hook : f \in FirstFires}
      BY <1>13 DEF Crash
    <2>2. \A f \in FirstFires : f.hook \in begun /\ f.hook \notin acked
                                /\ queue[f.hook].st = "absent"
      BY DEF FirstFires, DeliveryInv, RetriesMatchTheQueue
    <2>3. FirstFires' = {}
      BY <2>1 DEF FirstFires
    <2>4. \A h \in begun : h \in lost' <=> ~Kept(h)'
      BY <2>1, <2>2, <2>3 DEF LostInv, LossesAreExplained, Kept
    <2> QED
      BY <2>1, <2>2, <2>4 DEF LostInv, LossesAreExplained
  <1>14. CASE UNCHANGED vars
    BY <1>9, <1>14 DEF vars
  <1> QED
    BY <1>2, <1>3, <1>5, <1>6, <1>7, <1>8, <1>10, <1>11, <1>12, <1>13, <1>14
    DEF Next, FireStep

\* A notification is lost exactly when a restart cuts it short on its first way or
\* its INSERT fails: every other one is answered for, on its first way or queued.
THEOREM OnlyExplainedLosses == Spec => []LossesAreExplained
  <1>1. Init => LostInv
    BY DEF Init, LostInv, LossesAreExplained
  <1>2. DeliveryInv /\ LostInv /\ [Next]_vars => LostInv'
    BY LostStep
  <1>3. LostInv => LossesAreExplained
    BY DEF LostInv
  <1> QED
    BY DeliveriesMatchTheQueue, <1>1, <1>2, <1>3, PTL DEF Spec

-----------------------------------------------------------------------------
(* The circuit of an origin.                                               *)

LEMMA OpenStays ==
  \A c \in Circuit :
    c.open => recordCircuitFailure(c).open /\ recordCircuitSuccess(c).open
  BY DEF Circuit, recordCircuitFailure, recordCircuitSuccess

LEMMA CircuitStep ==
  ASSUME TypeOK, [Next]_vars, NEW o \in Origins,
         circuit[o].open, fires' # fires, crashes' = crashes
  PROVE  circuit'[o].open
  <1>1. CASE circuit' = circuit
    BY <1>1
  <1>2. ASSUME NEW f \in fires, FireSucceeds(f) \/ FireBreaks(f) \/ FireAnsweredError(f)
        PROVE  circuit'[o].open
    <2>1. OriginOf[f.hook] \in Origins
      BY OriginsOfHooks DEF TypeOK, Fire
    <2> DEFINE c == circuit[OriginOf[f.hook]]
    <2>2. c \in Circuit /\ circuit \in [Origins -> Circuit]
      BY <2>1 DEF TypeOK
    <2>3. recordCircuitFailure(c) \in Circuit
      BY <2>2, CircuitTypes
    <2>4. c.open => /\ recordCircuitSuccess(c).open /\ recordCircuitFailure(c).open
                    /\ recordCircuitFailure(recordCircuitFailure(c)).open
      BY <2>2, <2>3, OpenStays
    <2>5. PICK d : SetCircuit(f.hook, d) /\ (c.open => d.open)
      BY <1>2, <2>4 DEF FireSucceeds, FireBreaks, FireAnsweredError
    <2> QED
      BY <2>1, <2>2, <2>5 DEF SetCircuit
  <1>3. ASSUME NEW f \in fires, UrlRefused(f) \/ FetchSent(f) \/ EndpointAccepts(f)
        PROVE  circuit'[o].open
    BY <1>1, <1>3 DEF UrlRefused, FetchSent, EndpointAccepts
  <1>4. ASSUME NEW h \in Hooks, EnqueueWebhook(h) \/ BackoffElapses(h) \/ PurgeOldCards(h)
                                \/ VaultKeyLost(h)
        PROVE  circuit'[o].open
    BY <1>1, <1>4 DEF EnqueueWebhook, BackoffElapses, PurgeOldCards, VaultKeyLost
  <1>5. ASSUME NEW p \in Origins, FailureAges(p) \/ CooldownEnds(p) PROVE circuit'[o].open
    BY <1>5 DEF FailureAges, CooldownEnds
  <1>6. CASE RetryWebhooks \/ JobsDone
    BY <1>1, <1>6 DEF RetryWebhooks, JobsDone
  <1>7. CASE Crash
    BY <1>7 DEF Crash, TypeOK
  <1>8. CASE UNCHANGED vars
    BY <1>8 DEF vars
  <1> QED
    BY <1>2, <1>3, <1>4, <1>5, <1>6, <1>7, <1>8 DEF Next, FireStep

\* Only the end of its cool-down, or a restart, closes the circuit of an origin.
THEOREM CircuitStaysOpen == Spec => OpenCircuitStaysOpen
  <1>1. TypeOK /\ [Next]_vars =>
          [\A o \in Origins :
             circuit[o].open /\ fires' # fires /\ crashes' = crashes => circuit'[o].open]_vars
    BY CircuitStep
  <1> QED
    BY TypeCorrect, <1>1, PTL DEF Spec, OpenCircuitStaysOpen

=============================================================================
