---------------------------- MODULE WebhookDelivery ----------------------------
(***************************************************************************)
(* Telling an agent's endpoint what became of an order: enqueueWebhook,    *)
(* fireWebhook and the circuit breaker per origin (fulfillment.js), and    *)
(* the retry job over webhook_queue (jobs.js).                             *)
(*                                                                         *)
(* A notification is one call of enqueueWebhook.  It is fired at once; a   *)
(* row exists only from the first failure on.  A fire awaits the DNS check *)
(* (assertSafeUrl), then the fetch: between these, anything may happen.    *)
(* Only the queue and the cards survive a restart.                         *)
(***************************************************************************)
EXTENDS Naturals, FiniteSets

CONSTANTS
  Hooks,         \* notifications
  Origins,       \* origins of the endpoints' URLs
  OriginOf,      \* the origin of each notification's URL
  CardHooks,     \* the notifications that carry a card
  MaxAttempts,   \* WEBHOOK_MAX_ATTEMPTS
  CB_THRESHOLD,  \* failures that open a circuit
  MaxCrashes     \* bound: process restarts explored

ASSUME OriginsOfHooks == OriginOf \in [Hooks -> Origins]
ASSUME CardHooksAreHooks == CardHooks \subseteq Hooks
ASSUME BoundsAreNaturals ==
  MaxAttempts \in Nat \ {0} /\ CB_THRESHOLD \in Nat \ {0} /\ MaxCrashes \in Nat

VARIABLES
  begun,        \* the notifications enqueueWebhook was called for
  queue,        \* webhook_queue, by notification
  card,         \* the card columns of the notification's order
  circuit,      \* circuitBreakerState, in memory
  fires,        \* fireWebhook calls in flight, in memory
  jobsRunning,  \* the mutex of runJobs, in memory
  accepted,     \* external: times the endpoint took the notification with a 2xx
  acked,        \* history: the backend has seen such an answer
  blanked,      \* history: sent as delivered, without the card
  lost,         \* history: cut short on the first way, or refused by the queue
  crashes       \* restarts so far

vars == <<begun, queue, card, circuit, fires, jobsRunning, accepted, acked,
          blanked, lost, crashes>>

-----------------------------------------------------------------------------
(* webhook_queue.  `due` is next_attempt <= now.                           *)

Row == [st: {"absent", "pending", "delivered"}, attempts: Nat, due: BOOLEAN]
NoRow == [st |-> "absent", attempts |-> 0, due |-> FALSE]
QueueRow(n, due) == [st |-> "pending", attempts |-> n, due |-> due]
DeliveredRow(r) == [st |-> "delivered", attempts |-> r.attempts, due |-> r.due]

Abandoned(r) == r.st = "pending" /\ r.attempts > MaxAttempts
Retryable(h) ==
  queue[h].st = "pending" /\ queue[h].attempts <= MaxAttempts /\ queue[h].due

\* The catch of retryWebhooks for a row selected with n attempts: the last one
\* leaves next_attempt at now, the others wait for the back-off.
AfterFailure(n) == QueueRow(n + 1, n + 1 > MaxAttempts)

\* The card columns of the order: none, sealed, sealed under a lost key, purged.
Cards == {"none", "sealed", "unreadable", "purged"}

-----------------------------------------------------------------------------
(* The circuit breaker of an origin.                                       *)

Circuit == [failures: Nat, open: BOOLEAN]
Closed == [failures |-> 0, open |-> FALSE]

recordCircuitFailure(c) ==
  IF c.failures + 1 >= CB_THRESHOLD THEN [failures |-> 0, open |-> TRUE]
  ELSE [failures |-> c.failures + 1, open |-> c.open]

\* A fault: a late answer closes the circuit again.
CircuitClosedBySuccess(c) == Closed

\* An answer of a call begun before the circuit opened leaves it open.
recordCircuitSuccess(c) == [failures |-> 0, open |-> c.open]

SetCircuit(h, c) == circuit' = [circuit EXCEPT ![OriginOf[h]] = c]

\* A failure leaves the window of CB_WINDOW_MS; the CB_COOLDOWN_MS are over.
FailureAges(o) ==
  /\ circuit[o].failures > 0
  /\ circuit' = [circuit EXCEPT ![o] = [failures |-> @.failures - 1, open |-> @.open]]
  /\ UNCHANGED <<begun, queue, card, fires, jobsRunning, accepted, acked, blanked, lost, crashes>>

CooldownEnds(o) ==
  /\ circuit[o].open
  /\ circuit' = [circuit EXCEPT ![o] = [failures |-> @.failures, open |-> FALSE]]
  /\ UNCHANGED <<begun, queue, card, fires, jobsRunning, accepted, acked, blanked, lost, crashes>>

-----------------------------------------------------------------------------
(* fireWebhook.                                                            *)

Fire == [hook: Hooks, by: {"enqueue", "retry"}, at: {"resolving", "sent", "accepted"},
         attempts: Nat, withCard: BOOLEAN]

NewFire(h, by, n, withCard) ==
  [hook |-> h, by |-> by, at |-> "resolving", attempts |-> n, withCard |-> withCard]

At(f, at) == [hook |-> f.hook, by |-> f.by, at |-> at, attempts |-> f.attempts,
              withCard |-> f.withCard]
Advance(f, at) == fires' = (fires \ {f}) \cup {At(f, at)}

\* A fault: only what was sent is retried.
FailedOnceSent(f) ==
  /\ \/ f.by = "enqueue" /\ queue' = IF f.at = "resolving" THEN queue
                                     ELSE [queue EXCEPT ![f.hook] = QueueRow(1, FALSE)]
     \/ f.by = "retry" /\ queue' = [queue EXCEPT ![f.hook] = AfterFailure(f.attempts)]
  /\ UNCHANGED lost

\* What the caller's catch does: enqueueWebhook writes the row, and only logs an
\* INSERT that fails; retryWebhooks updates the row it selected.
Failed(f) ==
  \/ /\ f.by = "enqueue"
     /\ queue' = [queue EXCEPT ![f.hook] = QueueRow(1, FALSE)]
     /\ UNCHANGED lost
  \/ f.by = "enqueue" /\ lost' = lost \cup {f.hook} /\ UNCHANGED queue
  \/ /\ f.by = "retry"
     /\ queue' = [queue EXCEPT ![f.hook] = AfterFailure(f.attempts)]
     /\ UNCHANGED lost

\* The order handlers call enqueueWebhook once per notification.  An open
\* circuit fails the fire at once and does not count as a failure of the origin.
EnqueueWebhook(h) ==
  /\ h \notin begun
  /\ begun' = begun \cup {h}
  /\ LET f == NewFire(h, "enqueue", 0, h \in CardHooks)
     IN IF circuit[OriginOf[h]].open THEN Failed(f) /\ UNCHANGED fires
        ELSE fires' = fires \cup {f} /\ UNCHANGED <<queue, lost>>
  /\ UNCHANGED <<card, circuit, jobsRunning, accepted, acked, blanked, crashes>>

\* assertSafeUrl: the URL does not resolve, or to a private address.
UrlRefused(f) ==
  /\ f.at = "resolving"
  /\ Failed(f)
  /\ fires' = fires \ {f}
  /\ UNCHANGED <<begun, card, circuit, jobsRunning, accepted, acked, blanked, crashes>>

FetchSent(f) ==
  /\ f.at = "resolving"
  /\ Advance(f, "sent")
  /\ blanked' = IF f.hook \in CardHooks /\ ~f.withCard THEN blanked \cup {f.hook}
                ELSE blanked
  /\ UNCHANGED <<begun, queue, card, circuit, jobsRunning, accepted, acked, lost, crashes>>

\* The endpoint takes the notification; its answer may still be lost.
EndpointAccepts(f) ==
  /\ f.at = "sent"
  /\ Advance(f, "accepted")
  /\ accepted' = [accepted EXCEPT ![f.hook] = @ + 1]
  /\ UNCHANGED <<begun, queue, card, circuit, jobsRunning, acked, blanked, lost, crashes>>

FireSucceeds(f) ==
  /\ f.at = "accepted"
  /\ SetCircuit(f.hook, recordCircuitSuccess(circuit[OriginOf[f.hook]]))
  /\ queue' = IF f.by = "enqueue" THEN queue
              ELSE [queue EXCEPT ![f.hook] = DeliveredRow(@)]
  /\ fires' = fires \ {f}
  /\ acked' = acked \cup {f.hook}
  /\ UNCHANGED <<begun, card, jobsRunning, accepted, blanked, lost, crashes>>

\* A refused, redirected or timed out fetch, or one whose answer is lost.
FireBreaks(f) ==
  /\ f.at \in {"sent", "accepted"}
  /\ SetCircuit(f.hook, recordCircuitFailure(circuit[OriginOf[f.hook]]))
  /\ Failed(f)
  /\ fires' = fires \ {f}
  /\ UNCHANGED <<begun, card, jobsRunning, accepted, acked, blanked, crashes>>

\* An answer that is not 2xx is recorded twice: before the throw and in the catch.
FireAnsweredError(f) ==
  /\ f.at = "sent"
  /\ SetCircuit(f.hook,
       recordCircuitFailure(recordCircuitFailure(circuit[OriginOf[f.hook]])))
  /\ Failed(f)
  /\ fires' = fires \ {f}
  /\ UNCHANGED <<begun, card, jobsRunning, accepted, acked, blanked, crashes>>

-----------------------------------------------------------------------------
(* retryWebhooks, under the mutex of runJobs.  Everything up to the first  *)
(* await of each selected row is one step: the cards are opened, and an    *)
(* open circuit fails the fire.                                            *)

Selected == {h \in Hooks : Retryable(h)}
\* A fault: what the vault throws is taken for a purged card.
VaultNeverFails(h) == FALSE

VaultFails(h) == h \in CardHooks /\ card[h] = "unreadable"
CircuitIsOpen(h) == circuit[OriginOf[h]].open
RetryFire(h) == NewFire(h, "retry", queue[h].attempts, card[h] = "sealed")

RetryWebhooks ==
  /\ ~jobsRunning
  /\ Selected # {}
  /\ jobsRunning' = TRUE
  /\ queue' = [h \in Hooks |->
       IF h \notin Selected THEN queue[h]
       ELSE IF VaultFails(h) THEN QueueRow(MaxAttempts + 1, TRUE)
       ELSE IF CircuitIsOpen(h) THEN AfterFailure(queue[h].attempts)
       ELSE queue[h]]
  /\ fires' = fires \cup
       {RetryFire(h) : h \in {i \in Selected : ~VaultFails(i) /\ ~CircuitIsOpen(i)}}
  /\ UNCHANGED <<begun, card, circuit, accepted, acked, blanked, lost, crashes>>

\* A fault: the batch is not awaited.
JobsDoneAtOnce ==
  /\ jobsRunning
  /\ jobsRunning' = FALSE
  /\ UNCHANGED <<begun, queue, card, circuit, fires, accepted, acked, blanked, lost, crashes>>

\* Promise.allSettled: runJobs goes on when the last fire of the batch is done.
JobsDone ==
  /\ jobsRunning
  /\ \A f \in fires : f.by # "retry"
  /\ jobsRunning' = FALSE
  /\ UNCHANGED <<begun, queue, card, circuit, fires, accepted, acked, blanked, lost, crashes>>

BackoffElapses(h) ==
  /\ queue[h].st = "pending" /\ ~queue[h].due
  /\ queue' = [queue EXCEPT ![h] = QueueRow(@.attempts, TRUE)]
  /\ UNCHANGED <<begun, card, circuit, fires, jobsRunning, accepted, acked, blanked, lost, crashes>>

-----------------------------------------------------------------------------
(* The cards, and the process.                                             *)

\* The last job of a tick, when the retries of that tick are over.
PurgeOldCards(h) ==
  /\ ~jobsRunning
  /\ card[h] \in {"sealed", "unreadable"}
  /\ card' = [card EXCEPT ![h] = "purged"]
  /\ UNCHANGED <<begun, queue, circuit, fires, jobsRunning, accepted, acked, blanked, lost, crashes>>

VaultKeyLost(h) ==
  /\ card[h] = "sealed"
  /\ card' = [card EXCEPT ![h] = "unreadable"]
  /\ UNCHANGED <<begun, queue, circuit, fires, jobsRunning, accepted, acked, blanked, lost, crashes>>

FirstFires == {f \in fires : f.by = "enqueue"}

\* What was on its first way has no row: a restart forgets it.
Crash ==
  /\ crashes < MaxCrashes
  /\ crashes' = crashes + 1
  /\ circuit' = [o \in Origins |-> Closed]
  /\ fires' = {}
  /\ jobsRunning' = FALSE
  /\ lost' = lost \cup {f.hook : f \in FirstFires}
  /\ UNCHANGED <<begun, queue, card, accepted, acked, blanked>>

-----------------------------------------------------------------------------
Init ==
  /\ begun = {}
  /\ queue = [h \in Hooks |-> NoRow]
  /\ card = [h \in Hooks |-> IF h \in CardHooks THEN "sealed" ELSE "none"]
  /\ circuit = [o \in Origins |-> Closed]
  /\ fires = {}
  /\ jobsRunning = FALSE
  /\ accepted = [h \in Hooks |-> 0]
  /\ acked = {}
  /\ blanked = {}
  /\ lost = {}
  /\ crashes = 0

FireStep(f) ==
  \/ UrlRefused(f) \/ FetchSent(f)
  \/ FireSucceeds(f) \/ FireBreaks(f) \/ FireAnsweredError(f)

Next ==
  \/ \E h \in Hooks : EnqueueWebhook(h) \/ BackoffElapses(h)
                      \/ PurgeOldCards(h) \/ VaultKeyLost(h)
  \/ \E f \in fires : FireStep(f) \/ EndpointAccepts(f)
  \/ \E o \in Origins : FailureAges(o) \/ CooldownEnds(o)
  \/ RetryWebhooks \/ JobsDone \/ Crash

Spec == Init /\ [][Next]_vars

-----------------------------------------------------------------------------
(* Properties.                                                             *)

TypeOK ==
  /\ begun \subseteq Hooks
  /\ queue \in [Hooks -> Row]
  /\ card \in [Hooks -> Cards]
  /\ circuit \in [Origins -> Circuit]
  /\ fires \subseteq Fire
  /\ jobsRunning \in BOOLEAN
  /\ accepted \in [Hooks -> Nat]
  /\ acked \subseteq Hooks
  /\ blanked \subseteq Hooks
  /\ lost \subseteq Hooks
  /\ crashes \in Nat

\* jobs.js 1230-1237, "doubled webhook notifications": no two deliveries of one
\* notification are on their way at once.
OneDeliveryAtATime == \A f, g \in fires : f.hook = g.hook => f = g

\* A notification the endpoint has not answered for is on its first way or in the
\* queue, except exactly those that a restart cut short on that way and those whose
\* INSERT failed, which is only logged (fulfillment.js 517-565): nothing brings
\* these back, and no other step loses one.
Kept(h) ==
  h \in acked \/ queue[h].st # "absent" \/ \E f \in FirstFires : f.hook = h

LossesAreExplained == \A h \in begun : h \in lost <=> ~Kept(h)

\* jobs.js 788-793: a delivered order is announced without its card only when
\* the card was purged, never because the vault cannot open it.
CardBlankedOnlyIfPurged == \A h \in blanked : card[h] = "purged"

\* A retry works on the pending row it was selected from; what is answered for
\* with a 2xx is not in the queue any more, so it is never sent again.
RetriesMatchTheQueue ==
  /\ \A f \in fires :
       IF f.by = "retry"
       THEN /\ queue[f.hook].st = "pending" /\ queue[f.hook].attempts = f.attempts
            /\ f.attempts <= MaxAttempts /\ jobsRunning
       ELSE queue[f.hook].st = "absent"
  /\ \A h \in acked : /\ h \in begun /\ queue[h].st \in {"absent", "delivered"}
                      /\ \A f \in fires : f.hook # h
  /\ \A h \in Hooks : queue[h].attempts <= MaxAttempts + 1
  /\ \A f \in fires : f.hook \in begun
  /\ \A h \in Hooks : queue[h].st # "absent" => h \in begun

\* The invariant of the proofs.
DeliveryInv ==
  /\ TypeOK /\ OneDeliveryAtATime /\ RetriesMatchTheQueue

\* fulfillment.js 376-388: while the cool-down of an origin runs, no answer of a
\* call that was already on its way closes its circuit again.
OpenCircuitStaysOpen ==
  [][\A o \in Origins :
       circuit[o].open /\ fires' # fires /\ crashes' = crashes => circuit'[o].open]_vars

=============================================================================
