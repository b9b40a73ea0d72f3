------------------------------- MODULE VccClient -------------------------------
(***************************************************************************)
(* How the backend talks to VCC (vcc-client.js): the circuit breaker, the  *)
(* token that registers itself, and the secret and nonce under which VCC   *)
(* signs the callback of an order (checked in vcc-callback.js).            *)
(*                                                                         *)
(* A call holds what it read before its awaits: the token, the secret and  *)
(* the nonce.  The payment handler makes the first getInvoice of an order, *)
(* the reconciler repeats it while the order has no job; the calls of the  *)
(* job itself (notifyPaid, getVccJobStatus) differ only in what they send. *)
(***************************************************************************)
EXTENDS Naturals, FiniteSets

CONSTANTS
  Orders,
  Tokens,       \* tokens VCC issues; each is a tenant of VCC
  Nonces,       \* random callback nonces
  None,         \* NULL
  VCC_CIRCUIT_THRESHOLD,
  MaxFaults     \* bound: revoked tokens, lost vault keys, what the calls of other
                \* orders do to the stored token, and process restarts

ASSUME NoneIsNone == None \notin Tokens \cup Nonces
ASSUME BoundsAreNaturals ==
  VCC_CIRCUIT_THRESHOLD \in Nat \ {0} /\ MaxFaults \in Nat

VARIABLES
  breaker,   \* _vccCircuit, in memory
  stored,    \* system_state.vcc_token
  row,       \* the columns of an order this is about
  calls,     \* calls in flight, in memory
  issued,    \* external: the tokens VCC has given out
  revoked,   \* external: the tokens VCC no longer takes
  jobs,      \* external: VCC's jobs for an order, one per tenant
  lost,      \* history: a getInvoice VCC took ended without its answer recorded
  keyLost,   \* history: the sealed secret of an order could not be opened
  troubles,  \* faults other than restarts so far
  crashes    \* restarts so far

clientVars == <<breaker, stored, row, calls>>
vccVars == <<issued, revoked, jobs>>
historyVars == <<lost, keyLost, troubles>>
vars == <<clientVars, vccVars, historyVars, crashes>>

-----------------------------------------------------------------------------
(* The circuit breaker.  `recent`: the last failure is at most             *)
(* VCC_CIRCUIT_WINDOW_MS old; `open`: openedUntil is in the future.        *)

Breaker == [failures: 0 .. VCC_CIRCUIT_THRESHOLD - 1, recent: BOOLEAN, open: BOOLEAN]
ClosedBreaker == [failures |-> 0, recent |-> FALSE, open |-> FALSE]

vccCircuitGuard == ~breaker.open

Failures(b) == IF b.recent THEN b.failures + 1 ELSE 1
recordVccFailure(b) ==
  IF Failures(b) >= VCC_CIRCUIT_THRESHOLD
  THEN [failures |-> 0, recent |-> TRUE, open |-> TRUE]
  ELSE [failures |-> Failures(b), recent |-> TRUE, open |-> b.open]

\* A fault: a late answer closes the breaker.
ClosedBySuccess(b) == ClosedBreaker

recordVccSuccess(b) == [failures |-> 0, recent |-> b.recent /\ b.open, open |-> b.open]

WindowPasses ==
  /\ breaker.recent
  /\ breaker' = [failures |-> breaker.failures, recent |-> FALSE, open |-> breaker.open]
  /\ UNCHANGED <<stored, row, calls, vccVars, historyVars, crashes>>

CooldownEnds ==
  /\ breaker.open
  /\ breaker' = [failures |-> breaker.failures, recent |-> breaker.recent, open |-> FALSE]
  /\ UNCHANGED <<stored, row, calls, vccVars, historyVars, crashes>>

-----------------------------------------------------------------------------
(* The rows.                                                               *)

Sealings == {"absent", "sealed", "unreadable"}
Token == [st: Sealings, token: Tokens \cup {None}]
NoToken == [st |-> "absent", token |-> None]
SealedToken(t) == [st |-> "sealed", token |-> t]

Row == [st: {"paid", "ordering", "failed"}, job: Tokens \cup {None},
        nonce: Nonces \cup {None}, sealing: Sealings, secret: Nat]
NewRow == [st |-> "paid", job |-> None, nonce |-> None, sealing |-> "absent", secret |-> 0]

WithStatus(r, st) == [st |-> st, job |-> r.job, nonce |-> r.nonce,
                      sealing |-> r.sealing, secret |-> r.secret]

\* A fault: every getInvoice mints a secret.
WithFreshSecret(r) == [st |-> r.st, job |-> r.job, nonce |-> r.nonce,
                       sealing |-> "sealed", secret |-> r.secret + 1]

\* getInvoice keeps the secret of the order, or mints and seals one.
WithSecret(r) ==
  IF r.sealing = "sealed" THEN r
  ELSE [st |-> r.st, job |-> r.job, nonce |-> r.nonce,
        sealing |-> "sealed", secret |-> r.secret + 1]

\* A fault: the row keeps the nonce it has.
WithJobOnly(r, c) == [st |-> r.st, job |-> c.token, nonce |-> r.nonce,
                      sealing |-> r.sealing, secret |-> r.secret]

WithInvoice(r, c) == [st |-> r.st, job |-> c.token, nonce |-> c.nonce,
                      sealing |-> r.sealing, secret |-> r.secret]

Job == [tenant: Tokens, secret: Nat, nonce: Nonces]

\* verifyVccSignature for a callback of job j: protocol v3, since the row has a
\* secret; a row without a nonce accepts none.
Verifies(r, j) == r.sealing = "sealed" /\ r.secret = j.secret /\ r.nonce = j.nonce

-----------------------------------------------------------------------------
(* The calls.                                                              *)

Call == [order: Orders, op: {"getInvoice", "job"}, by: {"handler", "reconciler"},
         at: {"registering", "sent", "taken", "answered"},
         token: Tokens \cup {None}, secret: Nat, nonce: Nonces \cup {None}]

Calling(o) == \E c \in calls : c.order = o
Ends(c) == calls' = calls \ {c}
Moves(c, at) ==
  calls' = (calls \ {c}) \cup
    {[order |-> c.order, op |-> c.op, by |-> c.by, at |-> at, token |-> c.token,
      secret |-> c.secret, nonce |-> c.nonce]}

\* A random value is one that means nothing yet, and which one makes no difference.
Random(S) == CHOOSE x \in S : TRUE
NoncesOf(o) == {j.nonce : j \in jobs[o]} \cup {row[o].nonce}

Request(c, t, r, n) ==
  [order |-> c.order, op |-> c.op, by |-> c.by, at |-> "sent", token |-> t,
   secret |-> r.secret, nonce |-> n]

\* Past getVccToken: the fetch goes out with the token, the secret and a nonce.
Sends(c, t, st) ==
  LET o == c.order
      r == WithStatus(WithSecret(row[o]), st)
  IN \/ /\ c.op = "getInvoice"
        /\ row[o].nonce # None \/ Nonces \ NoncesOf(o) # {}
        /\ LET n == IF row[o].nonce # None THEN row[o].nonce ELSE Random(Nonces \ NoncesOf(o))
           IN calls' = (calls \ {c}) \cup {Request(c, t, r, n)}
        /\ row' = [row EXCEPT ![o] = r]
     \/ /\ c.op = "job"
        /\ calls' = (calls \ {c}) \cup {Request(c, t, row[o], None)}
        /\ UNCHANGED row

NewCall(o, op, by) == [order |-> o, op |-> op, by |-> by, at |-> "registering",
                       token |-> None, secret |-> 0, nonce |-> None]

\* The guard, then getVccToken: a readable token is used at once; one that cannot
\* be opened is deleted, and the call registers.
Begin(o, op, by) ==
  /\ vccCircuitGuard
  /\ ~Calling(o)
  /\ LET c == NewCall(o, op, by)
     IN IF stored.st = "sealed"
        THEN Sends(c, stored.token, "ordering") /\ UNCHANGED stored
        ELSE /\ calls' = calls \cup {c}
             /\ row' = [row EXCEPT ![o] = WithStatus(@, "ordering")]
             /\ stored' = NoToken
  /\ UNCHANGED <<breaker, vccVars, historyVars, crashes>>

\* handlePayment, once: with the breaker open getInvoice throws and the order fails.
HandlePayment(o) == row[o].st = "paid" /\ Begin(o, "getInvoice", "handler")
HandlePaymentRefused(o) ==
  /\ row[o].st = "paid" /\ ~vccCircuitGuard
  /\ row' = [row EXCEPT ![o] = WithStatus(@, "failed")]
  /\ UNCHANGED <<breaker, stored, calls, vccVars, historyVars, crashes>>

\* reconcileOrderingFulfillment: an order that is older than any call of its handler.
Reconcile(o) ==
  /\ row[o].st = "ordering"
  /\ Begin(o, IF row[o].job = None THEN "getInvoice" ELSE "job", "reconciler")

\* handlePayment with the CTX invoice paid.
NotifyPaid(o) ==
  /\ row[o].st = "ordering" /\ row[o].job # None
  /\ Begin(o, "job", "handler")

\* The call throws: the handler's catch fails the order, the reconciler tries again.
Throws(c) ==
  /\ Ends(c)
  /\ row' = IF c.by = "handler"
            THEN [row EXCEPT ![c.order] = WithStatus(@, "failed")] ELSE row
  /\ lost' = IF c.at \in {"taken", "answered"} /\ c.op = "getInvoice"
             THEN lost \cup {c.order} ELSE lost

-----------------------------------------------------------------------------
(* Registration.  A success does not count for the breaker.                *)

RegisterAnswers(c) ==
  /\ c.at = "registering"
  /\ Tokens \ issued # {}
  /\ LET t == Random(Tokens \ issued)
     IN /\ issued' = issued \cup {t}
        /\ stored' = SealedToken(t)
        /\ Sends(c, t, row[c.order].st)
  /\ UNCHANGED <<breaker, revoked, jobs, historyVars, crashes>>

\* No answer, or a 5xx.
RegisterBreaks(c) ==
  /\ c.at = "registering"
  /\ Throws(c)
  /\ breaker' = recordVccFailure(breaker)
  /\ UNCHANGED <<stored, vccVars, keyLost, troubles, crashes>>

\* A 4xx (VCC limits registrations), or an answer without a token.
RegisterRefused(c) ==
  /\ c.at = "registering"
  /\ Throws(c)
  /\ UNCHANGED <<breaker, stored, vccVars, keyLost, troubles, crashes>>

-----------------------------------------------------------------------------
(* The call.                                                               *)

\* VCC: idempotent per tenant and order, a repeated getInvoice gets the job there is.
VccTakes(c) ==
  /\ c.at = "sent" /\ c.token \notin revoked
  /\ Moves(c, "taken")
  /\ jobs' = IF c.op = "job" \/ \E j \in jobs[c.order] : j.tenant = c.token THEN jobs
             ELSE [jobs EXCEPT ![c.order] =
                     @ \cup {[tenant |-> c.token, secret |-> c.secret, nonce |-> c.nonce]}]
  /\ UNCHANGED <<breaker, stored, row, issued, revoked, historyVars, crashes>>

\* The reconciler writes the invoice at once, the handler asks for a price first.
CallAnswered(c) ==
  /\ c.at = "taken"
  /\ breaker' = recordVccSuccess(breaker)
  /\ IF c.op = "getInvoice" /\ c.by = "handler"
     THEN Moves(c, "answered") /\ UNCHANGED row
     ELSE /\ Ends(c)
          /\ row' = IF c.op = "job" THEN row
                    ELSE [row EXCEPT ![c.order] = WithInvoice(@, c)]
  /\ UNCHANGED <<stored, vccVars, historyVars, crashes>>

HandlerRecords(c) ==
  /\ c.at = "answered"
  /\ Ends(c)
  /\ row' = [row EXCEPT ![c.order] = WithInvoice(@, c)]
  /\ UNCHANGED <<breaker, stored, vccVars, historyVars, crashes>>

\* A 2xx whose body is no invoice.
AnswerMalformed(c) ==
  /\ c.at = "taken" /\ c.op = "getInvoice"
  /\ Throws(c)
  /\ breaker' = recordVccSuccess(breaker)
  /\ UNCHANGED <<stored, vccVars, keyLost, troubles, crashes>>

\* No answer in time, or a 5xx.
CallBreaks(c) ==
  /\ c.at \in {"sent", "taken"}
  /\ Throws(c)
  /\ breaker' = recordVccFailure(breaker)
  /\ UNCHANGED <<stored, vccVars, keyLost, troubles, crashes>>

\* A 4xx other than 401.
CallRefused(c) ==
  /\ c.at = "sent"
  /\ Throws(c)
  /\ UNCHANGED <<breaker, stored, vccVars, keyLost, troubles, crashes>>

\* A fault: a refused token stays.
KeepToken == stored

\* A 401 deletes whatever token is stored by now.
DeleteToken == NoToken

CallUnauthorized(c) ==
  /\ c.at = "sent" /\ c.token \in revoked
  /\ Throws(c)
  /\ stored' = DeleteToken
  /\ UNCHANGED <<breaker, vccVars, keyLost, troubles, crashes>>

CallStep(c) ==
  \/ RegisterAnswers(c) \/ RegisterBreaks(c) \/ RegisterRefused(c)
  \/ CallAnswered(c) \/ HandlerRecords(c) \/ AnswerMalformed(c)
  \/ CallBreaks(c) \/ CallRefused(c) \/ CallUnauthorized(c)

-----------------------------------------------------------------------------
(* The calls of other orders share the breaker and the stored token.       *)

OtherCallEnds ==
  /\ breaker' \in {recordVccFailure(breaker), recordVccSuccess(breaker)}
  /\ UNCHANGED <<stored, row, calls, vccVars, historyVars, crashes>>

\* Two first calls register at once: the later token is the one that stays.
OtherCallRegisters ==
  /\ troubles + crashes < MaxFaults
  /\ Tokens \ issued # {}
  /\ LET t == Random(Tokens \ issued)
     IN issued' = issued \cup {t} /\ stored' = SealedToken(t)
  /\ troubles' = troubles + 1
  /\ UNCHANGED <<breaker, row, calls, revoked, jobs, lost, keyLost, crashes>>

\* A late 401 for a revoked token deletes the one registered since.
OtherCallUnauthorized ==
  /\ troubles + crashes < MaxFaults
  /\ revoked # {} /\ stored # NoToken
  /\ stored' = DeleteToken
  /\ troubles' = troubles + 1
  /\ UNCHANGED <<breaker, row, calls, vccVars, lost, keyLost, crashes>>

-----------------------------------------------------------------------------
(* What happens to tokens and keys, and restarts.                          *)

VccRevokes(t) ==
  /\ troubles + crashes < MaxFaults
  /\ t \in issued \ revoked
  /\ revoked' = revoked \cup {t}
  /\ troubles' = troubles + 1
  /\ UNCHANGED <<clientVars, issued, jobs, lost, keyLost, crashes>>

TokenKeyLost ==
  /\ troubles + crashes < MaxFaults
  /\ stored.st = "sealed"
  /\ stored' = [st |-> "unreadable", token |-> stored.token]
  /\ troubles' = troubles + 1
  /\ UNCHANGED <<breaker, row, calls, vccVars, lost, keyLost, crashes>>

SecretKeyLost(o) ==
  /\ troubles + crashes < MaxFaults
  /\ row[o].sealing = "sealed"
  /\ row' = [row EXCEPT ![o] = [st |-> @.st, job |-> @.job, nonce |-> @.nonce,
                                sealing |-> "unreadable", secret |-> @.secret]]
  /\ keyLost' = keyLost \cup {o}
  /\ troubles' = troubles + 1
  /\ UNCHANGED <<breaker, stored, calls, vccVars, lost, crashes>>

Crash ==
  /\ troubles + crashes < MaxFaults
  /\ crashes' = crashes + 1
  /\ breaker' = ClosedBreaker
  /\ calls' = {}
  /\ lost' = lost \cup {c.order : c \in {d \in calls : /\ d.op = "getInvoice"
                                                       /\ d.at \in {"taken", "answered"}}}
  /\ UNCHANGED <<stored, row, vccVars, keyLost, troubles>>

-----------------------------------------------------------------------------
Init ==
  /\ breaker = ClosedBreaker
  /\ stored = NoToken
  /\ row = [o \in Orders |-> NewRow]
  /\ calls = {}
  /\ issued = {} /\ revoked = {}
  /\ jobs = [o \in Orders |-> {}]
  /\ lost = {} /\ keyLost = {}
  /\ troubles = 0
  /\ crashes = 0

Next ==
  \/ \E o \in Orders : HandlePayment(o) \/ HandlePaymentRefused(o) \/ Reconcile(o)
                       \/ NotifyPaid(o) \/ SecretKeyLost(o)
  \/ \E c \in calls : CallStep(c) \/ VccTakes(c)
  \/ \E t \in Tokens : VccRevokes(t)
  \/ WindowPasses \/ CooldownEnds \/ TokenKeyLost \/ Crash
  \/ OtherCallEnds \/ OtherCallRegisters \/ OtherCallUnauthorized

Spec == Init /\ [][Next]_vars

\* The reconciler comes back, and VCC is not down for ever: registrations and
\* invoices asked for again and again are answered in the end.
Fairness ==
  /\ WF_vars(CooldownEnds)
  /\ \A o \in Orders :
       /\ SF_vars(Reconcile(o))
       /\ SF_vars(\E c \in calls : c.order = o /\ RegisterAnswers(c))
       /\ SF_vars(\E c \in calls : c.order = o /\ (VccTakes(c) \/ CallUnauthorized(c)))
       /\ SF_vars(\E c \in calls : c.order = o /\ (CallAnswered(c) \/ HandlerRecords(c)))

FairSpec == Spec /\ Fairness

-----------------------------------------------------------------------------
(* Properties.                                                             *)

TypeOK ==
  /\ breaker \in Breaker
  /\ stored \in Token /\ (stored.st = "sealed" => stored.token \in issued)
  /\ row \in [Orders -> Row]
  /\ calls \subseteq Call
  /\ issued \subseteq Tokens /\ revoked \subseteq issued
  /\ jobs \in [Orders -> SUBSET Job]
  /\ lost \subseteq Orders /\ keyLost \subseteq Orders
  /\ troubles \in Nat /\ crashes \in Nat

\* vcc-client.js 271-272: as long as the vault opens it, an order has one secret,
\* and VCC signs with the one in the row whichever attempt made the job.
SecretSurvivesRetries ==
  \A o \in Orders \ keyLost : \A j \in jobs[o] :
    row[o].sealing = "sealed" /\ row[o].secret = j.secret

\* A getInvoice under way carries the secret of its order and is the only call
\* of an order that has no job yet.
CallsMatchTheRows ==
  /\ \A c, d \in calls : c.order = d.order => c = d
  /\ \A c \in calls : c.op = "getInvoice" =>
       /\ row[c.order].job = None
       /\ c.at # "registering" => c.token # None /\ c.nonce # None
       /\ c.at # "registering" /\ c.order \notin keyLost =>
            row[c.order].sealing = "sealed" /\ row[c.order].secret = c.secret
  /\ \A o \in Orders \ keyLost : row[o].sealing # "unreadable"
  /\ \A o \in Orders : row[o].st = "paid" => row[o].job = None
  /\ \A c \in calls :
       row[c.order].st # "paid" /\ (c.at = "answered" => c.op = "getInvoice")

\* What VCC holds for an order is recorded, on its way, or lost.
JobsMatchTheRows ==
  /\ \A o \in Orders \ lost : \A j \in jobs[o] :
       \/ j.tenant = row[o].job /\ j.nonce = row[o].nonce
       \/ \E c \in calls : /\ c.order = o /\ c.op = "getInvoice" /\ c.at \in {"taken", "answered"}
                          /\ c.token = j.tenant /\ c.nonce = j.nonce
  /\ \A o \in Orders \ lost : row[o].job # None => \E j \in jobs[o] : j.tenant = row[o].job
  /\ \A c \in calls : c.op = "getInvoice" /\ c.at \in {"taken", "answered"} =>
       \E j \in jobs[c.order] : j.tenant = c.token

\* The invariant of the proofs.
ClientInv == TypeOK /\ SecretSurvivesRetries /\ CallsMatchTheRows /\ JobsMatchTheRows

\* A genuine callback of the job an order has recorded is accepted, unless the
\* vault lost the secret or an attempt VCC took ended without being recorded:
\* then the job keeps a nonce the row does not have.
CallbackVerifiesUnlessLost ==
  \A o \in Orders \ (lost \cup keyLost) : row[o].job # None =>
    \E j \in jobs[o] : j.tenant = row[o].job /\ Verifies(row[o], j)

\* vcc-client.js 38-46: while the cool-down runs, no answer of a call made before
\* the breaker opened closes it.
OpenBreakerStaysOpen ==
  [][breaker.open /\ ~breaker'.open => CooldownEnds \/ Crash]_vars

\* vcc-client.js 205-209: no stored token, revoked or unreadable, and no failing VCC
\* that comes back wedges an order: it gets its job, unless its handler gave up.
\* The reconciler's last attempt (OrderFulfillment) is left out, so that failing
\* the order is not what ends the wait.
InvoicedInTheEnd ==
  \A o \in Orders : row[o].st = "ordering" ~> (row[o].job # None \/ row[o].st = "failed")

=============================================================================
