---------------------------- MODULE VccClientProofs ----------------------------
(***************************************************************************)
(* Proofs about VccClient, for any orders, tokens and nonces, any          *)
(* threshold of the breaker and any number of faults and restarts.         *)
(***************************************************************************)
EXTENDS VccClient, TLAPS

-----------------------------------------------------------------------------
(* The breaker.                                                            *)

LEMMA BreakerTypes ==
  /\ ClosedBreaker \in Breaker
  /\ \A b \in Breaker : recordVccFailure(b) \in Breaker /\ recordVccSuccess(b) \in Breaker
  <1>1. VCC_CIRCUIT_THRESHOLD \in Nat /\ VCC_CIRCUIT_THRESHOLD > 0
    BY BoundsAreNaturals
  <1>2. ClosedBreaker \in Breaker
    BY <1>1 DEF ClosedBreaker, Breaker
  <1>3. ASSUME NEW b \in Breaker PROVE recordVccFailure(b) \in Breaker
    <2>1. Failures(b) \in Nat
      BY <1>1 DEF Failures, Breaker
    <2> QED
      BY <1>1, <2>1 DEF recordVccFailure, Breaker
  <1>4. ASSUME NEW b \in Breaker PROVE recordVccSuccess(b) \in Breaker
    BY <1>1 DEF recordVccSuccess, Breaker
  <1> QED
    BY <1>2, <1>3, <1>4

LEMMA OpenStaysOpen ==
  \A b : b.open => recordVccFailure(b).open /\ recordVccSuccess(b).open
  BY DEF recordVccFailure, recordVccSuccess

-----------------------------------------------------------------------------
(* Types.                                                                  *)

LEMMA RandomIsIn ==
  ASSUME NEW S, S # {}
  PROVE  Random(S) \in S
  BY DEF Random

LEMMA RowTypes ==
  /\ NewRow \in Row
  /\ \A r \in Row, st \in {"paid", "ordering", "failed"} : WithStatus(r, st) \in Row
  /\ \A r \in Row : WithSecret(r) \in Row
  /\ \A r \in Row, c \in Call : WithInvoice(r, c) \in Row
  BY DEF NewRow, Row, WithStatus, WithSecret, WithInvoice, Sealings, Call

LEMMA RowFields ==
  /\ \A r \in Row, st \in {"paid", "ordering", "failed"} :
       /\ WithStatus(r, st).st = st /\ WithStatus(r, st).job = r.job
       /\ WithStatus(r, st).nonce = r.nonce /\ WithStatus(r, st).sealing = r.sealing
       /\ WithStatus(r, st).secret = r.secret
  /\ \A r \in Row :
       /\ WithSecret(r).st = r.st /\ WithSecret(r).job = r.job
       /\ WithSecret(r).nonce = r.nonce /\ WithSecret(r).sealing = "sealed"
       /\ r.sealing = "sealed" => WithSecret(r).secret = r.secret
  /\ \A r \in Row, c \in Call :
       /\ WithInvoice(r, c).st = r.st /\ WithInvoice(r, c).job = c.token
       /\ WithInvoice(r, c).nonce = c.nonce /\ WithInvoice(r, c).sealing = r.sealing
       /\ WithInvoice(r, c).secret = r.secret
  BY DEF WithStatus, WithSecret, WithInvoice, Row

LEMMA TokenTypes ==
  /\ NoToken \in Token /\ NoToken.st = "absent"
  /\ \A t \in Tokens : SealedToken(t) \in Token
  /\ \A t \in Tokens : SealedToken(t).st = "sealed" /\ SealedToken(t).token = t
  BY DEF NoToken, SealedToken, Token, Sealings

LEMMA NewCallIs ==
  ASSUME NEW o \in Orders, NEW op \in {"getInvoice", "job"}, NEW by \in {"handler", "reconciler"}
  PROVE  /\ NewCall(o, op, by) \in Call
         /\ NewCall(o, op, by).order = o /\ NewCall(o, op, by).op = op
         /\ NewCall(o, op, by).by = by /\ NewCall(o, op, by).at = "registering"
  BY DEF NewCall, Call

LEMMA RequestIs ==
  ASSUME NEW c \in Call, NEW t \in Tokens, NEW r \in Row, NEW n \in Nonces \cup {None}
  PROVE  /\ Request(c, t, r, n) \in Call
         /\ Request(c, t, r, n).order = c.order /\ Request(c, t, r, n).op = c.op
         /\ Request(c, t, r, n).at = "sent" /\ Request(c, t, r, n).token = t
         /\ Request(c, t, r, n).secret = r.secret /\ Request(c, t, r, n).nonce = n
  BY DEF Request, Call, Row

LEMMA NonceIs ==
  ASSUME TypeOK, NEW o \in Orders, row[o].nonce # None \/ Nonces \ NoncesOf(o) # {}
  PROVE  (IF row[o].nonce # None THEN row[o].nonce ELSE Random(Nonces \ NoncesOf(o))) \in Nonces
  <1>1. row[o].nonce \in Nonces \cup {None}
    BY DEF TypeOK, Row
  <1>2. CASE row[o].nonce # None
    BY <1>1, <1>2
  <1>3. CASE row[o].nonce = None
    <2>1. Random(Nonces \ NoncesOf(o)) \in Nonces \ NoncesOf(o)
      BY <1>3, RandomIsIn
    <2> QED
      BY <1>3, <2>1
  <1> QED
    BY <1>2, <1>3

\* What Sends leaves behind: one request in the place of the call, with a secret
\* that the row has.
Sent(c, t, st) ==
  LET o == c.order IN
  \/ /\ c.op = "getInvoice"
     /\ row' = [row EXCEPT ![o] = WithStatus(WithSecret(row[o]), st)]
     /\ \E n \in Nonces :
          calls' = (calls \ {c}) \cup {Request(c, t, WithStatus(WithSecret(row[o]), st), n)}
  \/ /\ c.op = "job"
     /\ row' = row
     /\ calls' = (calls \ {c}) \cup {Request(c, t, row[o], None)}

LEMMA SendsIs ==
  ASSUME TypeOK, NEW c \in Call, NEW t, NEW st, Sends(c, t, st)
  PROVE  Sent(c, t, st)
  <1>o. c.order \in Orders
    BY DEF Call
  <1>1. CASE c.op = "getInvoice"
    <2>1. c.op # "job"
      BY <1>1
    <2> QED
      BY <1>o, <1>1, <2>1, NonceIs DEF Sends, Sent
  <1>2. CASE c.op # "getInvoice"
    BY <1>2 DEF Sends, Sent
  <1> QED
    BY <1>1, <1>2

LEMMA SentTypes ==
  ASSUME TypeOK, NEW c \in Call, NEW t \in Tokens, NEW st \in {"paid", "ordering", "failed"},
         Sent(c, t, st)
  PROVE  row' \in [Orders -> Row] /\ calls' \subseteq Call
  <1>o. c.order \in Orders /\ row \in [Orders -> Row] /\ calls \subseteq Call
    BY DEF Call, TypeOK
  <1>r. WithStatus(WithSecret(row[c.order]), st) \in Row
    BY <1>o, RowTypes
  <1>1. CASE c.op = "getInvoice"
    <2>1. row' \in [Orders -> Row]
      BY <1>o, <1>r, <1>1 DEF Sent
    <2>2. PICK n \in Nonces :
            calls' = (calls \ {c}) \cup {Request(c, t, WithStatus(WithSecret(row[c.order]), st), n)}
      BY <1>1 DEF Sent
    <2>3. Request(c, t, WithStatus(WithSecret(row[c.order]), st), n) \in Call
      BY <1>r, RequestIs
    <2> QED
      BY <1>o, <2>1, <2>2, <2>3
  <1>2. CASE c.op # "getInvoice"
    <2>1. row' = row /\ calls' = (calls \ {c}) \cup {Request(c, t, row[c.order], None)}
      BY <1>2 DEF Sent
    <2>2. Request(c, t, row[c.order], None) \in Call
      BY <1>o, RequestIs
    <2> QED
      BY <1>o, <2>1, <2>2
  <1> QED
    BY <1>1, <1>2

LEMMA MovesIs ==
  ASSUME NEW c \in Call, NEW at \in {"registering", "sent", "taken", "answered"}, Moves(c, at)
  PROVE  \E d \in Call :
           /\ calls' = (calls \ {c}) \cup {d}
           /\ d.order = c.order /\ d.op = c.op /\ d.by = c.by /\ d.at = at
           /\ d.token = c.token /\ d.secret = c.secret /\ d.nonce = c.nonce
  <1> DEFINE d == [order |-> c.order, op |-> c.op, by |-> c.by, at |-> at, token |-> c.token,
                   secret |-> c.secret, nonce |-> c.nonce]
  <1>1. d \in Call
    BY DEF Call
  <1>2. calls' = (calls \ {c}) \cup {d}
    BY DEF Moves
  <1> QED
    BY <1>1, <1>2

\* The first part of every call, past the guard.
LEMMA BeginIs ==
  ASSUME TypeOK, NEW o \in Orders, NEW op \in {"getInvoice", "job"},
         NEW by \in {"handler", "reconciler"}, Begin(o, op, by)
  PROVE  /\ ~Calling(o)
         /\ UNCHANGED <<breaker, vccVars, historyVars, crashes>>
         /\ \/ /\ stored' = stored
               /\ \E t \in issued : Sent(NewCall(o, op, by), t, "ordering")
            \/ /\ stored' = NoToken
               /\ calls' = calls \cup {NewCall(o, op, by)}
               /\ row' = [row EXCEPT ![o] = WithStatus(row[o], "ordering")]
  <1>c. NewCall(o, op, by) \in Call
    BY NewCallIs
  <1>1. CASE stored.st = "sealed"
    <2>1. stored.token \in issued /\ Sends(NewCall(o, op, by), stored.token, "ordering") /\ stored' = stored
      BY <1>1 DEF Begin, TypeOK
    <2>2. Sent(NewCall(o, op, by), stored.token, "ordering")
      BY <1>c, <2>1, SendsIs
    <2> QED
      BY <2>1, <2>2 DEF Begin
  <1>2. CASE stored.st # "sealed"
    BY <1>2 DEF Begin
  <1> QED
    BY <1>1, <1>2

LEMMA BeginTypes ==
  ASSUME TypeOK, NEW o \in Orders, NEW op \in {"getInvoice", "job"},
         NEW by \in {"handler", "reconciler"}, Begin(o, op, by)
  PROVE  TypeOK'
  <1>c. NewCall(o, op, by) \in Call
    BY NewCallIs
  <1>u. UNCHANGED <<breaker, vccVars, historyVars, crashes>>
    BY BeginIs
  <1>1. ASSUME stored' = stored, NEW t \in issued, Sent(NewCall(o, op, by), t, "ordering")
        PROVE  TypeOK'
    <2>1. t \in Tokens
      BY DEF TypeOK
    <2>2. row' \in [Orders -> Row] /\ calls' \subseteq Call
      BY <1>1, <1>c, <2>1, SentTypes
    <2> QED
      BY <1>u, <1>1, <2>2 DEF TypeOK, vccVars, historyVars
  <1>2. ASSUME stored' = NoToken, calls' = calls \cup {NewCall(o, op, by)},
               row' = [row EXCEPT ![o] = WithStatus(row[o], "ordering")]
        PROVE  TypeOK'
    <2>1. row' \in [Orders -> Row]
      BY <1>2, RowTypes DEF TypeOK
    <2> QED
      BY <1>u, <1>c, <1>2, <2>1, TokenTypes DEF TypeOK, vccVars, historyVars
  <1> QED
    BY <1>1, <1>2, BeginIs

LEMMA ThrowsTypes ==
  ASSUME TypeOK, NEW c \in calls, Throws(c)
  PROVE  row' \in [Orders -> Row] /\ calls' \subseteq Call /\ lost' \subseteq Orders
  <1>o. c \in Call /\ c.order \in Orders
    BY DEF TypeOK, Call
  <1>1. WithStatus(row[c.order], "failed") \in Row
    BY <1>o, RowTypes DEF TypeOK
  <1>2. row' \in [Orders -> Row]
    BY <1>o, <1>1 DEF Throws, TypeOK
  <1> QED
    BY <1>o, <1>2 DEF Throws, Ends, TypeOK

LEMMA RegisterAnswersTypes ==
  ASSUME TypeOK, NEW c \in calls, RegisterAnswers(c)
  PROVE  /\ TypeOK'
         /\ \E t \in Tokens : Sent(c, t, row[c.order].st)
  <1>o. c \in Call /\ c.order \in Orders
    BY DEF TypeOK, Call
  <1> DEFINE t == Random(Tokens \ issued)
  <1>t. t \in Tokens
    BY RandomIsIn DEF RegisterAnswers
  <1>1. /\ issued' = issued \cup {t} /\ stored' = SealedToken(t)
        /\ Sends(c, t, row[c.order].st)
        /\ UNCHANGED <<breaker, revoked, jobs, historyVars, crashes>>
    BY DEF RegisterAnswers
  <1>2. Sent(c, t, row[c.order].st)
    BY <1>o, <1>1, SendsIs
  <1>3. row[c.order].st \in {"paid", "ordering", "failed"}
    BY <1>o DEF TypeOK, Row
  <1>4. row' \in [Orders -> Row] /\ calls' \subseteq Call
    BY <1>o, <1>t, <1>2, <1>3, SentTypes
  <1>5. stored' \in Token /\ stored'.token \in issued'
    BY <1>t, <1>1, TokenTypes
  <1>6. TypeOK'
    BY <1>t, <1>1, <1>4, <1>5 DEF TypeOK, historyVars
  <1> QED
    BY <1>t, <1>2, <1>6

LEMMA VccTakesTypes ==
  ASSUME TypeOK, CallsMatchTheRows, NEW c \in calls, VccTakes(c)
  PROVE  TypeOK'
  <1>o. c \in Call /\ c.order \in Orders
    BY DEF TypeOK, Call
  <1>1. calls' \subseteq Call
    BY <1>o, MovesIs DEF VccTakes, TypeOK
  <1>2. jobs' \in [Orders -> SUBSET Job]
    <2>1. CASE c.op = "getInvoice"
      <3>1. c.token \in Tokens /\ c.nonce \in Nonces /\ c.secret \in Nat
        BY <1>o, <2>1 DEF VccTakes, CallsMatchTheRows, Call
      <3>2. [tenant |-> c.token, secret |-> c.secret, nonce |-> c.nonce] \in Job
        BY <3>1 DEF Job
      <3> QED
        BY <1>o, <3>2 DEF VccTakes, TypeOK
    <2>2. CASE c.op # "getInvoice"
      BY <1>o, <2>2 DEF VccTakes, TypeOK, Call
    <2> QED
      BY <2>1, <2>2
  <1> QED
    BY <1>1, <1>2 DEF VccTakes, TypeOK, historyVars

LEMMA CallStepTypes ==
  ASSUME TypeOK, NEW c \in calls, CallStep(c)
  PROVE  TypeOK'
  <1>o. c \in Call /\ c.order \in Orders /\ row \in [Orders -> Row]
    BY DEF TypeOK, Call
  <1>b. breaker \in Breaker /\ recordVccFailure(breaker) \in Breaker
        /\ recordVccSuccess(breaker) \in Breaker
    BY BreakerTypes DEF TypeOK
  <1>i. [row EXCEPT ![c.order] = WithInvoice(row[c.order], c)] \in [Orders -> Row]
    BY <1>o, RowTypes
  <1>1. CASE RegisterAnswers(c)
    BY <1>1, RegisterAnswersTypes
  <1>2. CASE RegisterBreaks(c)
    BY <1>2, <1>b, ThrowsTypes DEF RegisterBreaks, TypeOK, vccVars
  <1>3. CASE RegisterRefused(c)
    BY <1>3, ThrowsTypes DEF RegisterRefused, TypeOK, vccVars
  <1>4. CASE CallAnswered(c)
    <2>1. CASE c.op = "getInvoice" /\ c.by = "handler"
      <3>1. calls' \subseteq Call
        BY <1>o, <1>4, <2>1, MovesIs DEF CallAnswered, TypeOK
      <3> QED
        BY <1>4, <1>b, <2>1, <3>1 DEF CallAnswered, TypeOK, vccVars, historyVars
    <2>2. CASE ~(c.op = "getInvoice" /\ c.by = "handler")
      <3>1. calls' \subseteq Call /\ row' \in [Orders -> Row]
        BY <1>4, <1>o, <1>i, <2>2 DEF CallAnswered, Ends, TypeOK
      <3> QED
        BY <1>4, <1>b, <3>1 DEF CallAnswered, TypeOK, vccVars, historyVars
    <2> QED
      BY <2>1, <2>2
  <1>5. CASE HandlerRecords(c)
    BY <1>5, <1>i DEF HandlerRecords, Ends, TypeOK, vccVars, historyVars
  <1>6. CASE AnswerMalformed(c)
    BY <1>6, <1>b, ThrowsTypes DEF AnswerMalformed, TypeOK, vccVars
  <1>7. CASE CallBreaks(c)
    BY <1>7, <1>b, ThrowsTypes DEF CallBreaks, TypeOK, vccVars
  <1>8. CASE CallRefused(c)
    BY <1>8, ThrowsTypes DEF CallRefused, TypeOK, vccVars
  <1>9. CASE CallUnauthorized(c)
    BY <1>9, ThrowsTypes, TokenTypes DEF CallUnauthorized, DeleteToken, TypeOK, vccVars
  <1> QED
    BY <1>1, <1>2, <1>3, <1>4, <1>5, <1>6, <1>7, <1>8, <1>9 DEF CallStep

\* The steps of nobody's call.
OtherStep ==
  \/ \E o \in Orders : SecretKeyLost(o)
  \/ \E t \in Tokens : VccRevokes(t)
  \/ WindowPasses \/ CooldownEnds \/ TokenKeyLost \/ Crash
  \/ OtherCallEnds \/ OtherCallRegisters \/ OtherCallUnauthorized

LEMMA LosingTheKey ==
  ASSUME TypeOK, NEW o \in Orders, SecretKeyLost(o)
  PROVE  /\ row' \in [Orders -> Row]
         /\ \A p \in Orders : /\ row'[p].st = row[p].st /\ row'[p].job = row[p].job
                              /\ row'[p].nonce = row[p].nonce /\ row'[p].secret = row[p].secret
                              /\ p # o => row'[p].sealing = row[p].sealing
  <1> DEFINE r == [st |-> row[o].st, job |-> row[o].job, nonce |-> row[o].nonce,
                   sealing |-> "unreadable", secret |-> row[o].secret]
  <1>1. r \in Row
    BY DEF TypeOK, Row, Sealings
  <1>2. row' = [row EXCEPT ![o] = r]
    BY DEF SecretKeyLost, TypeOK
  <1>3. row' \in [Orders -> Row]
    BY <1>1, <1>2 DEF TypeOK
  <1>4. row'[o] = r /\ \A p \in Orders \ {o} : row'[p] = row[p]
    BY <1>2 DEF TypeOK
  <1> QED
    BY <1>3, <1>4

LEMMA OtherStepTypes ==
  ASSUME TypeOK, OtherStep
  PROVE  TypeOK'
  <1>b. breaker \in Breaker
    BY DEF TypeOK
  <1>1. ASSUME NEW o \in Orders, SecretKeyLost(o) PROVE TypeOK'
    <2>1. row' \in [Orders -> Row]
      BY <1>1, LosingTheKey
    <2>2. /\ keyLost' = keyLost \cup {o} /\ troubles' = troubles + 1
          /\ UNCHANGED <<breaker, stored, calls, issued, revoked, jobs, lost, crashes>>
      BY <1>1 DEF SecretKeyLost, vccVars
    <2> QED
      BY <2>1, <2>2 DEF TypeOK
  <1>2. ASSUME NEW t \in Tokens, VccRevokes(t) PROVE TypeOK'
    BY <1>2 DEF VccRevokes, TypeOK, clientVars
  <1>3. CASE WindowPasses
    BY <1>3, <1>b DEF WindowPasses, TypeOK, Breaker, vccVars, historyVars
  <1>4. CASE CooldownEnds
    BY <1>4, <1>b DEF CooldownEnds, TypeOK, Breaker, vccVars, historyVars
  <1>5. CASE TokenKeyLost
    <2>1. stored' \in Token /\ stored'.st # "sealed"
      BY <1>5 DEF TokenKeyLost, TypeOK, Token, Sealings
    <2> QED
      BY <1>5, <2>1 DEF TokenKeyLost, TypeOK, vccVars
  <1>6. CASE Crash
    <2>1. lost' \subseteq Orders
      BY <1>6 DEF Crash, TypeOK, Call
    <2> QED
      BY <1>6, <2>1, BreakerTypes DEF Crash, TypeOK, vccVars
  <1>7. CASE OtherCallEnds
    BY <1>7, <1>b, BreakerTypes DEF OtherCallEnds, TypeOK, vccVars, historyVars
  <1>8. CASE OtherCallRegisters
    <2> DEFINE t == Random(Tokens \ issued)
    <2>0. Tokens \ issued # {}
      BY <1>8 DEF OtherCallRegisters
    <2>1. t \in Tokens
      BY <2>0, RandomIsIn
    <2>2. issued' = issued \cup {t} /\ stored' = SealedToken(t)
      BY <1>8 DEF OtherCallRegisters
    <2>3. stored' \in Token /\ stored'.token \in issued'
      BY <2>1, <2>2, TokenTypes
    <2>4. /\ troubles' = troubles + 1
          /\ UNCHANGED <<breaker, row, calls, revoked, jobs, lost, keyLost, crashes>>
      BY <1>8 DEF OtherCallRegisters
    <2>5. issued' \subseteq Tokens /\ revoked' \subseteq issued'
      BY <2>1, <2>2, <2>4 DEF TypeOK
    <2> HIDE DEF t
    <2> QED
      BY <2>3, <2>4, <2>5 DEF TypeOK
  <1>9. CASE OtherCallUnauthorized
    BY <1>9, TokenTypes DEF OtherCallUnauthorized, DeleteToken, TypeOK, vccVars
  <1> QED
    BY <1>1, <1>2, <1>3, <1>4, <1>5, <1>6, <1>7, <1>8, <1>9 DEF OtherStep

LEMMA InitTypes == Init => TypeOK
  BY BreakerTypes, TokenTypes, RowTypes DEF Init, TypeOK

-----------------------------------------------------------------------------
(* The invariant, order by order and call by call.                         *)

OnItsWay(o, j) ==
  \E c \in calls : /\ c.order = o /\ c.op = "getInvoice" /\ c.at \in {"taken", "answered"}
                   /\ c.token = j.tenant /\ c.nonce = j.nonce

OrderOk(o) ==
  /\ o \notin keyLost =>
       /\ row[o].sealing # "unreadable"
       /\ \A j \in jobs[o] : row[o].sealing = "sealed" /\ row[o].secret = j.secret
  /\ row[o].st = "paid" => row[o].job = None
  /\ o \notin lost =>
       /\ \A j \in jobs[o] : (j.tenant = row[o].job /\ j.nonce = row[o].nonce) \/ OnItsWay(o, j)
       /\ row[o].job # None => \E j \in jobs[o] : j.tenant = row[o].job

CallOk(c) ==
  /\ row[c.order].st # "paid"
  /\ c.at = "answered" => c.op = "getInvoice"
  /\ c.op = "getInvoice" =>
       /\ row[c.order].job = None
       /\ c.at # "registering" => c.token # None /\ c.nonce # None
       /\ c.at # "registering" /\ c.order \notin keyLost =>
            row[c.order].sealing = "sealed" /\ row[c.order].secret = c.secret
       /\ c.at \in {"taken", "answered"} => \E j \in jobs[c.order] : j.tenant = c.token

OneCallEach == \A c, d \in calls : c.order = d.order => c = d

LEMMA ClientInvIs ==
  ClientInv <=> /\ TypeOK /\ OneCallEach
                /\ \A o \in Orders : OrderOk(o)
                /\ \A c \in calls : CallOk(c)
  BY DEF ClientInv, SecretSurvivesRetries, CallsMatchTheRows, JobsMatchTheRows,
         OneCallEach, OrderOk, CallOk, OnItsWay

LEMMA ClientInvIsNext ==
  ClientInv' <=> /\ TypeOK' /\ OneCallEach'
                 /\ \A o \in Orders : OrderOk(o)'
                 /\ \A c \in calls' : CallOk(c)'
  BY DEF ClientInv, SecretSurvivesRetries, CallsMatchTheRows, JobsMatchTheRows,
         OneCallEach, OrderOk, CallOk, OnItsWay

LEMMA ClientTypes == ClientInv => TypeOK /\ CallsMatchTheRows
  BY DEF ClientInv

\* An order nobody calls for has its jobs recorded.
LEMMA JobsRecorded ==
  ASSUME ClientInv, NEW o \in Orders, o \notin lost,
         \A c \in calls : c.order = o => c.at \in {"registering", "sent"},
         NEW j \in jobs[o]
  PROVE  j.tenant = row[o].job /\ j.nonce = row[o].nonce /\ row[o].job # None
  <1>1. OrderOk(o) /\ TypeOK
    BY ClientInvIs
  <1>2. ~OnItsWay(o, j)
    BY DEF OnItsWay
  <1>3. j.tenant \in Tokens
    BY <1>1 DEF TypeOK, Job
  <1> QED
    BY <1>1, <1>2, <1>3, NoneIsNone DEF OrderOk

\* A step on one order.
LEMMA OneOrder ==
  ASSUME ClientInv, TypeOK', NEW o \in Orders,
         \A p \in Orders \ {o} :
           /\ row'[p] = row[p] /\ jobs'[p] = jobs[p]
           /\ p \in lost' <=> p \in lost
           /\ p \in keyLost' <=> p \in keyLost,
         \A d \in calls \cup calls' : d.order # o => (d \in calls' <=> d \in calls),
         OrderOk(o)',
         \A d \in calls' : d.order = o => CallOk(d)',
         \A d, e \in calls' : d.order = o /\ e.order = o => d = e
  PROVE  ClientInv'
  <1>1. ASSUME NEW p \in Orders \ {o} PROVE OrderOk(p)'
    <2>1. OrderOk(p)
      BY ClientInvIs
    <2>2. \A j \in jobs[p] : OnItsWay(p, j) => OnItsWay(p, j)'
      BY DEF OnItsWay
    <2> QED
      BY <2>1, <2>2 DEF OrderOk
  <1>2. ASSUME NEW d \in calls', d.order # o PROVE CallOk(d)'
    <2>1. d \in calls /\ CallOk(d)
      BY <1>2, ClientInvIs
    <2>2. d.order \in Orders \ {o}
      BY <1>2, <2>1, ClientInvIs DEF TypeOK, Call
    <2> QED
      BY <2>1, <2>2 DEF CallOk
  <1>3. OneCallEach'
    <2> SUFFICES ASSUME NEW c \in calls', NEW d \in calls', c.order = d.order PROVE c = d
      BY DEF OneCallEach
    <2>1. CASE c.order = o
      BY <2>1
    <2>2. CASE c.order # o
      BY <2>2, ClientInvIs DEF OneCallEach
    <2> QED
      BY <2>1, <2>2
  <1> QED
    BY <1>1, <1>2, <1>3, ClientInvIsNext

\* A step that touches none of this.
LEMMA NothingTouched ==
  ASSUME ClientInv, TypeOK', UNCHANGED <<row, calls, jobs, lost, keyLost>>
  PROVE  ClientInv'
  BY ClientInvIs, ClientInvIsNext DEF OneCallEach, OrderOk, CallOk, OnItsWay

LEMMA InitClient == Init => ClientInv
  <1> SUFFICES ASSUME Init PROVE ClientInv
    OBVIOUS
  <1>1. \A o \in Orders : OrderOk(o)
    BY DEF Init, NewRow, OrderOk
  <1>2. OneCallEach /\ \A c \in calls : CallOk(c)
    BY DEF Init, OneCallEach
  <1> QED
    BY <1>1, <1>2, InitTypes, ClientInvIs

-----------------------------------------------------------------------------
(* The steps.                                                              *)

LEMMA SentStep ==
  ASSUME ClientInv, TypeOK', NEW c \in Call, NEW t \in Tokens,
         NEW st \in {"ordering", "failed"}, Sent(c, t, st),
         UNCHANGED <<jobs, lost, keyLost>>,
         NEW o, c.order = o,
         c.at = "registering",
         \A d \in calls : d.order = o => d = c,
         c.op = "getInvoice" => row[o].job = None,
         c.op = "job" => row[o].st # "paid"
  PROVE  ClientInv'
  <1>o. o \in Orders /\ row[o] \in Row /\ TypeOK /\ OrderOk(o) /\ row \in [Orders -> Row]
    BY ClientInvIs DEF TypeOK, Call
  <1>j. ASSUME o \notin lost, NEW j \in jobs[o]
        PROVE  j.tenant = row[o].job /\ j.nonce = row[o].nonce
    BY <1>o, <1>j, JobsRecorded
  <1>1. ASSUME c.op = "getInvoice" PROVE ClientInv'
    <2>0. PICK r \in Row :
            /\ row' = [row EXCEPT ![o] = r]
            /\ \E n \in Nonces : calls' = (calls \ {c}) \cup {Request(c, t, r, n)}
            /\ r.st = st /\ r.job = row[o].job /\ r.nonce = row[o].nonce
            /\ r.sealing = "sealed"
            /\ row[o].sealing = "sealed" => r.secret = row[o].secret
      <3> DEFINE w == WithSecret(row[o])
      <3>1. /\ w \in Row /\ w.job = row[o].job /\ w.nonce = row[o].nonce
            /\ w.sealing = "sealed"
            /\ row[o].sealing = "sealed" => w.secret = row[o].secret
        BY <1>o, RowTypes, RowFields
      <3> HIDE DEF w
      <3> DEFINE v == WithStatus(w, st)
      <3>0. st \in {"paid", "ordering", "failed"} /\ w \in Row
        BY <3>1
      <3>2. /\ v \in Row /\ v.st = st /\ v.job = w.job /\ v.nonce = w.nonce
            /\ v.sealing = w.sealing /\ v.secret = w.secret
        BY <3>0 DEF WithStatus, Row
      <3>3. /\ row' = [row EXCEPT ![o] = v]
            /\ \E n \in Nonces : calls' = (calls \ {c}) \cup {Request(c, t, v, n)}
        BY <1>1 DEF Sent, w
      <3> HIDE DEF v
      <3>4. /\ v.job = row[o].job /\ v.nonce = row[o].nonce /\ v.sealing = "sealed"
            /\ row[o].sealing = "sealed" => v.secret = row[o].secret
        BY <3>1, <3>2
      <3>5. v \in Row
        BY <3>2
      <3> USE <3>5
      <3> WITNESS v \in Row
      <3> QED
        BY <3>2, <3>3, <3>4
    <2>2. row'[o] = r /\ \A p \in Orders \ {o} : row'[p] = row[p]
      BY <1>o, <2>0
    <2>3. PICK d \in Call :
            /\ calls' = (calls \ {c}) \cup {d}
            /\ d.order = o /\ d.op = c.op /\ d.at = "sent"
            /\ d.token # None /\ d.secret = r.secret /\ d.nonce # None
      <3>1. PICK n \in Nonces : calls' = (calls \ {c}) \cup {Request(c, t, r, n)}
        BY <2>0
      <3> QED
        BY <3>1, RequestIs, NoneIsNone
    <2>5. OrderOk(o)'
      BY <1>o, <1>j, <2>0, <2>2 DEF OrderOk
    <2>7. CallOk(d)'
      BY <1>1, <2>0, <2>2, <2>3 DEF CallOk
    <2> QED
      BY <1>o, <2>2, <2>3, <2>5, <2>7, OneOrder
  <1>2. ASSUME c.op # "getInvoice" PROVE ClientInv'
    <2>1. row' = row /\ c.op = "job"
      BY <1>2 DEF Sent
    <2>3. PICK d \in Call :
            calls' = (calls \ {c}) \cup {d} /\ d.order = o /\ d.op = "job" /\ d.at = "sent"
      <3>1. calls' = (calls \ {c}) \cup {Request(c, t, row[o], None)}
        BY <1>2 DEF Sent
      <3> QED
        BY <1>o, <2>1, <3>1, RequestIs
    <2>5. OrderOk(o)'
      BY <1>o, <1>j, <2>1 DEF OrderOk
    <2>7. CallOk(d)'
      BY <2>1, <2>3 DEF CallOk
    <2> QED
      BY <1>o, <2>1, <2>3, <2>5, <2>7, OneOrder
  <1> QED
    BY <1>1, <1>2

LEMMA BeginStep ==
  ASSUME ClientInv, NEW o \in Orders, NEW op \in {"getInvoice", "job"},
         NEW by \in {"handler", "reconciler"}, Begin(o, op, by),
         op = "getInvoice" => row[o].job = None,
         op = "job" => row[o].st # "paid"
  PROVE  ClientInv'
  <1>t. TypeOK /\ TypeOK'
    BY BeginTypes, ClientInvIs
  <1> DEFINE c == NewCall(o, op, by)
  <1>c. c \in Call /\ c.order = o /\ c.op = op /\ c.by = by /\ c.at = "registering"
    BY NewCallIs
  <1>u. UNCHANGED <<jobs, lost, keyLost>> /\ \A d \in calls : d.order # o
    BY <1>t, BeginIs DEF vccVars, historyVars, Calling
  <1>1. ASSUME NEW t \in issued, Sent(c, t, "ordering") PROVE ClientInv'
    <2>1. t \in Tokens
      BY <1>t DEF TypeOK
    <2> HIDE DEF c
    <2> QED
      BY <1>t, <1>c, <1>u, <1>1, <2>1, SentStep
  <1>2. ASSUME calls' = calls \cup {c}, row' = [row EXCEPT ![o] = WithStatus(row[o], "ordering")]
        PROVE  ClientInv'
    <2>1. row[o] \in Row /\ OrderOk(o)
      BY <1>t, ClientInvIs DEF TypeOK
    <2>2. /\ row'[o].st = "ordering" /\ row'[o].job = row[o].job /\ row'[o].nonce = row[o].nonce
          /\ row'[o].sealing = row[o].sealing /\ row'[o].secret = row[o].secret
          /\ \A p \in Orders \ {o} : row'[p] = row[p]
      BY <1>t, <1>2, <2>1, RowFields DEF TypeOK
    <2> HIDE DEF c
    <2>3. \A j \in jobs[o] : OnItsWay(o, j) => OnItsWay(o, j)'
      BY <1>2 DEF OnItsWay
    <2>4. OrderOk(o)'
      BY <1>u, <2>1, <2>2, <2>3 DEF OrderOk
    <2>5. CallOk(c)'
      BY <1>c, <2>2 DEF CallOk
    <2>6. \A e \in calls' : e.order = o => e = c
      BY <1>u, <1>2
    <2>7. \A e \in calls \cup calls' : e.order # o => (e \in calls' <=> e \in calls)
      BY <1>c, <1>2
    <2> QED
      BY <1>t, <1>u, <2>2, <2>4, <2>5, <2>6, <2>7, OneOrder
  <1> QED
    BY <1>t, <1>1, <1>2, BeginIs

LEMMA OrderStep ==
  ASSUME ClientInv, NEW o \in Orders,
         HandlePayment(o) \/ HandlePaymentRefused(o) \/ Reconcile(o) \/ NotifyPaid(o)
  PROVE  ClientInv'
  <1>t. TypeOK /\ OrderOk(o) /\ row[o] \in Row
    BY ClientInvIs DEF TypeOK
  <1>1. CASE HandlePayment(o)
    BY <1>1, <1>t, BeginStep DEF HandlePayment, OrderOk
  <1>2. CASE HandlePaymentRefused(o)
    <2>1. /\ row' = [row EXCEPT ![o] = WithStatus(row[o], "failed")] /\ row[o].st = "paid"
          /\ UNCHANGED <<breaker, stored, calls, vccVars, historyVars, crashes>>
      BY <1>2 DEF HandlePaymentRefused
    <2>2. WithStatus(row[o], "failed") \in Row
      BY <1>t, RowTypes
    <2>3. TypeOK'
      BY <1>t, <2>1, <2>2 DEF TypeOK, vccVars, historyVars
    <2>4. /\ row'[o].st = "failed" /\ row'[o].job = row[o].job /\ row'[o].nonce = row[o].nonce
          /\ row'[o].sealing = row[o].sealing /\ row'[o].secret = row[o].secret
          /\ \A p \in Orders \ {o} : row'[p] = row[p]
      BY <1>t, <2>1, RowFields DEF TypeOK
    <2>5. OrderOk(o)'
      BY <1>t, <2>1, <2>4 DEF OrderOk, OnItsWay, vccVars, historyVars
    <2>6. \A d \in calls : d.order # o
      BY <2>1, ClientInvIs DEF CallOk
    <2> QED
      BY <2>1, <2>3, <2>4, <2>5, <2>6, OneOrder DEF vccVars, historyVars
  <1>3. CASE Reconcile(o)
    <2>1. CASE row[o].job = None
      BY <1>3, <2>1, BeginStep DEF Reconcile
    <2>2. CASE row[o].job # None
      BY <1>3, <2>2, BeginStep DEF Reconcile
    <2> QED
      BY <2>1, <2>2
  <1>4. CASE NotifyPaid(o)
    BY <1>4, BeginStep DEF NotifyPaid
  <1> QED
    BY <1>1, <1>2, <1>3, <1>4

\* A call that throws leaves its order, and what VCC did for it is lost.
LEMMA ThrowsStep ==
  ASSUME ClientInv, TypeOK', NEW c \in calls, Throws(c), UNCHANGED <<jobs, keyLost>>
  PROVE  ClientInv'
  <1> DEFINE o == c.order
  <1>t. TypeOK /\ OneCallEach /\ c \in Call /\ o \in Orders /\ OrderOk(o) /\ row[o] \in Row
        /\ CallOk(c)
    BY ClientInvIs DEF TypeOK, Call
  <1>1. /\ row'[o].st \in {row[o].st, "failed"}
        /\ row'[o].job = row[o].job /\ row'[o].nonce = row[o].nonce
        /\ row'[o].sealing = row[o].sealing /\ row'[o].secret = row[o].secret
        /\ \A p \in Orders \ {o} : row'[p] = row[p]
    BY <1>t, RowFields DEF Throws, TypeOK
  <1>2. calls' = calls \ {c}
    BY DEF Throws, Ends
  <1>3. \A p \in Orders \ {o} : p \in lost' <=> p \in lost
    BY DEF Throws
  <1>4. \A d \in calls' : d.order # o
    BY <1>t, <1>2 DEF OneCallEach
  <1>5. lost \subseteq lost' /\ (c.op = "getInvoice" /\ c.at \in {"taken", "answered"} => o \in lost')
    BY DEF Throws
  <1>6. OrderOk(o)'
    <2>1. ASSUME o \notin lost', NEW j \in jobs[o]
          PROVE  j.tenant = row[o].job /\ j.nonce = row[o].nonce
      <3>1. ~OnItsWay(o, j)
        BY <1>t, <1>5, <2>1 DEF OnItsWay, OneCallEach
      <3> QED
        BY <1>t, <1>5, <2>1, <3>1 DEF OrderOk
    <2> QED
      BY <1>t, <1>1, <1>5, <2>1 DEF OrderOk
  <1> QED
    BY <1>t, <1>1, <1>2, <1>3, <1>4, <1>6, OneOrder

\* The answer of a getInvoice is written to the row.
LEMMA RecordedStep ==
  ASSUME ClientInv, TypeOK', NEW c \in calls, c.op = "getInvoice", c.at \in {"taken", "answered"},
         calls' = calls \ {c}, row' = [row EXCEPT ![c.order] = WithInvoice(row[c.order], c)],
         UNCHANGED <<jobs, lost, keyLost>>
  PROVE  ClientInv'
  <1> DEFINE o == c.order
  <1>t. TypeOK /\ OneCallEach /\ c \in Call /\ o \in Orders /\ OrderOk(o) /\ row[o] \in Row
        /\ CallOk(c)
    BY ClientInvIs DEF TypeOK, Call
  <1>1. /\ row'[o].st = row[o].st /\ row'[o].job = c.token /\ row'[o].nonce = c.nonce
        /\ row'[o].sealing = row[o].sealing /\ row'[o].secret = row[o].secret
        /\ \A p \in Orders \ {o} : row'[p] = row[p]
    BY <1>t, RowFields DEF TypeOK
  <1>2. \A d \in calls' : d.order # o
    BY <1>t DEF OneCallEach
  <1>3. OrderOk(o)'
    <2>1. ASSUME o \notin lost, NEW j \in jobs[o] PROVE j.tenant = c.token /\ j.nonce = c.nonce
      <3>1. j.tenant # row[o].job
        BY <1>t, NoneIsNone DEF CallOk, TypeOK, Job
      <3>2. OnItsWay(o, j)
        BY <1>t, <2>1, <3>1 DEF OrderOk
      <3> QED
        BY <1>t, <3>2 DEF OnItsWay, OneCallEach
    <2>2. \E j \in jobs[o] : j.tenant = c.token
      BY <1>t DEF CallOk
    <2>3. row[o].st # "paid"
      BY <1>t DEF CallOk
    <2> QED
      BY <1>t, <1>1, <2>1, <2>2, <2>3 DEF OrderOk
  <1> QED
    BY <1>t, <1>1, <1>2, <1>3, OneOrder

\* A call that goes on, or ends, without touching the row.
LEMMA MovedStep ==
  ASSUME ClientInv, TypeOK', NEW c \in calls, NEW d \in Call, calls' = (calls \ {c}) \cup {d},
         d.order = c.order, d.op = c.op, d.token = c.token, d.secret = c.secret,
         d.nonce = c.nonce, c.op = "getInvoice", c.at \in {"taken", "answered"}, d.at \in {"taken", "answered"},
         UNCHANGED <<row, jobs, lost, keyLost>>
  PROVE  ClientInv'
  <1> DEFINE o == c.order
  <1>t. TypeOK /\ OneCallEach /\ c \in Call /\ o \in Orders /\ OrderOk(o) /\ CallOk(c)
    BY ClientInvIs DEF TypeOK, Call
  <1>1. CallOk(d)'
    BY <1>t DEF CallOk
  <1>2. \A j \in jobs[o] : OnItsWay(o, j) => OnItsWay(o, j)'
    BY DEF OnItsWay
  <1>3. OrderOk(o)'
    BY <1>t, <1>2 DEF OrderOk
  <1>4. \A e \in calls' : e.order = o => e = d
    BY <1>t DEF OneCallEach
  <1> QED
    BY <1>t, <1>1, <1>3, <1>4, OneOrder

LEMMA JobCallEnds ==
  ASSUME ClientInv, TypeOK', NEW c \in calls, c.op # "getInvoice", calls' = calls \ {c},
         UNCHANGED <<row, jobs, lost, keyLost>>
  PROVE  ClientInv'
  <1> DEFINE o == c.order
  <1>t. TypeOK /\ OneCallEach /\ c \in Call /\ o \in Orders /\ OrderOk(o)
    BY ClientInvIs DEF TypeOK, Call
  <1>1. \A j \in jobs[o] : OnItsWay(o, j) => OnItsWay(o, j)'
    BY DEF OnItsWay
  <1>2. OrderOk(o)'
    BY <1>t, <1>1 DEF OrderOk
  <1>3. \A d \in calls' : d.order # o
    BY <1>t DEF OneCallEach
  <1> QED
    BY <1>t, <1>2, <1>3, OneOrder

LEMMA VccTakesStep ==
  ASSUME ClientInv, NEW c \in calls, VccTakes(c)
  PROVE  ClientInv'
  <1> DEFINE o == c.order
  <1>t. TypeOK /\ OneCallEach /\ c \in Call /\ o \in Orders /\ OrderOk(o) /\ CallOk(c) /\ TypeOK'
    BY ClientInvIs, ClientTypes, VccTakesTypes DEF TypeOK, Call
  <1>u. UNCHANGED <<row, lost, keyLost>> /\ c.at = "sent"
    BY DEF VccTakes, historyVars
  <1>d. PICK d \in Call :
          /\ calls' = (calls \ {c}) \cup {d}
          /\ d.order = o /\ d.op = c.op /\ d.at = "taken"
          /\ d.token = c.token /\ d.secret = c.secret /\ d.nonce = c.nonce
    BY <1>t, MovesIs DEF VccTakes
  <1>e. \A e \in calls' : e.order = o => e = d
    BY <1>t, <1>d DEF OneCallEach
  <1>1. CASE c.op # "getInvoice"
    <2>1. jobs' = jobs
      BY <1>1, <1>t DEF VccTakes, Call
    <2>2. \A j \in jobs[o] : OnItsWay(o, j) => OnItsWay(o, j)'
      BY <1>1, <1>d DEF OnItsWay
    <2>3. OrderOk(o)'
      BY <1>t, <1>u, <2>1, <2>2 DEF OrderOk
    <2>4. CallOk(d)'
      BY <1>1, <1>t, <1>u, <1>d DEF CallOk
    <2> QED
      BY <1>t, <1>u, <1>d, <1>e, <2>1, <2>3, <2>4, OneOrder
  <1>2. CASE c.op = "getInvoice"
    <2> DEFINE n == [tenant |-> c.token, secret |-> c.secret, nonce |-> c.nonce]
    <2>1. \A p \in Orders \ {o} : jobs'[p] = jobs[p]
      BY <1>t DEF VccTakes, TypeOK
    <2>2. \/ jobs'[o] = jobs[o] /\ \E j \in jobs[o] : j.tenant = c.token
          \/ jobs'[o] = jobs[o] \cup {n}
      <3>1. CASE \E j \in jobs[o] : j.tenant = c.token
        <4>1. jobs' = jobs
          BY <3>1 DEF VccTakes
        <4> QED
          BY <3>1, <4>1
      <3>2. CASE ~ \E j \in jobs[o] : j.tenant = c.token
        <4>1. jobs' = [jobs EXCEPT ![o] = jobs[o] \cup {n}]
          BY <1>2, <3>2 DEF VccTakes
        <4> QED
          BY <1>t, <4>1 DEF TypeOK
      <3> QED
        BY <3>1, <3>2
    <2>3. \E j \in jobs'[o] : j.tenant = c.token
      <3>1. n.tenant = c.token
        OBVIOUS
      <3> HIDE DEF n
      <3> QED
        BY <2>2, <3>1
    <2>4. ASSUME o \notin lost PROVE jobs[o] = {}
      <3>1. \A e \in calls : e.order = o => e.at \in {"registering", "sent"}
        BY <1>t, <1>u DEF OneCallEach
      <3>2. row[o].job = None
        BY <1>t, <1>2 DEF CallOk
      <3> QED
        BY <1>t, <2>4, <3>1, <3>2, JobsRecorded
    <2>5. ASSUME o \notin lost, NEW j \in jobs'[o]
          PROVE  OnItsWay(o, j)'
      <3>1. j = n
        BY <2>2, <2>4, <2>5
      <3>2. j.tenant = c.token /\ j.nonce = c.nonce
        BY <3>1
      <3> QED
        BY <1>2, <1>d, <3>2 DEF OnItsWay
    <2>6. row[o].job = None
      BY <1>t, <1>2 DEF CallOk
    <2>7. ASSUME o \notin keyLost, NEW j \in jobs'[o]
          PROVE  row[o].sealing = "sealed" /\ row[o].secret = j.secret
      <3>1. CASE j \in jobs[o]
        BY <1>t, <2>7, <3>1 DEF OrderOk
      <3>2. CASE j = n
        <4>1. j.secret = c.secret
          BY <3>2
        <4> QED
          BY <1>t, <1>u, <1>2, <2>7, <4>1 DEF CallOk
      <3> QED
        BY <2>2, <3>1, <3>2
    <2>8. OrderOk(o)'
      BY <1>t, <1>u, <2>5, <2>6, <2>7 DEF OrderOk
    <2>9. CallOk(d)'
      BY <1>t, <1>u, <1>d, <1>2, <2>3 DEF CallOk
    <2> QED
      BY <1>t, <1>u, <1>d, <1>e, <2>1, <2>8, <2>9, OneOrder
  <1> QED
    BY <1>1, <1>2

LEMMA CallStepStep ==
  ASSUME ClientInv, NEW c \in calls, CallStep(c)
  PROVE  ClientInv'
  <1>t. TypeOK /\ c \in Call /\ TypeOK' /\ c.order \in Orders /\ CallOk(c)
    BY ClientInvIs, CallStepTypes DEF TypeOK, Call
  <1>1. CASE RegisterAnswers(c)
    <2>1. PICK t \in Tokens : Sent(c, t, row[c.order].st)
      BY <1>1, <1>t, RegisterAnswersTypes
    <2>2. UNCHANGED <<jobs, lost, keyLost>> /\ c.at = "registering"
      BY <1>1 DEF RegisterAnswers, historyVars
    <2>3. row[c.order].st \in {"ordering", "failed"} /\ row[c.order].st # "paid"
      BY <1>t DEF CallOk, TypeOK, Row
    <2>4. \A d \in calls : d.order = c.order => d = c
      BY ClientInvIs DEF OneCallEach
    <2>5. c.op = "getInvoice" => row[c.order].job = None
      BY <1>t DEF CallOk
    <2>6. \E st \in {"ordering", "failed"} : Sent(c, t, st)
      BY <2>1, <2>3
    <2> QED
      BY <1>t, <2>2, <2>3, <2>4, <2>5, <2>6, SentStep
  <1>2. CASE \/ RegisterBreaks(c) \/ RegisterRefused(c) \/ AnswerMalformed(c)
             \/ CallBreaks(c) \/ CallRefused(c) \/ CallUnauthorized(c)
    <2>1. Throws(c) /\ UNCHANGED <<jobs, keyLost>>
      BY <1>2 DEF RegisterBreaks, RegisterRefused, AnswerMalformed, CallBreaks, CallRefused,
                  CallUnauthorized, vccVars
    <2> QED
      BY <1>t, <2>1, ThrowsStep
  <1>3. CASE CallAnswered(c)
    <2>u. UNCHANGED <<jobs, lost, keyLost>> /\ c.at = "taken"
      BY <1>3 DEF CallAnswered, vccVars, historyVars
    <2>1. CASE c.op = "getInvoice" /\ c.by = "handler"
      <3>1. Moves(c, "answered") /\ row' = row
        BY <1>3, <2>1 DEF CallAnswered
      <3> QED
        BY <1>t, <2>u, <2>1, <3>1, MovesIs, MovedStep
    <2>2. CASE c.op = "getInvoice" /\ c.by # "handler"
      <3>1. /\ calls' = calls \ {c}
            /\ row' = [row EXCEPT ![c.order] = WithInvoice(row[c.order], c)]
        BY <1>3, <2>2 DEF CallAnswered, Ends
      <3> QED
        BY <1>t, <2>u, <2>2, <3>1, RecordedStep
    <2>3. CASE c.op # "getInvoice"
      <3>1. calls' = calls \ {c} /\ row' = row
        BY <1>3, <1>t, <2>3 DEF CallAnswered, Ends, Call
      <3> QED
        BY <1>t, <2>u, <2>3, <3>1, JobCallEnds
    <2> QED
      BY <2>1, <2>2, <2>3
  <1>4. CASE HandlerRecords(c)
    <2>u. /\ UNCHANGED <<jobs, lost, keyLost>> /\ c.at = "answered"
          /\ calls' = calls \ {c}
          /\ row' = [row EXCEPT ![c.order] = WithInvoice(row[c.order], c)]
      BY <1>4 DEF HandlerRecords, Ends, vccVars, historyVars
    <2>1. c.op = "getInvoice"
      BY <1>t, <2>u DEF CallOk
    <2> QED
      BY <1>t, <2>u, <2>1, RecordedStep
  <1> QED
    BY <1>1, <1>2, <1>3, <1>4 DEF CallStep

LEMMA CrashStep ==
  ASSUME ClientInv, Crash
  PROVE  ClientInv'
  <1>t. TypeOK /\ TypeOK'
    BY ClientInvIs, OtherStepTypes DEF OtherStep
  <1>u. calls' = {} /\ UNCHANGED <<row, jobs, keyLost>>
    BY DEF Crash, vccVars
  <1>1. /\ lost \subseteq lost'
        /\ \A c \in calls : c.op = "getInvoice" /\ c.at \in {"taken", "answered"} => c.order \in lost'
    BY DEF Crash
  <1>2. ASSUME NEW o \in Orders PROVE OrderOk(o)'
    <2>1. OrderOk(o)
      BY ClientInvIs
    <2>2. ASSUME o \notin lost', NEW j \in jobs[o] PROVE ~OnItsWay(o, j)
      BY <1>1, <2>2 DEF OnItsWay
    <2> QED
      BY <1>u, <1>1, <2>1, <2>2 DEF OrderOk
  <1> QED
    BY <1>t, <1>u, <1>2, ClientInvIsNext DEF OneCallEach

LEMMA SecretKeyLostStep ==
  ASSUME ClientInv, NEW o \in Orders, SecretKeyLost(o)
  PROVE  ClientInv'
  <1>t. TypeOK /\ TypeOK' /\ OrderOk(o)
    BY ClientInvIs, OtherStepTypes DEF OtherStep
  <1>u. UNCHANGED <<calls, jobs, lost>> /\ keyLost' = keyLost \cup {o}
    BY DEF SecretKeyLost, vccVars
  <1>1. /\ row'[o].st = row[o].st /\ row'[o].job = row[o].job /\ row'[o].nonce = row[o].nonce
        /\ \A p \in Orders \ {o} : row'[p] = row[p]
    BY <1>t DEF SecretKeyLost, TypeOK
  <1>2. OrderOk(o)'
    BY <1>t, <1>u, <1>1 DEF OrderOk, OnItsWay
  <1>3. ASSUME NEW d \in calls, d.order = o PROVE CallOk(d)'
    <2>1. CallOk(d)
      BY ClientInvIs
    <2> QED
      BY <1>u, <1>1, <1>3, <2>1 DEF CallOk
  <1>4. \A d, e \in calls : d.order = o /\ e.order = o => d = e
    BY ClientInvIs DEF OneCallEach
  <1> QED
    BY <1>t, <1>u, <1>1, <1>2, <1>3, <1>4, OneOrder

LEMMA OtherStepStep ==
  ASSUME ClientInv, OtherStep
  PROVE  ClientInv'
  <1>t. TypeOK'
    BY ClientInvIs, OtherStepTypes
  <1>1. CASE \E o \in Orders : SecretKeyLost(o)
    BY <1>1, SecretKeyLostStep
  <1>2. CASE Crash
    BY <1>2, CrashStep
  <1>3. CASE \/ \E t \in Tokens : VccRevokes(t)
             \/ WindowPasses \/ CooldownEnds \/ TokenKeyLost
             \/ OtherCallEnds \/ OtherCallRegisters \/ OtherCallUnauthorized
    <2>1. UNCHANGED <<row, calls, jobs, lost, keyLost>>
      BY <1>3 DEF VccRevokes, WindowPasses, CooldownEnds, TokenKeyLost, OtherCallEnds,
                  OtherCallRegisters, OtherCallUnauthorized, clientVars, vccVars, historyVars
    <2> QED
      BY <1>t, <2>1, NothingTouched
  <1> QED
    BY <1>1, <1>2, <1>3 DEF OtherStep

LEMMA NextClient == ClientInv /\ [Next]_vars => ClientInv'
  <1> SUFFICES ASSUME ClientInv, [Next]_vars PROVE ClientInv'
    OBVIOUS
  <1>1. CASE UNCHANGED vars
    <2>1. TypeOK' /\ UNCHANGED <<row, calls, jobs, lost, keyLost>>
      BY <1>1, ClientInvIs DEF vars, clientVars, vccVars, historyVars, TypeOK
    <2> QED
      BY <2>1, NothingTouched
  <1>2. ASSUME NEW o \in Orders,
               HandlePayment(o) \/ HandlePaymentRefused(o) \/ Reconcile(o) \/ NotifyPaid(o)
        PROVE  ClientInv'
    BY <1>2, OrderStep
  <1>3. ASSUME NEW c \in calls, CallStep(c) \/ VccTakes(c) PROVE ClientInv'
    BY <1>3, CallStepStep, VccTakesStep
  <1>4. CASE OtherStep
    BY <1>4, OtherStepStep
  <1> QED
    BY <1>1, <1>2, <1>3, <1>4 DEF Next, OtherStep

-----------------------------------------------------------------------------
(* The theorems.                                                           *)

\* Every reachable state is well typed, an order has one secret whichever attempt
\* made its job, a getInvoice is the only call of its order, and what VCC holds
\* for an order is recorded, on its way or lost (vcc-client.js getInvoice).
THEOREM ClientInvariant == Spec => []ClientInv
  BY InitClient, NextClient, PTL DEF Spec

\* Every reachable state of VccClient is well typed.
THEOREM TypeCorrect == Spec => []TypeOK
  <1>1. ClientInv => TypeOK
    BY DEF ClientInv
  <1> QED
    BY <1>1, ClientInvariant, PTL

LEMMA CallbackFollows == ClientInv => CallbackVerifiesUnlessLost
  <1> SUFFICES ASSUME ClientInv, NEW o \in Orders \ (lost \cup keyLost), row[o].job # None
               PROVE  \E j \in jobs[o] : j.tenant = row[o].job /\ Verifies(row[o], j)
    BY DEF CallbackVerifiesUnlessLost
  <1>1. OrderOk(o)
    BY ClientInvIs
  <1>2. PICK j \in jobs[o] : j.tenant = row[o].job
    BY <1>1 DEF OrderOk
  <1>3. ~OnItsWay(o, j)
    BY ClientInvIs DEF OnItsWay, CallOk
  <1>4. j.nonce = row[o].nonce /\ row[o].sealing = "sealed" /\ row[o].secret = j.secret
    BY <1>1, <1>3 DEF OrderOk
  <1> QED
    BY <1>2, <1>4 DEF Verifies

\* The callback of the recorded job is accepted, unless its secret or an attempt
\* that VCC took was lost (vcc-callback.js, verifyVccSignature).
THEOREM GenuineCallbackVerifies == Spec => []CallbackVerifiesUnlessLost
  BY ClientInvariant, CallbackFollows, PTL

\* An open breaker is closed by the end of its cool-down or by a restart, and by no
\* late answer (vcc-client.js 38-46).
THEOREM BreakerStaysOpen == Spec => OpenBreakerStaysOpen
  <1>1. [Next]_vars => [breaker.open /\ ~breaker'.open => CooldownEnds \/ Crash]_vars
    <2> SUFFICES ASSUME [Next]_vars, breaker.open, ~breaker'.open PROVE CooldownEnds \/ Crash
      OBVIOUS
    <2>1. breaker' # breaker /\ breaker' # recordVccFailure(breaker)
          /\ breaker' # recordVccSuccess(breaker)
      BY OpenStaysOpen
    <2>2. ~WindowPasses /\ ~OtherCallEnds
      BY <2>1 DEF WindowPasses, OtherCallEnds
    <2>3. ~UNCHANGED vars
      BY <2>1 DEF vars, clientVars
    <2>4. \A o \in Orders : /\ ~HandlePayment(o) /\ ~HandlePaymentRefused(o) /\ ~Reconcile(o)
                            /\ ~NotifyPaid(o) /\ ~SecretKeyLost(o)
      BY <2>1 DEF HandlePayment, HandlePaymentRefused, Reconcile, NotifyPaid, SecretKeyLost, Begin
    <2>5. \A c \in calls : ~CallStep(c) /\ ~VccTakes(c)
      BY <2>1 DEF CallStep, VccTakes, RegisterAnswers, RegisterBreaks, RegisterRefused,
                  CallAnswered, HandlerRecords, AnswerMalformed, CallBreaks, CallRefused,
                  CallUnauthorized
    <2>6. /\ \A t \in Tokens : ~VccRevokes(t)
          /\ ~TokenKeyLost /\ ~OtherCallRegisters /\ ~OtherCallUnauthorized
      BY <2>1 DEF VccRevokes, TokenKeyLost, OtherCallRegisters, OtherCallUnauthorized, clientVars
    <2> QED
      BY <2>2, <2>3, <2>4, <2>5, <2>6 DEF Next
  <1> QED
    BY <1>1, PTL DEF Spec, OpenBreakerStaysOpen

=============================================================================
