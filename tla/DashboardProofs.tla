-------------------------- MODULE DashboardProofs ---------------------------
(***************************************************************************)
(* Proofs about what the dashboard's users share: their login              *)
(* (DashboardLogin), for any emails, codes and sessions, any limits and    *)
(* any number of restarts, and the event streams of dashboard and agents   *)
(* (OrderStream), for any orders, connections and limits.                  *)
(***************************************************************************)
EXTENDS DashboardLogin, OrderStream, FiniteSetTheorems, TLAPS

-----------------------------------------------------------------------------
(* DashboardLogin: types.                                                  *)

LEMMA RowTypes ==
  /\ NoCode \in Code
  /\ \A e \in Emails : NewCode(e) \in Code
  /\ \A r \in Code : UsedUp(r) \in Code
  /\ \A r \in Code : Counted(r) \in Code
  BY DEF NoCode, NewCode, UsedUp, Counted, Code

LEMMA MailedTypes ==
  ASSUME TypeOK, NEW c \in Codes, NEW m \in {"arrived", "lost"}
  PROVE  Mailed(c, m) \in Code
  BY DEF TypeOK, Mailed, Code

LEMMA ForgottenTypes ==
  ASSUME NEW rows \in [Codes -> Code]
  PROVE  MailsForgotten(rows) \in [Codes -> Code]
  <1>1. ASSUME NEW c \in Codes
        PROVE  [email |-> rows[c].email, used |-> rows[c].used, expired |-> rows[c].expired,
                fails |-> rows[c].fails,
                mail |-> IF rows[c].mail = "sending" THEN "lost" ELSE rows[c].mail] \in Code
    BY DEF Code
  <1> QED
    BY <1>1 DEF MailsForgotten

LEMMA CountedInTypes ==
  ASSUME TypeOK, NEW e \in Emails
  PROVE  CountedIn(e) \in [Codes -> Code]
  BY RowTypes DEF TypeOK, CountedIn

LEMMA BootstrapTypes ==
  ASSUME TypeOK, NEW e \in Emails
  PROVE  UserBootstrap(e) \in [Emails -> {"none", "user", "owner"}]
  BY DEF TypeOK, UserBootstrap

LEMMA ActiveIs ==
  ASSUME NEW e, NEW c
  PROVE  /\ c \in Active(e) <=> c \in Codes /\ code[c].email = e /\ ~code[c].used /\ ~code[c].expired
         /\ c \in Unused(e) <=> c \in Codes /\ code[c].email = e /\ ~code[c].used
  BY DEF Active, Unused

LEMMA InitTypes == Init => TypeOK
  BY RowTypes, LimitsAreNaturals DEF Init, TypeOK

LEMMA RestartTypes ==
  ASSUME TypeOK, Restart
  PROVE  crashes' \in 0 .. MaxCrashes /\ crashes' = crashes + 1
  BY LimitsAreNaturals DEF TypeOK, Restart

LEMMA LoginTypes ==
  ASSUME TypeOK, NEW e \in Emails, NEW c \in Codes, Login(e, c)
  PROVE  TypeOK'
  BY RowTypes DEF TypeOK, Login

LEMMA VerifyTypes ==
  ASSUME TypeOK, NEW e \in Emails, NEW c \in Codes, NEW s \in Sessions, Verify(e, c, s)
  PROVE  TypeOK'
  <1>1. code' \in [Codes -> Code]
    BY RowTypes DEF TypeOK, Verify
  <1> QED
    BY <1>1, BootstrapTypes DEF TypeOK, Verify

LEMMA VerifyInterruptedTypes ==
  ASSUME TypeOK, NEW e \in Emails, NEW c \in Codes, VerifyInterrupted(e, c)
  PROVE  TypeOK'
  <1>1. [code EXCEPT ![c] = UsedUp(code[c])] \in [Codes -> Code]
    BY RowTypes DEF TypeOK
  <1>2. code' \in [Codes -> Code]
    BY <1>1, ForgottenTypes DEF VerifyInterrupted
  <1>3. role' \in [Emails -> {"none", "user", "owner"}]
    BY BootstrapTypes DEF TypeOK, VerifyInterrupted
  <1> QED
    BY <1>2, <1>3, RestartTypes DEF TypeOK, VerifyInterrupted

LEMMA WrongGuessTypes ==
  ASSUME TypeOK, NEW e \in Emails, WrongGuess(e)
  PROVE  TypeOK'
  <1>c. CountedIn(e) \in [Codes -> Code]
    BY CountedInTypes
  <1>1. [c \in Codes |-> IF c \in Unused(e) THEN UsedUp(CountedIn(e)[c]) ELSE code[c]]
          \in [Codes -> Code]
    BY <1>c, RowTypes DEF TypeOK
  <1>2. code' \in [Codes -> Code]
    BY <1>c, <1>1 DEF WrongGuess
  <1>3. faced' \in [Codes -> Nat]
    BY DEF TypeOK, WrongGuess
  <1> QED
    BY <1>2, <1>3 DEF TypeOK, WrongGuess

LEMMA WrongGuessInterruptedTypes ==
  ASSUME TypeOK, NEW e \in Emails, WrongGuessInterrupted(e)
  PROVE  TypeOK'
  <1>1. code' \in [Codes -> Code]
    BY CountedInTypes, ForgottenTypes DEF WrongGuessInterrupted
  <1>2. faced' \in [Codes -> Nat]
    BY DEF TypeOK, WrongGuessInterrupted
  <1> QED
    BY <1>1, <1>2, RestartTypes DEF TypeOK, WrongGuessInterrupted

LEMMA ExpiredTypes ==
  ASSUME TypeOK, NEW c \in Codes
  PROVE  [email |-> code[c].email, used |-> code[c].used, expired |-> TRUE,
          fails |-> code[c].fails, mail |-> code[c].mail] \in Code
  BY DEF TypeOK, Code

LEMMA NextTypes == TypeOK /\ [Next]_vars => TypeOK'
  <1> SUFFICES ASSUME TypeOK, [Next]_vars PROVE TypeOK'
    OBVIOUS
  <1>1. CASE UNCHANGED vars
    BY <1>1 DEF TypeOK, vars
  <1>2. ASSUME NEW c \in Codes, NEW m \in {"arrived", "lost"}, MailAnswered(c, m) PROVE TypeOK'
    BY <1>2, MailedTypes DEF TypeOK, MailAnswered
  <1>3. ASSUME NEW c \in Codes, CodeExpires(c) PROVE TypeOK'
    BY <1>3, ExpiredTypes DEF TypeOK, CodeExpires
  <1>4. ASSUME NEW c \in Codes, PruneExpiredAuthCode(c) PROVE TypeOK'
    BY <1>4, RowTypes DEF TypeOK, PruneExpiredAuthCode
  <1>5. ASSUME NEW s \in Sessions, SessionEnds(s) PROVE TypeOK'
    BY <1>5 DEF TypeOK, SessionEnds
  <1>6. CASE Crash
    <2>1. code' \in [Codes -> Code]
      BY <1>6, ForgottenTypes DEF TypeOK, Crash
    <2> QED
      BY <1>6, <2>1, RestartTypes DEF TypeOK, Crash
  <1> QED
    BY <1>1, <1>2, <1>3, <1>4, <1>5, <1>6, LoginTypes, VerifyTypes, VerifyInterruptedTypes,
       WrongGuessTypes, WrongGuessInterruptedTypes DEF Next

\* Every reachable state of DashboardLogin is well typed.
THEOREM TypeCorrect == Spec => []TypeOK
  BY InitTypes, NextTypes, PTL DEF Spec

-----------------------------------------------------------------------------
(* Users.                                                                  *)

LEMMA UsersStep ==
  ASSUME TypeOK, OneOwner, CodesBeforeTheOwner,
         NEW e \in Emails, NEW c \in Active(e),
         role' \in {role, UserBootstrap(e)}
  PROVE  /\ OneOwner'
         /\ NoUsers' => NoUsers
         /\ role' = UserBootstrap(e) => role'[e] # "none"
         /\ \A f \in Emails : role[f] # "none" => role'[f] # "none"
  <1>c. c \in Codes /\ code[c].email = e
    BY ActiveIs
  <1>o. OwnerEmail # NoEmail /\ NoUsers => e = OwnerEmail
    BY <1>c, NoEmailIsNone DEF CodesBeforeTheOwner
  <1>1. CASE role' = role
    <2>1. OneOwner' /\ (NoUsers' => NoUsers)
      BY <1>1 DEF OneOwner, NoUsers
    <2>2. role' = UserBootstrap(e) => role'[e] # "none"
      BY <1>1 DEF UserBootstrap, TypeOK
    <2> QED
      BY <1>1, <2>1, <2>2
  <1>2. CASE role' = UserBootstrap(e)
    <2>1. /\ role[e] # "none" => role'[e] = role[e]
          /\ role[e] = "none" /\ NoUsers => role'[e] = "owner"
          /\ role[e] = "none" /\ ~NoUsers => role'[e] = "user"
          /\ \A f \in Emails \ {e} : role'[f] = role[f]
      BY <1>2 DEF UserBootstrap, TypeOK
    <2>2. role'[e] # "none" /\ ~NoUsers'
      BY <2>1 DEF NoUsers
    <2>3. \A f \in Emails : role[f] # "none" => role'[f] # "none"
      BY <2>1
    <2>4. OneOwner'
      <3>1. CASE NoUsers
        <4>1. role'[e] = "owner" /\ \A f \in Emails \ {e} : role'[f] = "none"
          BY <3>1, <2>1 DEF NoUsers
        <4> QED
          BY <4>1, <3>1, <1>o DEF OneOwner
      <3>2. CASE ~NoUsers
        <4>1. role'[e] = role[e] \/ (role'[e] = "user" /\ role[e] = "none")
          BY <3>2, <2>1
        <4>2. \A f \in Emails : role'[f] = "owner" <=> role[f] = "owner"
          BY <4>1, <2>1
        <4> QED
          BY <3>2, <4>2 DEF OneOwner
      <3> QED
        BY <3>1, <3>2
    <2> QED
      BY <2>2, <2>3, <2>4
  <1> QED
    BY <1>1, <1>2

\* Users stay as they are, or one verifies a code that is his.
UserStep ==
  \/ role' = role
  \/ \E e \in Emails : \E c \in Active(e) : role' \in {role, UserBootstrap(e)}

\* Codes keep their emails, are pruned, or are asked for.
EmailStep(c) ==
  \/ code'[c].email \in {code[c].email, NoEmail}
  \/ role' = role /\ \E e \in Emails : MayAskForCode(e) /\ code'[c].email = e

LEMMA OwnerKept ==
  ASSUME TypeOK, OneOwner, CodesBeforeTheOwner, UserStep, \A c \in Codes : EmailStep(c)
  PROVE  OneOwner' /\ CodesBeforeTheOwner'
  <1>1. OneOwner' /\ (NoUsers' => NoUsers)
    <2>1. CASE role' = role
      BY <2>1 DEF OneOwner, NoUsers
    <2>2. ASSUME NEW e \in Emails, NEW c \in Active(e), role' \in {role, UserBootstrap(e)}
          PROVE  OneOwner' /\ (NoUsers' => NoUsers)
      BY <2>2, UsersStep
    <2> QED
      BY <2>1, <2>2 DEF UserStep
  <1>2. CodesBeforeTheOwner'
    <2> SUFFICES ASSUME OwnerEmail # NoEmail, NoUsers', NEW c \in Codes
                 PROVE  code'[c].email \in {OwnerEmail, NoEmail}
      BY DEF CodesBeforeTheOwner
    <2>1. NoUsers /\ code[c].email \in {OwnerEmail, NoEmail}
      BY <1>1 DEF CodesBeforeTheOwner
    <2> QED
      BY <2>1 DEF EmailStep, MayAskForCode
  <1> QED
    BY <1>1, <1>2

-----------------------------------------------------------------------------
(* Codes.                                                                  *)

CodeOk(c) ==
  /\ ~code[c].used /\ ~code[c].expired /\ code[c].email # NoEmail
       => faced[c] = code[c].fails /\ faced[c] < VERIFY_FAILED_ATTEMPT_LIMIT + crashes
  /\ opened[c] <= 1
  /\ code[c].email # NoEmail /\ ~code[c].used => opened[c] = 0

SessionsOk == \A s \in Sessions : session[s] # NoEmail => role[session[s]] # "none"

LEMMA LoginInvIs ==
  LoginInv <=> /\ TypeOK /\ OneOwner /\ CodesBeforeTheOwner
               /\ SessionsOk /\ \A c \in Codes : CodeOk(c)
  BY DEF LoginInv, GuessesBounded, OneSessionPerCode, SessionsOk, CodeOk

LEMMA LoginInvIsNext ==
  LoginInv' <=> /\ TypeOK' /\ OneOwner' /\ CodesBeforeTheOwner'
                /\ SessionsOk' /\ \A c \in Codes : CodeOk(c)'
  BY DEF LoginInv, GuessesBounded, OneSessionPerCode, SessionsOk, CodeOk

\* A step that at most wears a code out.
Worn(c) ==
  /\ \/ code'[c].email = NoEmail
     \/ /\ code'[c].email = code[c].email /\ code'[c].fails = code[c].fails
        /\ code[c].used => code'[c].used
        /\ code[c].expired => code'[c].expired
  /\ faced'[c] = faced[c] /\ opened'[c] = opened[c]
  /\ crashes' \in {crashes, crashes + 1}

LEMMA WornIsOk ==
  ASSUME TypeOK, NEW c \in Codes, CodeOk(c), Worn(c)
  PROVE  CodeOk(c)'
  BY LimitsAreNaturals DEF TypeOK, CodeOk, Worn

LEMMA ForgottenRows ==
  ASSUME NEW rows \in [Codes -> Code], NEW c \in Codes
  PROVE  LET r == MailsForgotten(rows)[c]
         IN  /\ r.email = rows[c].email /\ r.used = rows[c].used
             /\ r.expired = rows[c].expired /\ r.fails = rows[c].fails
  BY DEF MailsForgotten

LEMMA SmallRows ==
  /\ \A r \in Code : /\ UsedUp(r).email = r.email /\ UsedUp(r).used
                     /\ UsedUp(r).expired = r.expired /\ UsedUp(r).fails = r.fails
  /\ \A r \in Code : /\ Counted(r).email = r.email /\ Counted(r).used = r.used
                     /\ Counted(r).expired = r.expired /\ Counted(r).fails = r.fails + 1
  BY DEF UsedUp, Counted, Code

LEMMA InitLogin == Init => LoginInv
  <1> SUFFICES ASSUME Init PROVE LoginInv
    OBVIOUS
  <1>1. \A c \in Codes : CodeOk(c)
    BY DEF Init, CodeOk, NoCode
  <1>2. SessionsOk
    BY DEF Init, SessionsOk
  <1>3. OneOwner
    BY DEF Init, OneOwner, NoUsers
  <1>4. CodesBeforeTheOwner
    BY DEF Init, CodesBeforeTheOwner, NoCode
  <1> QED
    BY <1>1, <1>2, <1>3, <1>4, InitTypes, LoginInvIs

LEMMA LoginStep ==
  ASSUME LoginInv, NEW e \in Emails, NEW c \in Codes, Login(e, c)
  PROVE  LoginInv'
  <1>t. TypeOK /\ TypeOK'
    BY LoginTypes, LoginInvIs
  <1>1. \A d \in Codes : d # c => Worn(d)
    BY <1>t DEF Login, Worn, TypeOK
  <1>2. /\ code'[c] = NewCode(e) /\ faced'[c] = 0 /\ opened'[c] = 0 /\ crashes' = crashes
        /\ role' = role /\ session' = session
    BY <1>t DEF Login, TypeOK
  <1>3. CodeOk(c)'
    BY <1>t, <1>2, LimitsAreNaturals DEF CodeOk, NewCode, TypeOK
  <1>4. \A d \in Codes : CodeOk(d)'
    BY <1>t, <1>1, <1>3, WornIsOk, LoginInvIs
  <1>5. \A d \in Codes : EmailStep(d)
    <2>1. EmailStep(c)
      BY <1>2 DEF EmailStep, Login, NewCode
    <2>2. \A d \in Codes : d # c => EmailStep(d)
      BY <1>1 DEF EmailStep, Worn
    <2> QED
      BY <2>1, <2>2
  <1>6. OneOwner' /\ CodesBeforeTheOwner'
    BY <1>2, <1>5, OwnerKept, LoginInvIs DEF UserStep
  <1>7. SessionsOk'
    BY <1>2, LoginInvIs DEF SessionsOk
  <1> QED
    BY <1>t, <1>4, <1>6, <1>7, LoginInvIsNext

\* Steps after which codes are worn at most and no session begins.
LEMMA WornStep ==
  ASSUME LoginInv, TypeOK', UserStep, \A c \in Codes : Worn(c),
         \A s \in Sessions : session'[s] \in {session[s], NoEmail},
         \A f \in Emails : role[f] # "none" => role'[f] # "none"
  PROVE  LoginInv'
  <1>1. \A c \in Codes : CodeOk(c)'
    BY WornIsOk, LoginInvIs
  <1>2. \A c \in Codes : EmailStep(c)
    BY DEF EmailStep, Worn
  <1>3. OneOwner' /\ CodesBeforeTheOwner'
    BY <1>2, OwnerKept, LoginInvIs
  <1>4. SessionsOk'
    BY LoginInvIs DEF SessionsOk, TypeOK
  <1> QED
    BY <1>1, <1>3, <1>4, LoginInvIsNext

LEMMA VerifyStep ==
  ASSUME LoginInv, NEW e \in Emails, NEW c \in Codes, NEW s \in Sessions, Verify(e, c, s)
  PROVE  LoginInv'
  <1>t. TypeOK /\ TypeOK'
    BY VerifyTypes, LoginInvIs
  <1>a. c \in Active(e) /\ code[c].email = e /\ ~code[c].used
    BY ActiveIs DEF Verify
  <1>u. code[c] \in Code /\ e # NoEmail
    BY <1>t, NoEmailIsNone DEF TypeOK
  <1>1. \A d \in Codes : d # c => Worn(d)
    BY <1>t DEF Verify, Worn, TypeOK
  <1>2. /\ code'[c].email = e /\ code'[c].used /\ opened'[c] = opened[c] + 1
        /\ role' = UserBootstrap(e) /\ crashes' = crashes
    BY <1>t, <1>a, <1>u, SmallRows DEF Verify, TypeOK
  <1>3. CodeOk(c)'
    <2>1. opened[c] = 0
      BY <1>a, <1>u, LoginInvIs DEF CodeOk
    <2> QED
      BY <1>2, <2>1 DEF CodeOk
  <1>4. \A d \in Codes : CodeOk(d)'
    BY <1>t, <1>1, <1>3, WornIsOk, LoginInvIs
  <1>5. \A d \in Codes : EmailStep(d)
    BY <1>1, <1>2, <1>a DEF EmailStep, Worn
  <1>6. OneOwner' /\ CodesBeforeTheOwner'
    BY <1>2, <1>a, <1>5, OwnerKept, LoginInvIs DEF UserStep
  <1>7. SessionsOk'
    <2>1. role'[e] # "none" /\ \A f \in Emails : role[f] # "none" => role'[f] # "none"
      BY <1>2, <1>a, UsersStep, LoginInvIs
    <2>2. session' = [session EXCEPT ![s] = e]
      BY DEF Verify
    <2> QED
      BY <1>t, <2>1, <2>2, LoginInvIs DEF SessionsOk, TypeOK
  <1> QED
    BY <1>t, <1>4, <1>6, <1>7, LoginInvIsNext

LEMMA VerifyInterruptedStep ==
  ASSUME LoginInv, NEW e \in Emails, NEW c \in Codes, VerifyInterrupted(e, c)
  PROVE  LoginInv'
  <1>t. TypeOK /\ TypeOK' /\ crashes' = crashes + 1
    BY VerifyInterruptedTypes, RestartTypes, LoginInvIs DEF VerifyInterrupted
  <1>a. c \in Active(e)
    BY DEF VerifyInterrupted
  <1> DEFINE rows == [code EXCEPT ![c] = UsedUp(code[c])]
  <1>r. rows \in [Codes -> Code] /\ code' = MailsForgotten(rows)
    BY <1>t, RowTypes DEF TypeOK, VerifyInterrupted
  <1>1. \A d \in Codes : /\ rows[d].email = code[d].email /\ rows[d].fails = code[d].fails
                         /\ rows[d].expired = code[d].expired
                         /\ code[d].used => rows[d].used
    BY <1>t, SmallRows DEF TypeOK
  <1>2. \A d \in Codes : Worn(d)
    <2> SUFFICES ASSUME NEW d \in Codes PROVE Worn(d)
      OBVIOUS
    <2>1. /\ code'[d].email = rows[d].email /\ code'[d].used = rows[d].used
          /\ code'[d].expired = rows[d].expired /\ code'[d].fails = rows[d].fails
      BY <1>r, ForgottenRows
    <2>2. faced'[d] = faced[d] /\ opened'[d] = opened[d]
      BY DEF VerifyInterrupted
    <2>3. /\ code'[d].email = code[d].email /\ code'[d].fails = code[d].fails
          /\ code[d].used => code'[d].used
          /\ code[d].expired => code'[d].expired
      BY <1>1, <2>1
    <2> QED
      BY <1>t, <2>2, <2>3 DEF Worn
  <1>3. UserStep
    BY <1>a DEF UserStep, VerifyInterrupted
  <1>4. \A f \in Emails : role[f] # "none" => role'[f] # "none"
    BY <1>a, UsersStep, LoginInvIs DEF VerifyInterrupted
  <1>5. \A s \in Sessions : session'[s] \in {session[s], NoEmail}
    BY DEF VerifyInterrupted
  <1> QED
    BY <1>t, <1>2, <1>3, <1>4, <1>5, WornStep

\* A code that a wrong guess does not use up has one more on its count.
LEMMA GuessedIsOk ==
  ASSUME TypeOK, NEW c \in Codes, CodeOk(c), code[c].email # NoEmail,
         ~code[c].used, ~code[c].expired,
         code'[c].email = code[c].email, code'[c].used = code[c].used,
         code'[c].fails = code[c].fails + 1,
         faced'[c] = faced[c] + 1, opened'[c] = opened[c],
         \/ crashes' = crashes /\ code[c].fails + 1 < VERIFY_FAILED_ATTEMPT_LIMIT
         \/ crashes' = crashes + 1
  PROVE  CodeOk(c)'
  <1>1. crashes \in Nat /\ faced[c] \in Nat /\ VERIFY_FAILED_ATTEMPT_LIMIT \in Nat
    BY LimitsAreNaturals DEF TypeOK
  <1>2. faced[c] = code[c].fails /\ faced[c] < VERIFY_FAILED_ATTEMPT_LIMIT + crashes
    BY DEF CodeOk
  <1>3. faced'[c] = code'[c].fails /\ faced'[c] < VERIFY_FAILED_ATTEMPT_LIMIT + crashes'
    BY <1>1, <1>2
  <1> QED
    BY <1>3 DEF CodeOk

LEMMA CountedRows ==
  ASSUME TypeOK, NEW e \in Emails, NEW c \in Codes
  PROVE  /\ CountedIn(e)[c] \in Code
         /\ CountedIn(e)[c].email = code[c].email /\ CountedIn(e)[c].used = code[c].used
         /\ CountedIn(e)[c].expired = code[c].expired
         /\ c \notin Active(e) => CountedIn(e)[c].fails = code[c].fails
         /\ c \in Active(e) => CountedIn(e)[c].fails = code[c].fails + 1
  <1>1. code[c] \in Code
    BY DEF TypeOK
  <1>2. CountedIn(e)[c] = IF c \in Active(e) THEN Counted(code[c]) ELSE code[c]
    BY DEF CountedIn
  <1>3. CASE c \in Active(e)
    BY <1>1, <1>2, <1>3, RowTypes, SmallRows
  <1>4. CASE c \notin Active(e)
    BY <1>1, <1>2, <1>4
  <1> QED
    BY <1>3, <1>4

LEMMA EmailsAndSessions ==
  ASSUME LoginInv, TypeOK', role' = role, session' = session,
         \A c \in Codes : code'[c].email = code[c].email,
         \A c \in Codes : CodeOk(c)'
  PROVE  LoginInv'
  <1>1. \A c \in Codes : EmailStep(c)
    BY DEF EmailStep
  <1>2. OneOwner' /\ CodesBeforeTheOwner'
    BY <1>1, OwnerKept, LoginInvIs DEF UserStep
  <1>3. SessionsOk'
    BY LoginInvIs DEF SessionsOk
  <1> QED
    BY <1>2, <1>3, LoginInvIsNext

LEMMA WrongGuessStep ==
  ASSUME LoginInv, NEW e \in Emails, WrongGuess(e)
  PROVE  LoginInv'
  <1>t. TypeOK /\ TypeOK'
    BY WrongGuessTypes, LoginInvIs
  <1>f. /\ role' = role /\ session' = session /\ opened' = opened /\ crashes' = crashes
        /\ \A c \in Codes : faced'[c] = IF c \in Active(e) THEN faced[c] + 1 ELSE faced[c]
    BY DEF WrongGuess
  <1>1. ASSUME NEW c \in Codes, ~LockedOut(e)
        PROVE  code'[c].email = code[c].email /\ CodeOk(c)'
    <2>1. code'[c] = CountedIn(e)[c]
      BY <1>1 DEF WrongGuess
    <2>2. CASE c \notin Active(e)
      <3>1. Worn(c)
        BY <1>t, <1>f, <2>1, <2>2, CountedRows DEF Worn
      <3> QED
        BY <1>t, <2>1, <3>1, CountedRows, WornIsOk, LoginInvIs
    <2>3. CASE c \in Active(e)
      <3>1. ~(code[c].fails + 1 >= VERIFY_FAILED_ATTEMPT_LIMIT)
        BY <1>1, <2>3 DEF LockedOut
      <3>2. code[c].fails + 1 < VERIFY_FAILED_ATTEMPT_LIMIT
        BY <3>1, <1>t, LimitsAreNaturals DEF TypeOK, Code
      <3>3. code[c].email # NoEmail /\ ~code[c].used /\ ~code[c].expired
        BY <2>3, ActiveIs, NoEmailIsNone
      <3>4. /\ code'[c].email = code[c].email /\ code'[c].used = code[c].used
            /\ code'[c].fails = code[c].fails + 1
        BY <1>t, <2>1, <2>3, CountedRows
      <3>5. faced'[c] = faced[c] + 1 /\ opened'[c] = opened[c]
        BY <1>f, <2>3
      <3>6. CodeOk(c)
        BY LoginInvIs
      <3> QED
        BY <1>t, <1>f, <3>2, <3>3, <3>4, <3>5, <3>6, GuessedIsOk
    <2> QED
      BY <2>2, <2>3
  <1>2. ASSUME NEW c \in Codes, LockedOut(e)
        PROVE  code'[c].email = code[c].email /\ CodeOk(c)'
    <2>1. code'[c] = IF c \in Unused(e) THEN UsedUp(CountedIn(e)[c]) ELSE code[c]
      BY <1>2 DEF WrongGuess
    <2>2. CASE c \notin Unused(e)
      <3>1. c \notin Active(e)
        BY <2>2, ActiveIs
      <3>2. Worn(c)
        BY <1>f, <2>1, <2>2, <3>1 DEF Worn
      <3> QED
        BY <1>t, <2>1, <2>2, <3>2, WornIsOk, LoginInvIs
    <2>3. CASE c \in Unused(e)
      <3>1. code'[c].email = code[c].email /\ code'[c].used
        BY <1>t, <2>1, <2>3, CountedRows, SmallRows
      <3>2. opened'[c] = opened[c] /\ CodeOk(c)
        BY <1>f, LoginInvIs
      <3> QED
        BY <3>1, <3>2 DEF CodeOk
    <2> QED
      BY <2>2, <2>3
  <1> QED
    BY <1>t, <1>f, <1>1, <1>2, EmailsAndSessions

LEMMA WrongGuessInterruptedStep ==
  ASSUME LoginInv, NEW e \in Emails, WrongGuessInterrupted(e)
  PROVE  LoginInv'
  <1>t. TypeOK /\ TypeOK' /\ crashes' = crashes + 1
    BY WrongGuessInterruptedTypes, RestartTypes, LoginInvIs DEF WrongGuessInterrupted
  <1>f. /\ role' = role /\ session' = session /\ opened' = opened
        /\ \A c \in Codes : faced'[c] = IF c \in Active(e) THEN faced[c] + 1 ELSE faced[c]
    BY DEF WrongGuessInterrupted
  <1>1. ASSUME NEW c \in Codes
        PROVE  code'[c].email = code[c].email /\ CodeOk(c)'
    <2>1. /\ code'[c].email = CountedIn(e)[c].email /\ code'[c].used = CountedIn(e)[c].used
          /\ code'[c].expired = CountedIn(e)[c].expired /\ code'[c].fails = CountedIn(e)[c].fails
      <3>1. CountedIn(e) \in [Codes -> Code]
        BY <1>t, CountedInTypes
      <3> QED
        BY <3>1, ForgottenRows DEF WrongGuessInterrupted
    <2>2. CASE c \notin Active(e)
      <3>1. Worn(c)
        BY <1>t, <1>f, <2>1, <2>2, CountedRows DEF Worn
      <3> QED
        BY <1>t, <2>1, <3>1, CountedRows, WornIsOk, LoginInvIs
    <2>3. CASE c \in Active(e)
      <3>3. code[c].email # NoEmail /\ ~code[c].used /\ ~code[c].expired
        BY <2>3, ActiveIs, NoEmailIsNone
      <3>4. /\ code'[c].email = code[c].email /\ code'[c].used = code[c].used
            /\ code'[c].fails = code[c].fails + 1
        BY <1>t, <2>1, <2>3, CountedRows
      <3>5. faced'[c] = faced[c] + 1 /\ opened'[c] = opened[c]
        BY <1>f, <2>3
      <3>6. CodeOk(c)
        BY LoginInvIs
      <3> QED
        BY <1>t, <3>3, <3>4, <3>5, <3>6, GuessedIsOk
    <2> QED
      BY <2>2, <2>3
  <1> QED
    BY <1>t, <1>f, <1>1, EmailsAndSessions

LEMMA OtherSteps ==
  ASSUME LoginInv, TypeOK',
         \/ UNCHANGED vars
         \/ \E c \in Codes, m \in {"arrived", "lost"} : MailAnswered(c, m)
         \/ \E c \in Codes : CodeExpires(c) \/ PruneExpiredAuthCode(c)
         \/ \E s \in Sessions : SessionEnds(s)
         \/ Crash
  PROVE  LoginInv'
  <1>t. TypeOK
    BY LoginInvIs
  <1>r. role' = role /\ \A s \in Sessions : session'[s] \in {session[s], NoEmail}
    BY <1>t DEF vars, MailAnswered, CodeExpires, PruneExpiredAuthCode, SessionEnds, Crash, TypeOK
  <1>1. ASSUME NEW c \in Codes, NEW m \in {"arrived", "lost"}, MailAnswered(c, m)
        PROVE  \A d \in Codes : Worn(d)
    BY <1>t, <1>1 DEF MailAnswered, Mailed, Worn, TypeOK
  <1>2. ASSUME NEW c \in Codes, CodeExpires(c) PROVE \A d \in Codes : Worn(d)
    BY <1>t, <1>2 DEF CodeExpires, Worn, TypeOK
  <1>3. ASSUME NEW c \in Codes, PruneExpiredAuthCode(c) PROVE \A d \in Codes : Worn(d)
    BY <1>t, <1>3 DEF PruneExpiredAuthCode, NoCode, Worn, TypeOK
  <1>4. CASE UNCHANGED vars \/ \E s \in Sessions : SessionEnds(s)
    <2>1. \A d \in Codes : Worn(d)
      BY <1>4 DEF vars, SessionEnds, Worn
    <2> QED
      BY <1>r, <2>1, WornStep DEF UserStep
  <1>5. CASE Crash
    <2>1. \A d \in Codes :
            /\ code'[d].email = code[d].email /\ code'[d].used = code[d].used
            /\ code'[d].expired = code[d].expired /\ code'[d].fails = code[d].fails
      BY <1>t, <1>5, ForgottenRows DEF Crash, TypeOK
    <2>2. \A d \in Codes : Worn(d)
      BY <1>5, <2>1 DEF Crash, Restart, Worn
    <2> QED
      BY <1>r, <2>2, WornStep DEF UserStep
  <1> QED
    BY <1>r, <1>1, <1>2, <1>3, <1>4, <1>5, WornStep DEF UserStep

LEMMA NextLogin == LoginInv /\ [Next]_vars => LoginInv'
  <1> SUFFICES ASSUME LoginInv, [Next]_vars PROVE LoginInv'
    OBVIOUS
  <1>t. TypeOK'
    BY NextTypes, LoginInvIs
  <1> QED
    BY <1>t, LoginStep, VerifyStep, VerifyInterruptedStep, WrongGuessStep,
       WrongGuessInterruptedStep, OtherSteps DEF Next

\* One owner, who is OWNER_EMAIL if that is set; a code opens one session at
\* most, after fewer wrong guesses than the limit (api/auth.js).
THEOREM LoginIsGuarded == Spec => []LoginInv
  BY InitLogin, NextLogin, PTL DEF Spec

-----------------------------------------------------------------------------
(* OrderStream: types.                                                     *)

LEMMA StreamRecord ==
  ASSUME NEW at \in {"none", "open", "leaked", "ended", "gone"}, NEW key \in SlotKeys \cup {Nobody},
         NEW closed \in BOOLEAN, NEW last \in 0 .. MaxTime, NEW sent \in Statuses \cup {"nothing"}
  PROVE  [at |-> at, key |-> key, closed |-> closed, last |-> last, sent |-> sent] \in Stream
  BY DEF Stream

LEMMA OrderRow ==
  ASSUME StreamTypeOK, NEW o \in Orders
  PROVE  /\ order[o].status \in Statuses /\ order[o].updated_at \in 0 .. MaxTime
         /\ order[o].updated_at \in Nat
  BY StreamLimitsAreNaturals DEF StreamTypeOK

-----------------------------------------------------------------------------
(* The connections with a slot, and the counters.                          *)

LEMMA HoldingIs ==
  /\ Holding' = {s \in Streams : Holds(stream'[s])}
  /\ \A k : HoldingOf(k)' = {s \in Streams : Holds(stream'[s]) /\ stream'[s].key = k}
  /\ \A k : HoldingOf(k) = {s \in Streams : Holds(stream[s]) /\ stream[s].key = k}
  BY DEF Holding, HoldingOf, Holds

LEMMA HoldingOfFinite ==
  ASSUME IsFiniteSet(Holding), NEW k
  PROVE  IsFiniteSet(HoldingOf(k)) /\ Cardinality(HoldingOf(k)) \in Nat /\ Cardinality(Holding) \in Nat
  <1>1. HoldingOf(k) \in SUBSET Holding
    BY DEF HoldingOf
  <1> QED
    BY <1>1, FS_Subset, FS_CardinalityType

\* A connection that neither takes nor gives a slot keeps the counters right.
LEMMA SlotsKept ==
  ASSUME SlotsMatch, UNCHANGED slots,
         \A s \in Streams :
           /\ Holds(stream'[s]) <=> Holds(stream[s])
           /\ Holds(stream[s]) => stream'[s].key = stream[s].key
  PROVE  SlotsMatch'
  <1>1. Holding' = Holding /\ \A k : HoldingOf(k)' = HoldingOf(k)
    BY HoldingIs DEF Holding
  <1> QED
    BY <1>1 DEF SlotsMatch, slots

\* A connection that takes a slot of its key.
LEMMA SlotTaken ==
  ASSUME StreamTypeOK, SlotsMatch, NEW s \in Streams, NEW k \in SlotKeys,
         HasSlot(k), tryAcquireStreamSlot(k),
         ~Holds(stream[s]), Holds(stream'[s]), stream'[s].key = k,
         \A t \in Streams : t # s => stream'[t] = stream[t]
  PROVE  SlotsMatch'
  <1>1. Holding' = Holding \cup {s} /\ s \notin Holding
    BY HoldingIs DEF Holding
  <1>2. HoldingOf(k)' = HoldingOf(k) \cup {s} /\ s \notin HoldingOf(k)
    BY HoldingIs
  <1>3. \A l : l # k => HoldingOf(l)' = HoldingOf(l)
    BY HoldingIs
  <1>4. IsFiniteSet(Holding) /\ openStreamsTotal = Cardinality(Holding)
        /\ \A l \in SlotKeys : openStreamsByKey[l] = Cardinality(HoldingOf(l))
                               /\ openStreamsByKey[l] <= MAX_STREAMS_PER_KEY
    BY DEF SlotsMatch
  <1>5. IsFiniteSet(HoldingOf(k))
    BY <1>4, HoldingOfFinite
  <1>6. /\ IsFiniteSet(Holding \cup {s}) /\ Cardinality(Holding \cup {s}) = Cardinality(Holding) + 1
        /\ Cardinality(HoldingOf(k) \cup {s}) = Cardinality(HoldingOf(k)) + 1
    BY <1>1, <1>2, <1>4, <1>5, FS_AddElement
  <1>7. openStreamsTotal \in Nat /\ openStreamsByKey[k] \in Nat
        /\ openStreamsByKey \in [SlotKeys -> Nat]
    BY DEF StreamTypeOK
  <1>8. /\ openStreamsTotal' = openStreamsTotal + 1
        /\ openStreamsByKey'[k] = openStreamsByKey[k] + 1
        /\ \A l \in SlotKeys : l # k => openStreamsByKey'[l] = openStreamsByKey[l]
    BY <1>7 DEF tryAcquireStreamSlot
  <1>9. openStreamsTotal' <= MAX_STREAMS_TOTAL /\ openStreamsByKey'[k] <= MAX_STREAMS_PER_KEY
    BY <1>7, <1>8, StreamLimitsAreNaturals DEF HasSlot
  <1>10. IsFiniteSet(Holding') /\ openStreamsTotal' = Cardinality(Holding')
    BY <1>1, <1>4, <1>6, <1>8
  <1>11. ASSUME NEW l \in SlotKeys
         PROVE  /\ openStreamsByKey'[l] = Cardinality(HoldingOf(l)')
                /\ openStreamsByKey'[l] <= MAX_STREAMS_PER_KEY
    <2>1. CASE l = k
      BY <1>2, <1>4, <1>6, <1>8, <1>9, <2>1
    <2>2. CASE l # k
      BY <1>3, <1>4, <1>8, <2>2
    <2> QED
      BY <2>1, <2>2
  <1> QED
    BY <1>9, <1>10, <1>11 DEF SlotsMatch

\* A connection that gives its slot back.
LEMMA SlotReleased ==
  ASSUME StreamTypeOK, SlotsMatch, NEW s \in Streams, stream[s].key \in SlotKeys,
         Holds(stream[s]), ~Holds(stream'[s]),
         releaseStreamSlot(stream[s].key),
         \A t \in Streams : t # s => stream'[t] = stream[t]
  PROVE  SlotsMatch'
  <1>k. PICK k \in SlotKeys : k = stream[s].key
    OBVIOUS
  <1>1. Holding' = Holding \ {s} /\ s \in Holding
    BY HoldingIs DEF Holding
  <1>2. HoldingOf(k)' = HoldingOf(k) \ {s} /\ s \in HoldingOf(k)
    BY <1>k, HoldingIs
  <1>3. \A l : l # k => HoldingOf(l)' = HoldingOf(l)
    BY <1>k, HoldingIs
  <1>r. /\ openStreamsByKey' = [openStreamsByKey EXCEPT ![k] = IF @ <= 1 THEN 0 ELSE @ - 1]
        /\ openStreamsTotal' = IF openStreamsTotal > 0 THEN openStreamsTotal - 1 ELSE 0
    BY <1>k DEF releaseStreamSlot
  <1>4. IsFiniteSet(Holding) /\ openStreamsTotal = Cardinality(Holding)
        /\ openStreamsTotal <= MAX_STREAMS_TOTAL
        /\ \A l \in SlotKeys : openStreamsByKey[l] = Cardinality(HoldingOf(l))
                               /\ openStreamsByKey[l] <= MAX_STREAMS_PER_KEY
    BY DEF SlotsMatch
  <1>5. IsFiniteSet(HoldingOf(k))
    BY <1>4, HoldingOfFinite
  <1>6. /\ IsFiniteSet(Holding \ {s}) /\ Cardinality(Holding \ {s}) = Cardinality(Holding) - 1
        /\ IsFiniteSet(HoldingOf(k) \ {s})
        /\ Cardinality(HoldingOf(k) \ {s}) = Cardinality(HoldingOf(k)) - 1
    BY <1>1, <1>2, <1>4, <1>5, FS_RemoveElement
  <1>7. openStreamsTotal \in Nat /\ openStreamsByKey[k] \in Nat
        /\ openStreamsByKey \in [SlotKeys -> Nat]
    BY <1>k DEF StreamTypeOK
  <1>8. openStreamsTotal > 0 /\ openStreamsByKey[k] > 0
    <2>1. Cardinality(Holding \ {s}) \in Nat /\ Cardinality(HoldingOf(k) \ {s}) \in Nat
      BY <1>6, FS_CardinalityType
    <2> QED
      BY <1>4, <1>6, <1>7, <1>k, <2>1
  <1>9. /\ openStreamsTotal' = openStreamsTotal - 1
        /\ openStreamsByKey'[k] = openStreamsByKey[k] - 1
        /\ \A l \in SlotKeys : l # k => openStreamsByKey'[l] = openStreamsByKey[l]
    BY <1>7, <1>8, <1>k, <1>r
  <1>10. /\ IsFiniteSet(Holding') /\ openStreamsTotal' = Cardinality(Holding')
         /\ openStreamsTotal' <= MAX_STREAMS_TOTAL
    BY <1>1, <1>4, <1>6, <1>7, <1>9, StreamLimitsAreNaturals
  <1>11. openStreamsByKey'[k] = Cardinality(HoldingOf(k)')
         /\ openStreamsByKey'[k] <= MAX_STREAMS_PER_KEY
    <2>1. /\ openStreamsByKey[k] = Cardinality(HoldingOf(k))
          /\ openStreamsByKey[k] <= MAX_STREAMS_PER_KEY
      BY <1>4, <1>k
    <2>2. Cardinality(HoldingOf(k)') = Cardinality(HoldingOf(k)) - 1
      BY <1>2, <1>6
    <2>3. openStreamsByKey'[k] = Cardinality(HoldingOf(k)')
      BY <1>9, <2>1, <2>2
    <2>4. openStreamsByKey'[k] <= MAX_STREAMS_PER_KEY
      BY <1>7, <1>9, <2>1, StreamLimitsAreNaturals
    <2> QED
      BY <2>3, <2>4
  <1>12. ASSUME NEW l \in SlotKeys
         PROVE  /\ openStreamsByKey'[l] = Cardinality(HoldingOf(l)')
                /\ openStreamsByKey'[l] <= MAX_STREAMS_PER_KEY
    <2>1. CASE l = k
      BY <1>11, <2>1
    <2>2. CASE l # k
      BY <1>3, <1>4, <1>9, <2>2
    <2> QED
      BY <2>1, <2>2
  <1> QED
    BY <1>10, <1>12 DEF SlotsMatch

-----------------------------------------------------------------------------
(* One connection moves.                                                   *)

\* The parts of the invariant about one connection.
ConnectionOK(s) ==
  /\ stream[s].at = "none" <=> stream[s].key = Nobody
  /\ stream[s].closed <=> stream[s].at \in {"ended", "gone"}
  /\ stream[s].at = "open" => (s \in listening <=> stream[s].key \in Dashboards)
  /\ s \in listening => stream[s].key \in Dashboards
  /\ \A o \in Orders : stream[s].at = "open" /\ stream[s].key = o
       => /\ stream[s].last <= order[o].updated_at
          /\ stream[s].sent \notin TERMINAL_STATUSES
          /\ stream[s].last = order[o].updated_at => stream[s].sent = order[o].status

LEMMA InvByConnection ==
  /\ StreamInv <=> StreamTypeOK /\ SlotsMatch /\ \A s \in Streams : ConnectionOK(s)
  /\ StreamInv' <=> StreamTypeOK' /\ SlotsMatch' /\ \A s \in Streams : ConnectionOK(s)'
  BY DEF StreamInv, FlagsMatch, ListenersAreStreams, SentMatchesLast, ConnectionOK

\* The other connections of such a step.
LEMMA OthersOK ==
  ASSUME NEW t \in Streams, ConnectionOK(t), stream'[t] = stream[t], order' = order,
         t \in listening' <=> t \in listening
  PROVE  ConnectionOK(t)'
  BY DEF ConnectionOK

LEMMA MovedTypes ==
  ASSUME StreamTypeOK, NEW s \in Streams, NEW r \in Stream, stream' = [stream EXCEPT ![s] = r]
  PROVE  /\ stream' \in [Streams -> Stream]
         /\ stream'[s] = r /\ \A t \in Streams : t # s => stream'[t] = stream[t]
  BY DEF StreamTypeOK

LEMMA SlotTypes ==
  ASSUME StreamTypeOK, NEW k \in SlotKeys,
         tryAcquireStreamSlot(k) \/ releaseStreamSlot(k) \/ UNCHANGED slots
  PROVE  openStreamsByKey' \in [SlotKeys -> Nat] /\ openStreamsTotal' \in Nat
  <1>1. openStreamsByKey \in [SlotKeys -> Nat] /\ openStreamsTotal \in Nat
    BY DEF StreamTypeOK
  <1>2. CASE tryAcquireStreamSlot(k)
    BY <1>1, <1>2 DEF tryAcquireStreamSlot
  <1>3. CASE releaseStreamSlot(k)
    BY <1>1, <1>3 DEF releaseStreamSlot
  <1>4. CASE UNCHANGED slots
    BY <1>1, <1>4 DEF slots
  <1> QED
    BY <1>2, <1>3, <1>4

\* A connection opens, with a slot.
LEMMA OpensInv ==
  ASSUME StreamInv, NEW s \in Streams, NEW k \in SlotKeys, stream[s].at = "none",
         HasSlot(k), tryAcquireStreamSlot(k), UNCHANGED <<order, now>>,
         NEW last \in 0 .. MaxTime, NEW sent \in Statuses \cup {"nothing"},
         stream' = [stream EXCEPT ![s] = [at |-> "open", key |-> k, closed |-> FALSE,
                                          last |-> last, sent |-> sent]],
         \A o \in Orders : k = o =>
           /\ last = order[o].updated_at /\ sent = order[o].status
           /\ sent \notin TERMINAL_STATUSES,
         listening' = IF k \in Dashboards THEN listening \cup {s} ELSE listening
  PROVE  StreamInv'
  <1> DEFINE r == [at |-> "open", key |-> k, closed |-> FALSE, last |-> last, sent |-> sent]
  <1>0. StreamTypeOK /\ SlotsMatch /\ \A t \in Streams : ConnectionOK(t)
    BY InvByConnection
  <1>1. r \in Stream
    BY StreamRecord
  <1>2. /\ stream' \in [Streams -> Stream]
        /\ stream'[s] = r /\ \A t \in Streams : t # s => stream'[t] = stream[t]
    <2> HIDE DEF r
    <2>1. stream' = [stream EXCEPT ![s] = r]
      BY DEF r
    <2> QED
      BY <1>0, <1>1, <2>1, MovedTypes
  <1>3. r.at = "open" /\ r.key = k /\ r.closed = FALSE /\ r.last = last /\ r.sent = sent
    OBVIOUS
  <1> HIDE DEF r
  <1>4. SlotsMatch'
    BY <1>0, <1>2, <1>3, SlotTaken DEF Holds
  <1>5. StreamTypeOK'
    <2>1. openStreamsByKey' \in [SlotKeys -> Nat] /\ openStreamsTotal' \in Nat
      BY <1>0, SlotTypes
    <2>2. listening' \subseteq Streams
      BY <1>0 DEF StreamTypeOK
    <2> QED
      BY <1>0, <1>2, <2>1, <2>2 DEF StreamTypeOK
  <1>6. ConnectionOK(s)'
    <2>1. s \notin listening /\ k # Nobody
      BY <1>0, SlotKeysDiffer DEF ConnectionOK, SlotKeys
    <2>2. s \in listening' <=> k \in Dashboards
      BY <2>1
    <2>3. \A o \in Orders : k = o => last <= order[o].updated_at
      BY <1>0, OrderRow
    <2> QED
      BY <1>2, <1>3, <2>1, <2>2, <2>3 DEF ConnectionOK
  <1>7. ASSUME NEW t \in Streams, t # s PROVE ConnectionOK(t)'
    BY <1>0, <1>2, <1>7, OthersOK
  <1> QED
    BY <1>4, <1>5, <1>6, <1>7, InvByConnection

\* A handler that throws with its slot taken.
LEMMA LeaksInv ==
  ASSUME StreamInv, NEW s \in Streams, NEW d \in Dashboards, OpenDashboardStreamThrows(s, d)
  PROVE  StreamInv'
  <1> DEFINE r == [at |-> "leaked", key |-> d, closed |-> FALSE, last |-> 0, sent |-> "nothing"]
  <1>0. StreamTypeOK /\ SlotsMatch /\ \A t \in Streams : ConnectionOK(t)
    BY InvByConnection
  <1>1. d \in SlotKeys /\ d # Nobody /\ 0 \in 0 .. MaxTime
    BY SlotKeysDiffer, StreamLimitsAreNaturals DEF SlotKeys
  <1>2. r \in Stream /\ r.at = "leaked" /\ r.key = d /\ r.closed = FALSE
    BY <1>1, StreamRecord
  <1>3. /\ stream[s].at = "none" /\ HasSlot(d) /\ tryAcquireStreamSlot(d)
        /\ UNCHANGED <<order, now, listening>> /\ stream' = [stream EXCEPT ![s] = r]
    BY DEF OpenDashboardStreamThrows
  <1> HIDE DEF r
  <1>4. /\ stream' \in [Streams -> Stream]
        /\ stream'[s] = r /\ \A t \in Streams : t # s => stream'[t] = stream[t]
    BY <1>0, <1>2, <1>3, MovedTypes
  <1>5. SlotsMatch'
    BY <1>0, <1>1, <1>2, <1>3, <1>4, SlotTaken DEF Holds
  <1>6. StreamTypeOK'
    <2>1. openStreamsByKey' \in [SlotKeys -> Nat] /\ openStreamsTotal' \in Nat
      BY <1>0, <1>1, <1>3, SlotTypes
    <2> QED
      BY <1>0, <1>3, <1>4, <2>1 DEF StreamTypeOK
  <1>7. ConnectionOK(s)'
    <2>1. s \notin listening
      BY <1>0, <1>3, SlotKeysDiffer DEF ConnectionOK, SlotKeys
    <2> QED
      BY <1>1, <1>2, <1>3, <1>4, <2>1 DEF ConnectionOK
  <1>8. ASSUME NEW t \in Streams, t # s PROVE ConnectionOK(t)'
    BY <1>0, <1>3, <1>4, <1>8, OthersOK
  <1> QED
    BY <1>5, <1>6, <1>7, <1>8, InvByConnection

\* A connection that was refused after it had a slot, or whose end is told: no slot
\* moves, and it is not open before or after.
LEMMA EndsInv ==
  ASSUME StreamInv, NEW s \in Streams, ~Holds(stream[s]), UNCHANGED <<order, now, slots>>,
         NEW r \in Stream, stream' = [stream EXCEPT ![s] = r],
         r.at \in {"ended", "gone"}, r.key # Nobody, r.closed = TRUE,
         listening' \subseteq listening \cup {s}, listening \ {s} \subseteq listening',
         s \in listening' => r.key \in Dashboards
  PROVE  StreamInv'
  <1>0. StreamTypeOK /\ SlotsMatch /\ \A t \in Streams : ConnectionOK(t)
    BY InvByConnection
  <1>2. /\ stream' \in [Streams -> Stream]
        /\ stream'[s] = r /\ \A t \in Streams : t # s => stream'[t] = stream[t]
    BY <1>0, MovedTypes
  <1>4. SlotsMatch'
    BY <1>0, <1>2, SlotsKept DEF Holds
  <1>5. StreamTypeOK'
    <2>2. listening' \subseteq Streams
      BY <1>0 DEF StreamTypeOK
    <2> QED
      BY <1>0, <1>2, <2>2 DEF StreamTypeOK, slots
  <1>6. ConnectionOK(s)'
    BY <1>2 DEF ConnectionOK
  <1>7. ASSUME NEW t \in Streams, t # s PROVE ConnectionOK(t)'
    BY <1>0, <1>2, <1>7, OthersOK
  <1> QED
    BY <1>4, <1>5, <1>6, <1>7, InvByConnection

\* An open connection ends: it gives its slot and its listener back.
LEMMA ReleasesInv ==
  ASSUME StreamInv, NEW s \in Streams, stream[s].at = "open", UNCHANGED <<order, now>>,
         NEW r \in Stream, stream' = [stream EXCEPT ![s] = r],
         r.at \in {"ended", "gone"}, r.key = stream[s].key, r.closed = TRUE,
         releaseStreamSlot(stream[s].key), listening' = listening \ {s}
  PROVE  StreamInv'
  <1>0. StreamTypeOK /\ SlotsMatch /\ \A t \in Streams : ConnectionOK(t)
    BY InvByConnection
  <1>1. stream[s].key \in SlotKeys /\ stream[s].key # Nobody
    BY <1>0, SlotKeysDiffer DEF StreamTypeOK, Stream, ConnectionOK
  <1>2. /\ stream' \in [Streams -> Stream]
        /\ stream'[s] = r /\ \A t \in Streams : t # s => stream'[t] = stream[t]
    BY <1>0, MovedTypes
  <1>4. SlotsMatch'
    BY <1>0, <1>1, <1>2, SlotReleased DEF Holds
  <1>5. StreamTypeOK'
    <2>1. openStreamsByKey' \in [SlotKeys -> Nat] /\ openStreamsTotal' \in Nat
      BY <1>0, <1>1, SlotTypes
    <2>2. listening' \subseteq Streams
      BY <1>0 DEF StreamTypeOK
    <2> QED
      BY <1>0, <1>2, <2>1, <2>2 DEF StreamTypeOK
  <1>6. ConnectionOK(s)'
    BY <1>1, <1>2 DEF ConnectionOK
  <1>7. ASSUME NEW t \in Streams, t # s PROVE ConnectionOK(t)'
    BY <1>0, <1>2, <1>7, OthersOK
  <1> QED
    BY <1>4, <1>5, <1>6, <1>7, InvByConnection

LEMMA ClosedRecord ==
  ASSUME StreamTypeOK, NEW s \in Streams, NEW at \in {"ended", "gone"}
  PROVE  /\ Closed(s, at) \in Stream /\ Closed(s, at).at = at
         /\ Closed(s, at).key = stream[s].key /\ Closed(s, at).closed = TRUE
  BY DEF Closed, StreamTypeOK, Stream

\* closeStream, by whoever calls it.
LEMMA ClosesInv ==
  ASSUME StreamInv, NEW s \in Streams, stream[s].at \in {"open", "ended"},
         NEW at \in {"ended", "gone"}, stream' = [stream EXCEPT ![s] = Closed(s, at)],
         closeStream(s), UNCHANGED <<order, now>>
  PROVE  StreamInv'
  <1>0. StreamTypeOK /\ ConnectionOK(s)
    BY InvByConnection
  <1>1. /\ Closed(s, at) \in Stream /\ Closed(s, at).at = at
        /\ Closed(s, at).key = stream[s].key /\ Closed(s, at).closed = TRUE
    BY <1>0, ClosedRecord
  <1>2. CASE stream[s].at = "open"
    <2>1. StillToRelease(s)
      BY <1>0, <1>2 DEF StillToRelease, ConnectionOK
    <2>2. releaseStreamSlot(stream[s].key) /\ listening' = listening \ {s}
      BY <2>1 DEF closeStream
    <2> QED
      BY <1>1, <1>2, <2>2, ReleasesInv
  <1>3. CASE stream[s].at = "ended"
    <2>1. ~StillToRelease(s) /\ stream[s].key # Nobody
          /\ (s \in listening => stream[s].key \in Dashboards)
      BY <1>0, <1>3 DEF StillToRelease, ConnectionOK
    <2>2. UNCHANGED slots /\ listening' = listening
      BY <2>1 DEF closeStream
    <2> QED
      BY <1>1, <1>3, <2>1, <2>2, EndsInv DEF Holds
  <1> QED
    BY <1>2, <1>3

-----------------------------------------------------------------------------
(* The steps.                                                              *)

LEMMA TickInv ==
  ASSUME StreamInv, NEW s \in Streams, NEW o \in Orders, Tick(s, o)
  PROVE  StreamInv'
  <1>0. StreamTypeOK /\ SlotsMatch /\ \A t \in Streams : ConnectionOK(t)
    BY InvByConnection
  <1>1. /\ stream[s].at = "open" /\ stream[s].key = o
        /\ stream' = [stream EXCEPT ![s] = Emitted(s, o)] /\ UNCHANGED <<order, now>>
    BY DEF Tick
  <1>2. /\ order[o].status \in Statuses /\ order[o].updated_at \in 0 .. MaxTime
        /\ order[o].updated_at \in Nat
    BY <1>0, OrderRow
  <1>3. Emitted(s, o) \in Stream
    <2>1. o \in SlotKeys \cup {Nobody} /\ order[o].status \in Statuses \cup {"nothing"}
      BY <1>2 DEF SlotKeys
    <2>2. (order[o].status \in TERMINAL_STATUSES) \in BOOLEAN
      OBVIOUS
    <2> QED
      BY <1>2, <2>1, <2>2, StreamRecord DEF Emitted
  <1>4. CASE order[o].status \in TERMINAL_STATUSES
    <2>1. Emitted(s, o).at = "ended" /\ Emitted(s, o).key = o /\ Emitted(s, o).closed = TRUE
      BY <1>4 DEF Emitted
    <2>2. closeStream(s) /\ StillToRelease(s)
      BY <1>0, <1>1, <1>4 DEF Tick, StillToRelease, ConnectionOK
    <2>3. releaseStreamSlot(stream[s].key) /\ listening' = listening \ {s}
      BY <2>2 DEF closeStream
    <2> QED
      BY <1>1, <1>3, <2>1, <2>3, ReleasesInv
  <1>5. CASE order[o].status \notin TERMINAL_STATUSES
    <2>1. /\ Emitted(s, o).at = "open" /\ Emitted(s, o).key = o /\ ~Emitted(s, o).closed
          /\ Emitted(s, o).last = order[o].updated_at /\ Emitted(s, o).sent = order[o].status
      BY <1>5 DEF Emitted
    <2>2. UNCHANGED slots /\ listening' = listening
      BY <1>5 DEF Tick
    <2>3. /\ stream' \in [Streams -> Stream]
          /\ stream'[s] = Emitted(s, o) /\ \A t \in Streams : t # s => stream'[t] = stream[t]
      BY <1>0, <1>1, <1>3, MovedTypes
    <2>4. SlotsMatch'
      BY <1>0, <1>1, <2>1, <2>2, <2>3, SlotsKept DEF Holds
    <2>5. StreamTypeOK'
      BY <1>0, <1>1, <2>2, <2>3 DEF StreamTypeOK, slots
    <2>6. ConnectionOK(s)'
      BY <1>0, <1>1, <1>2, <1>5, <2>1, <2>2, <2>3 DEF ConnectionOK
    <2>7. ASSUME NEW t \in Streams, t # s PROVE ConnectionOK(t)'
      BY <1>0, <1>1, <2>2, <2>3, <2>7, OthersOK
    <2> QED
      BY <2>4, <2>5, <2>6, <2>7, InvByConnection
  <1> QED
    BY <1>4, <1>5

\* A row that changes gets a later updated_at than any stream has seen.
LEMMA UpdateInv ==
  ASSUME StreamInv, NEW o \in Orders, NEW status \in Statuses, UpdateOrder(o, status)
  PROVE  StreamInv'
  <1>0. StreamTypeOK /\ SlotsMatch /\ \A t \in Streams : ConnectionOK(t)
    BY InvByConnection
  <1>1. /\ UNCHANGED <<now, stream, slots, listening>> /\ order[o].updated_at < now
        /\ order' = [order EXCEPT ![o] = [status |-> status, updated_at |-> now]]
    BY DEF UpdateOrder
  <1>2. now \in 0 .. MaxTime /\ order[o].updated_at \in Nat /\ now \in Nat
    BY <1>0, OrderRow, StreamLimitsAreNaturals DEF StreamTypeOK
  <1>3. /\ order' \in [Orders -> [status: Statuses, updated_at: 0 .. MaxTime]]
        /\ order'[o].status = status /\ order'[o].updated_at = now
        /\ \A p \in Orders : p # o => order'[p] = order[p]
    BY <1>0, <1>1, <1>2 DEF StreamTypeOK
  <1>4. StreamTypeOK'
    BY <1>0, <1>1, <1>3 DEF StreamTypeOK, slots
  <1>5. SlotsMatch'
    BY <1>0, <1>1, SlotsKept DEF Holds
  <1>6. ASSUME NEW s \in Streams PROVE ConnectionOK(s)'
    <2>1. stream[s].last \in Nat
      BY <1>0, StreamLimitsAreNaturals DEF StreamTypeOK, Stream
    <2>2. ASSUME stream[s].at = "open", stream[s].key = o
          PROVE  stream[s].last < now
      BY <1>0, <1>1, <1>2, <2>1, <2>2 DEF ConnectionOK
    <2> QED
      BY <1>0, <1>1, <1>2, <1>3, <2>1, <2>2 DEF ConnectionOK
  <1> QED
    BY <1>4, <1>5, <1>6, InvByConnection

LEMMA StreamStep == StreamInv /\ [StreamNext]_streamVars => StreamInv'
  <1> SUFFICES ASSUME StreamInv, [StreamNext]_streamVars PROVE StreamInv'
    OBVIOUS
  <1>0. StreamTypeOK /\ SlotsMatch /\ \A t \in Streams : ConnectionOK(t)
    BY InvByConnection
  <1>1. CASE TimePasses \/ UNCHANGED streamVars
    <2>1. UNCHANGED <<order, stream, slots, listening>> /\ now' \in 0 .. MaxTime
      BY <1>0, <1>1, StreamLimitsAreNaturals DEF TimePasses, streamVars, slots, StreamTypeOK
    <2>2. StreamTypeOK'
      BY <1>0, <2>1 DEF StreamTypeOK, slots
    <2>3. SlotsMatch'
      BY <1>0, <2>1, SlotsKept DEF Holds
    <2> QED
      BY <1>0, <2>1, <2>2, <2>3, OthersOK, InvByConnection
  <1>2. ASSUME NEW o \in Orders, NEW status \in Statuses, UpdateOrder(o, status) PROVE StreamInv'
    BY <1>2, UpdateInv
  <1>3. ASSUME NEW s \in Streams, WriteThrows(s) \/ ConnectionCloses(s) PROVE StreamInv'
    BY <1>3, ClosesInv DEF WriteThrows, ConnectionCloses
  <1>4. ASSUME NEW s \in Streams, NEW o \in Orders, OpenOrderStream(s, o) PROVE StreamInv'
    <2>1. /\ order[o].status \in Statuses \cup {"nothing"} /\ order[o].updated_at \in 0 .. MaxTime
          /\ o \in SlotKeys /\ o \notin Dashboards
      BY <1>0, OrderRow, SlotKeysDiffer DEF SlotKeys
    <2>2. /\ stream[s].at = "none" /\ HasSlot(o) /\ tryAcquireStreamSlot(o)
          /\ order[o].status \notin TERMINAL_STATUSES
          /\ UNCHANGED <<order, now>> /\ listening' = listening
          /\ stream' = [stream EXCEPT ![s] = [at |-> "open", key |-> o, closed |-> FALSE,
                          last |-> order[o].updated_at, sent |-> order[o].status]]
      BY <1>4 DEF OpenOrderStream
    <2> QED
      BY <2>1, <2>2, OpensInv
  <1>5. ASSUME NEW s \in Streams, NEW o \in Orders, Tick(s, o) PROVE StreamInv'
    BY <1>5, TickInv
  <1>6. ASSUME NEW s \in Streams, NEW o \in Orders, NEW sent \in TERMINAL_STATUSES \cup {"nothing"},
               OpenOrderStreamEnds(s, o, sent)
        PROVE  StreamInv'
    <2> DEFINE r == [at |-> "ended", key |-> o, closed |-> TRUE, last |-> order[o].updated_at,
                     sent |-> sent]
    <2>1. /\ order[o].updated_at \in 0 .. MaxTime /\ o \in SlotKeys /\ o # Nobody
          /\ sent \in Statuses \cup {"nothing"}
      BY <1>0, OrderRow, SlotKeysDiffer DEF SlotKeys, Statuses
    <2>2. /\ r \in Stream /\ r.at \in {"ended", "gone"} /\ r.key = o /\ r.closed = TRUE
      BY <2>1, StreamRecord
    <2>3. /\ stream[s].at = "none" /\ UNCHANGED <<order, now, slots>> /\ listening' = listening
          /\ stream' = [stream EXCEPT ![s] = r]
      BY <1>6 DEF OpenOrderStreamEnds
    <2>4. s \notin listening
      BY <1>0, <2>3, SlotKeysDiffer DEF ConnectionOK, SlotKeys
    <2> HIDE DEF r
    <2> QED
      BY <2>1, <2>2, <2>3, <2>4, EndsInv DEF Holds
  <1>7. ASSUME NEW s \in Streams, NEW d \in Dashboards, OpenDashboardStream(s, d) PROVE StreamInv'
    <2>1. d \in SlotKeys /\ d \notin Orders /\ 0 \in 0 .. MaxTime
      BY SlotKeysDiffer, StreamLimitsAreNaturals DEF SlotKeys
    <2>2. /\ stream[s].at = "none" /\ HasSlot(d) /\ tryAcquireStreamSlot(d)
          /\ UNCHANGED <<order, now>> /\ listening' = listening \cup {s}
          /\ stream' = [stream EXCEPT ![s] = [at |-> "open", key |-> d, closed |-> FALSE,
                          last |-> 0, sent |-> "nothing"]]
      BY <1>7 DEF OpenDashboardStream
    <2>3. \A o \in Orders : d # o
      BY <2>1
    <2>4. listening' = IF d \in Dashboards THEN listening \cup {s} ELSE listening
      BY <2>2
    <2>5. "nothing" \in Statuses \cup {"nothing"}
      OBVIOUS
    <2> QED
      BY <2>1, <2>2, <2>3, <2>4, <2>5, OpensInv
  <1>8. ASSUME NEW s \in Streams, NEW d \in Dashboards, NEW readyThrew \in BOOLEAN,
               OpenDashboardStreamEnds(s, d, readyThrew)
        PROVE  StreamInv'
    <2> DEFINE r == [at |-> "ended", key |-> d, closed |-> TRUE, last |-> 0, sent |-> "nothing"]
    <2>1. d \in SlotKeys /\ d # Nobody /\ 0 \in 0 .. MaxTime
      BY SlotKeysDiffer, StreamLimitsAreNaturals DEF SlotKeys
    <2>2. /\ r \in Stream /\ r.at \in {"ended", "gone"} /\ r.key = d /\ r.closed = TRUE
      BY <2>1, StreamRecord
    <2>3. /\ stream[s].at = "none" /\ UNCHANGED <<order, now, slots>>
          /\ stream' = [stream EXCEPT ![s] = r]
          /\ listening' \in {listening, listening \cup {s}}
      BY <1>8 DEF OpenDashboardStreamEnds
    <2> HIDE DEF r
    <2> QED
      BY <2>1, <2>2, <2>3, EndsInv DEF Holds
  <1>9. ASSUME NEW s \in Streams, NEW d \in Dashboards, OpenDashboardStreamThrows(s, d)
        PROVE  StreamInv'
    BY <1>9, LeaksInv
  <1> QED
    BY <1>1, <1>2, <1>3, <1>4, <1>5, <1>6, <1>7, <1>8, <1>9 DEF StreamNext

LEMMA StreamInitInv == StreamInit => StreamInv
  <1> SUFFICES ASSUME StreamInit PROVE StreamInv
    OBVIOUS
  <1>1. NoStream \in Stream /\ 0 \in 0 .. MaxTime
    BY StreamLimitsAreNaturals DEF NoStream, Stream
  <1>2. StreamTypeOK
    BY <1>1 DEF StreamInit, StreamTypeOK, Statuses, LivePhases
  <1>3. Holding = {} /\ \A k : HoldingOf(k) = {}
    BY DEF StreamInit, NoStream, Holding, HoldingOf, Holds
  <1>4. SlotsMatch
    BY <1>3, FS_EmptySet, StreamLimitsAreNaturals DEF StreamInit, SlotsMatch
  <1>5. \A s \in Streams : ConnectionOK(s)
    BY DEF StreamInit, NoStream, ConnectionOK
  <1> QED
    BY <1>2, <1>4, <1>5, InvByConnection

\* However streams open, break, end and are closed, the counters of the slots are
\* the streams that are open and the leaked ones (api/dashboard.js 91-93), no limit is
\* exceeded, the bus listens for the open dashboard streams, and an open stream has
\* told its client the row it saw last.
THEOREM StreamsAreBooked == StreamSpec => []StreamInv
  BY StreamInitInv, StreamStep, PTL DEF StreamSpec

=============================================================================
