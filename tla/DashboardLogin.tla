---------------------------- MODULE DashboardLogin ----------------------------
(***************************************************************************)
(* Login to the dashboard by an emailed code (api/auth.js): the rows of    *)
(* auth_codes, users and sessions.                                         *)
(*                                                                         *)
(* POST /auth/login inserts its row and then awaits the mail; every other  *)
(* handler is synchronous, but commits statement by statement, so that a   *)
(* restart can fall between two of its commits.  Codes are drawn at random *)
(* and taken as distinct.  The limits per IP are left out: they only make  *)
(* requests rarer.                                                         *)
(***************************************************************************)
EXTENDS Naturals, FiniteSets

CONSTANTS
  Emails,
  NoEmail,       \* no row
  OwnerEmail,    \* OWNER_EMAIL, NoEmail when it is not set
  Codes,         \* rows of auth_codes
  Sessions,      \* rows of sessions
  CODE_MAX_PER_WINDOW,
  VERIFY_FAILED_ATTEMPT_LIMIT,
  MaxCrashes     \* bound: restarts

ASSUME NoEmailIsNone == NoEmail \notin Emails
ASSUME OwnerIsAnEmail == OwnerEmail \in Emails \cup {NoEmail}
ASSUME LimitsAreNaturals ==
  /\ CODE_MAX_PER_WINDOW \in Nat
  /\ VERIFY_FAILED_ATTEMPT_LIMIT \in Nat \ {0}
  /\ MaxCrashes \in Nat

VARIABLES
  code,      \* auth_codes
  role,      \* users.role by email, "none" without a user
  session,   \* sessions: the email of the user
  faced,     \* history: wrong guesses a code has faced while it was active
  opened,    \* history: sessions a code has opened
  crashes    \* restarts so far

vars == <<code, role, session, faced, opened, crashes>>

-----------------------------------------------------------------------------
\* `mail`: whether the code reached its owner.
Code == [email: Emails \cup {NoEmail}, used: BOOLEAN, expired: BOOLEAN,
         fails: Nat, mail: {"sending", "arrived", "lost"}]
NoCode == [email |-> NoEmail, used |-> FALSE, expired |-> FALSE, fails |-> 0, mail |-> "lost"]
NewCode(e) == [email |-> e, used |-> FALSE, expired |-> FALSE, fails |-> 0, mail |-> "sending"]

Unused(e) == {c \in Codes : code[c].email = e /\ ~code[c].used}
Active(e) == {c \in Unused(e) : ~code[c].expired}

NoUsers == \A e \in Emails : role[e] = "none"

Mailed(c, m) == [email |-> code[c].email, used |-> code[c].used, expired |-> code[c].expired,
                 fails |-> code[c].fails, mail |-> m]

\* A restart forgets the mails it was sending.
Restart ==
  /\ crashes < MaxCrashes
  /\ crashes' = crashes + 1
MailsForgotten(rows) ==
  [c \in Codes |->
     [email |-> rows[c].email, used |-> rows[c].used, expired |-> rows[c].expired,
      fails |-> rows[c].fails, mail |-> IF rows[c].mail = "sending" THEN "lost" ELSE rows[c].mail]]

-----------------------------------------------------------------------------
(* POST /auth/login                                                        *)

\* A fault: anybody may be the first user.
AnyoneMayBootstrap(e) == TRUE

MayAskForCode(e) == OwnerEmail # NoEmail /\ NoUsers => e = OwnerEmail

Login(e, c) ==
  /\ MayAskForCode(e)
  /\ Cardinality(Active(e)) < CODE_MAX_PER_WINDOW
  /\ code[c].email = NoEmail
  /\ code' = [code EXCEPT ![c] = NewCode(e)]
  /\ faced' = [faced EXCEPT ![c] = 0]
  /\ opened' = [opened EXCEPT ![c] = 0]
  /\ UNCHANGED <<role, session, crashes>>

\* The answer of the mailer: sent, or refused; the row stays either way.
MailAnswered(c, m) ==
  /\ code[c].email # NoEmail /\ code[c].mail = "sending"
  /\ m \in {"arrived", "lost"}
  /\ code' = [code EXCEPT ![c] = Mailed(c, m)]
  /\ UNCHANGED <<role, session, faced, opened, crashes>>

-----------------------------------------------------------------------------
(* POST /auth/verify with the right code.                                  *)

UsedUp(row) == [email |-> row.email, used |-> TRUE, expired |-> row.expired,
                fails |-> row.fails, mail |-> row.mail]

UserBootstrap(e) ==
  [role EXCEPT ![e] = IF @ # "none" THEN @ ELSE IF NoUsers THEN "owner" ELSE "user"]

Verify(e, c, s) ==
  /\ c \in Active(e) /\ code[c].mail = "arrived"
  /\ session[s] = NoEmail
  /\ code' = [code EXCEPT ![c] = UsedUp(code[c])]
  /\ role' = UserBootstrap(e)
  /\ session' = [session EXCEPT ![s] = e]
  /\ opened' = [opened EXCEPT ![c] = @ + 1]
  /\ UNCHANGED <<faced, crashes>>

\* The restart falls after the code was marked, or after the user was made.
VerifyInterrupted(e, c) ==
  /\ c \in Active(e) /\ code[c].mail = "arrived"
  /\ Restart
  /\ code' = MailsForgotten([code EXCEPT ![c] = UsedUp(code[c])])
  /\ role' \in {role, UserBootstrap(e)}
  /\ UNCHANGED <<session, faced, opened>>

-----------------------------------------------------------------------------
(* POST /auth/verify with anything else.                                   *)

Counted(row) == [email |-> row.email, used |-> row.used, expired |-> row.expired,
                 fails |-> row.fails + 1, mail |-> row.mail]
CountedIn(e) == [c \in Codes |-> IF c \in Active(e) THEN Counted(code[c]) ELSE code[c]]

LockedOut(e) == \E c \in Active(e) : code[c].fails + 1 >= VERIFY_FAILED_ATTEMPT_LIMIT

WrongGuess(e) ==
  /\ Active(e) # {}
  /\ code' = IF LockedOut(e)
             THEN [c \in Codes |-> IF c \in Unused(e) THEN UsedUp(CountedIn(e)[c]) ELSE code[c]]
             ELSE CountedIn(e)
  /\ faced' = [c \in Codes |-> IF c \in Active(e) THEN faced[c] + 1 ELSE faced[c]]
  /\ UNCHANGED <<role, session, opened, crashes>>

\* The guess is counted, and the restart comes before the lock-out.
WrongGuessInterrupted(e) ==
  /\ Active(e) # {}
  /\ Restart
  /\ code' = MailsForgotten(CountedIn(e))
  /\ faced' = [c \in Codes |-> IF c \in Active(e) THEN faced[c] + 1 ELSE faced[c]]
  /\ UNCHANGED <<role, session, opened>>

-----------------------------------------------------------------------------
(* Time, logout, and the jobs that prune.                                  *)

CodeExpires(c) ==
  /\ code[c].email # NoEmail /\ ~code[c].expired
  /\ code' = [code EXCEPT ![c] = [email |-> code[c].email, used |-> code[c].used,
                                  expired |-> TRUE, fails |-> code[c].fails,
                                  mail |-> code[c].mail]]
  /\ UNCHANGED <<role, session, faced, opened, crashes>>

\* An hour after the expiry; the mail has long been answered.
PruneExpiredAuthCode(c) ==
  /\ code[c].expired /\ code[c].mail # "sending"
  /\ code' = [code EXCEPT ![c] = NoCode]
  /\ UNCHANGED <<role, session, faced, opened, crashes>>

\* By logout, or by its expiry and pruneExpiredSessions.
SessionEnds(s) ==
  /\ session[s] # NoEmail
  /\ session' = [session EXCEPT ![s] = NoEmail]
  /\ UNCHANGED <<code, role, faced, opened, crashes>>

Crash ==
  /\ Restart
  /\ code' = MailsForgotten(code)
  /\ UNCHANGED <<role, session, faced, opened>>

Init ==
  /\ code = [c \in Codes |-> NoCode]
  /\ role = [e \in Emails |-> "none"]
  /\ session = [s \in Sessions |-> NoEmail]
  /\ faced = [c \in Codes |-> 0]
  /\ opened = [c \in Codes |-> 0]
  /\ crashes = 0

Next ==
  \/ \E e \in Emails, c \in Codes : Login(e, c) \/ VerifyInterrupted(e, c)
  \/ \E e \in Emails, c \in Codes, s \in Sessions : Verify(e, c, s)
  \/ \E c \in Codes, m \in {"arrived", "lost"} : MailAnswered(c, m)
  \/ \E e \in Emails : WrongGuess(e) \/ WrongGuessInterrupted(e)
  \/ \E c \in Codes : CodeExpires(c) \/ PruneExpiredAuthCode(c)
  \/ \E s \in Sessions : SessionEnds(s)
  \/ Crash

Spec == Init /\ [][Next]_vars

-----------------------------------------------------------------------------
TypeOK ==
  /\ code \in [Codes -> Code]
  /\ role \in [Emails -> {"none", "user", "owner"}]
  /\ session \in [Sessions -> Emails \cup {NoEmail}]
  /\ faced \in [Codes -> Nat]
  /\ opened \in [Codes -> Nat]
  /\ crashes \in 0 .. MaxCrashes

\* The first user is the owner and nobody else is; with OWNER_EMAIL set it is
\* that address, although /auth/verify never looks at OWNER_EMAIL.
OneOwner ==
  /\ NoUsers \/ \E e \in Emails : role[e] = "owner"
  /\ \A e, f \in Emails : role[e] = "owner" /\ role[f] = "owner" => e = f
  /\ OwnerEmail # NoEmail => \A e \in Emails : role[e] = "owner" => e = OwnerEmail

\* What makes OneOwner hold: before the first user only the owner has a code.
CodesBeforeTheOwner ==
  OwnerEmail # NoEmail /\ NoUsers =>
    \A c \in Codes : code[c].email \in {OwnerEmail, NoEmail}

\* A code that still opens a session has faced fewer wrong guesses than the
\* limit, plus one for each restart that came between counting and lock-out.
GuessesBounded ==
  \A c \in Codes : ~code[c].used /\ ~code[c].expired /\ code[c].email # NoEmail
    => faced[c] = code[c].fails /\ faced[c] < VERIFY_FAILED_ATTEMPT_LIMIT + crashes

\* A code opens one session at most, and a session belongs to a user.
OneSessionPerCode ==
  /\ \A c \in Codes : opened[c] <= 1
  /\ \A c \in Codes : code[c].email # NoEmail /\ ~code[c].used => opened[c] = 0
  /\ \A s \in Sessions : session[s] # NoEmail => role[session[s]] # "none"

\* What a login may rely on, however logins, guesses and restarts interleave
\* (api/auth.js /auth/login and /auth/verify).
LoginInv == TypeOK /\ OneOwner /\ CodesBeforeTheOwner /\ GuessesBounded /\ OneSessionPerCode

=============================================================================
