---------------------------- MODULE AgentOnboarding ----------------------------
(***************************************************************************)
(* From a new agent to a funded one: the owner creates the agent and gets  *)
(* a claim code (api/dashboard.js), the agent redeems the code for its     *)
(* credentials (api/agent-claim.js), reports how far it is (api/agent.js), *)
(* and the funding job asks Horizon for the balance of its wallet          *)
(* (checkAgentFundingStatus in jobs.js).                                   *)
(*                                                                         *)
(* Handlers are synchronous once the bcrypt hash is there, but commit      *)
(* statement by statement; the job waits for Horizon between its SELECT    *)
(* and its UPDATEs.                                                        *)
(***************************************************************************)
EXTENDS Naturals, FiniteSets

CONSTANTS
  Agents,      \* rows of api_keys, with the claim that was minted for each
  Wallets,
  NoWallet,    \* NULL
  NoAgent,     \* the job is not waiting
  BoxKeys,     \* sealing keys of lib/secret-box
  NoKey,       \* sealed_payload is empty
  MaxTroubles  \* bound: restarts, and changes of the sealing key

ASSUME NoWalletIsNone == NoWallet \notin Wallets
ASSUME NoAgentIsNone == NoAgent \notin Agents
ASSUME NoKeyIsNone == NoKey \notin BoxKeys /\ BoxKeys # {}
ASSUME MaxTroublesIsNatural == MaxTroubles \in Nat

VARIABLES
  agent,      \* api_keys: agent_state and wallet_public_key
  claim,      \* agent_claims: used_at, and the key sealed_payload is sealed with
  expired,    \* claims past their expires_at
  answer,     \* what the last redemption of the code was told
  handed,     \* history: how often the credentials were handed out
  burned,     \* history: a restart or a throw fell between redemption and answer
  boxKey,     \* the sealing key of this process
  sweep,      \* the job: agents still to ask for, and the wallets it read
  asking,     \* the agent whose wallet Horizon is asked for
  funded,     \* external: wallets with funds on the ledger
  troubles

claimVars == <<claim, expired, answer, handed, burned>>
jobVars == <<sweep, asking>>
vars == <<agent, claimVars, boxKey, jobVars, funded, troubles>>

-----------------------------------------------------------------------------
AGENT_STATES == {"initializing", "awaiting_funding", "funded"}
Agent == [state: {"none", "minted", "deleted"} \cup AGENT_STATES, wallet: Wallets \cup {NoWallet}]
NoRow == [state |-> "none", wallet |-> NoWallet]
Exists(a) == agent[a].state \notin {"none", "deleted"}

Claims == {"none", "unused", "used", "pruned"}
Claim == [st: Claims, sealed: BoxKeys \cup {NoKey}]
NoClaim == [st |-> "none", sealed |-> NoKey]
Minted == [st |-> "unused", sealed |-> boxKey]
\* One UPDATE sets used_at and wipes sealed_payload.
Redeemed == [st |-> "used", sealed |-> NoKey]

Idle == [todo |-> {}, wallet |-> [a \in Agents |-> NoWallet]]

Trouble ==
  /\ troubles < MaxTroubles
  /\ troubles' = troubles + 1
\* A restart ends the job that was running.
Restart == Trouble /\ sweep' = Idle /\ asking' = NoAgent
\* A handler ends between two of its statements: the process dies, or it throws.
CutShort == Restart \/ UNCHANGED <<jobVars, troubles>>

-----------------------------------------------------------------------------
(* POST /dashboard/api-keys, PATCH and DELETE.                             *)

CreateAgent(a, w) ==
  /\ agent[a].state = "none"
  /\ agent' = [agent EXCEPT ![a] = [state |-> "minted", wallet |-> w]]
  /\ claim' = [claim EXCEPT ![a] = Minted]
  /\ UNCHANGED <<expired, answer, handed, burned, boxKey, jobVars, funded, troubles>>

\* Cut short between the two INSERTs: an agent without a claim code.
CreateAgentInterrupted(a, w) ==
  /\ agent[a].state = "none"
  /\ CutShort
  /\ agent' = [agent EXCEPT ![a] = [state |-> "minted", wallet |-> w]]
  /\ UNCHANGED <<claimVars, boxKey, funded>>

SetWallet(a, w) ==
  /\ Exists(a)
  /\ agent' = [agent EXCEPT ![a] = [state |-> agent[a].state, wallet |-> w]]
  /\ UNCHANGED <<claimVars, boxKey, jobVars, funded, troubles>>

\* The claim stays: its code then gives out credentials of a deleted key.
DeleteAgent(a) ==
  /\ Exists(a)
  /\ agent' = [agent EXCEPT ![a] = [state |-> "deleted", wallet |-> NoWallet]]
  /\ UNCHANGED <<claimVars, boxKey, jobVars, funded, troubles>>

-----------------------------------------------------------------------------
(* POST /v1/agent/claim                                                    *)

Redeemable(a) == claim[a].st = "unused" /\ ~expired[a]

\* A fault: the claim is marked before its payload is opened.
RolledForward(a) == Redeemed

\* The payload cannot be opened: the transaction rolls back.
RolledBack(a) == claim[a]

WithState(a, st) == IF Exists(a) THEN [state |-> st, wallet |-> agent[a].wallet] ELSE agent[a]

Redeem(a) ==
  /\ Redeemable(a) /\ claim[a].sealed = boxKey
  /\ claim' = [claim EXCEPT ![a] = Redeemed]
  /\ agent' = [agent EXCEPT ![a] = WithState(a, "initializing")]
  /\ handed' = [handed EXCEPT ![a] = @ + 1]
  /\ answer' = [answer EXCEPT ![a] = "credentials"]
  /\ UNCHANGED <<expired, burned, boxKey, jobVars, funded, troubles>>

\* Cut short after the transaction, before or after the key's UPDATE: the code is
\* used and nobody has the credentials.
RedeemInterrupted(a) ==
  /\ Redeemable(a) /\ claim[a].sealed = boxKey
  /\ CutShort
  /\ claim' = [claim EXCEPT ![a] = Redeemed]
  /\ agent' \in {agent, [agent EXCEPT ![a] = WithState(a, "initializing")]}
  /\ burned' = [burned EXCEPT ![a] = TRUE]
  /\ UNCHANGED <<expired, answer, handed, boxKey, funded>>

RedeemFails(a) ==
  /\ Redeemable(a) /\ claim[a].sealed # boxKey
  /\ claim' = [claim EXCEPT ![a] = RolledBack(a)]
  /\ answer' = [answer EXCEPT ![a] = "refused"]
  /\ UNCHANGED <<agent, expired, handed, burned, boxKey, jobVars, funded, troubles>>

RedeemRefused(a) ==
  /\ ~Redeemable(a) /\ claim[a].st # "none"
  /\ answer' = [answer EXCEPT ![a] = "refused"]
  /\ UNCHANGED <<agent, claim, expired, handed, burned, boxKey, jobVars, funded, troubles>>

ClaimExpires(a) ==
  /\ claim[a].st # "none" /\ ~expired[a]
  /\ expired' = [expired EXCEPT ![a] = TRUE]
  /\ UNCHANGED <<agent, claim, answer, handed, burned, boxKey, jobVars, funded, troubles>>

PruneExpiredAgentClaim(a) ==
  /\ claim[a].st = "used" \/ (claim[a].st = "unused" /\ expired[a])
  /\ claim' = [claim EXCEPT ![a] = [st |-> "pruned", sealed |-> NoKey]]
  /\ UNCHANGED <<agent, expired, answer, handed, burned, boxKey, jobVars, funded, troubles>>

\* The operator starts the server with another sealing key.
SealingKeyChanges ==
  /\ Restart
  /\ boxKey' \in BoxKeys \ {boxKey}
  /\ UNCHANGED <<agent, claimVars, funded>>

-----------------------------------------------------------------------------
(* POST /v1/agent/status                                                   *)

Report(a, st, w) ==
  /\ Exists(a) /\ handed[a] > 0
  /\ agent' = [agent EXCEPT ![a] = [state |-> st, wallet |-> w]]
  /\ UNCHANGED <<claimVars, boxKey, jobVars, funded, troubles>>

-----------------------------------------------------------------------------
(* checkAgentFundingStatus; a mutex keeps it from overlapping itself.      *)

Awaiting == {a \in Agents : agent[a].state = "awaiting_funding" /\ agent[a].wallet # NoWallet}

SweepBegins ==
  /\ sweep.todo = {} /\ asking = NoAgent
  /\ Awaiting # {}
  /\ sweep' = [todo |-> Awaiting,
               wallet |-> [a \in Agents |-> IF a \in Awaiting THEN agent[a].wallet ELSE NoWallet]]
  /\ UNCHANGED <<agent, claimVars, boxKey, asking, funded, troubles>>

AskHorizon(a) ==
  /\ asking = NoAgent /\ a \in sweep.todo
  /\ asking' = a
  /\ UNCHANGED <<agent, claimVars, boxKey, sweep, funded, troubles>>

\* A fault: the sweep returns where it should continue, after its first agent.
RestDropped(a) == {}

RestAfter(a) == sweep.todo \ {a}

SweptTo(rest) ==
  [todo |-> rest, wallet |-> [b \in Agents |-> IF b \in rest THEN sweep.wallet[b] ELSE NoWallet]]

\* No answer in time, an error, or a balance that is not enough.
NotFunded(a) ==
  /\ asking = a
  /\ asking' = NoAgent
  /\ sweep' = SweptTo(RestAfter(a))
  /\ UNCHANGED <<agent, claimVars, boxKey, funded, troubles>>

\* The wallet that was read has funds: the row is set, whatever it says by now.
FundsSeen(a) ==
  /\ asking = a /\ sweep.wallet[a] \in funded
  /\ asking' = NoAgent
  /\ sweep' = SweptTo(RestAfter(a))
  /\ agent' = [agent EXCEPT ![a] = WithState(a, "funded")]
  /\ UNCHANGED <<claimVars, boxKey, funded, troubles>>

WalletFunded(w) ==
  /\ w \notin funded
  /\ funded' = funded \cup {w}
  /\ UNCHANGED <<agent, claimVars, boxKey, jobVars, troubles>>

Crash ==
  /\ Restart
  /\ UNCHANGED <<agent, claimVars, boxKey, funded>>

-----------------------------------------------------------------------------
Init ==
  /\ agent = [a \in Agents |-> NoRow]
  /\ claim = [a \in Agents |-> NoClaim]
  /\ expired = [a \in Agents |-> FALSE]
  /\ answer = [a \in Agents |-> "none"]
  /\ handed = [a \in Agents |-> 0]
  /\ burned = [a \in Agents |-> FALSE]
  /\ boxKey = CHOOSE k \in BoxKeys : TRUE
  /\ sweep = Idle
  /\ asking = NoAgent
  /\ funded = {}
  /\ troubles = 0

OwnerStep(a) ==
  \/ DeleteAgent(a)
  \/ \E w \in Wallets \cup {NoWallet} :
       CreateAgent(a, w) \/ CreateAgentInterrupted(a, w) \/ SetWallet(a, w)

ClaimStep(a) ==
  \/ Redeem(a) \/ RedeemInterrupted(a) \/ RedeemFails(a) \/ RedeemRefused(a)
  \/ ClaimExpires(a) \/ PruneExpiredAgentClaim(a)

Next ==
  \/ \E a \in Agents : OwnerStep(a) \/ ClaimStep(a)
  \/ \E a \in Agents, st \in AGENT_STATES, w \in Wallets \cup {NoWallet} : Report(a, st, w)
  \/ SweepBegins
  \/ \E a \in Agents : AskHorizon(a) \/ NotFunded(a) \/ FundsSeen(a)
  \/ \E w \in Wallets : WalletFunded(w)
  \/ SealingKeyChanges
  \/ Crash

Spec == Init /\ [][Next]_vars

\* The timer starts the job again and again and the job goes on; Horizon answers
\* for a wallet in the end, if it is asked for it again and again.
FairSpec ==
  /\ Spec
  /\ WF_vars(SweepBegins)
  /\ WF_vars(\E a \in Agents : AskHorizon(a))
  /\ WF_vars(\E a \in Agents : NotFunded(a) \/ FundsSeen(a))
  /\ \A a \in Agents : SF_vars(FundsSeen(a))

-----------------------------------------------------------------------------
TypeOK ==
  /\ agent \in [Agents -> Agent]
  /\ claim \in [Agents -> Claim]
  /\ expired \in [Agents -> BOOLEAN]
  /\ answer \in [Agents -> {"none", "credentials", "refused"}]
  /\ handed \in [Agents -> Nat]
  /\ burned \in [Agents -> BOOLEAN]
  /\ boxKey \in BoxKeys
  /\ sweep \in [todo: SUBSET Agents, wallet: [Agents -> Wallets \cup {NoWallet}]]
  /\ asking \in Agents \cup {NoAgent}
  /\ funded \subseteq Wallets
  /\ troubles \in 0 .. MaxTroubles

\* A code gives the credentials out once, the sealed copy is gone from the
\* moment it does, and only a restart or a throw between the commit of the redemption
\* and its answer (api/agent-claim.js 165-203) takes a code from its owner: not a
\* failing decryption, not a second redemption (redeemTx).
ClaimInv ==
  /\ TypeOK
  /\ \A a \in Agents :
       /\ handed[a] <= 1
       /\ claim[a].sealed # NoKey <=> claim[a].st = "unused"
       /\ claim[a].st = "unused" => handed[a] = 0 /\ ~burned[a]
       /\ claim[a].st = "used" => handed[a] = 1 \/ burned[a]
       /\ handed[a] = 1 => claim[a].st \in {"used", "pruned"}
       /\ claim[a].st = "none" => handed[a] = 0 /\ ~burned[a]
       /\ agent[a].state = "none" => claim[a].st = "none"

\* An agent that waits for funds and has them is not left waiting: the job sees
\* it, or somebody changes its state or its wallet (jobs.js:1078-1084).
FundingIsSeen ==
  \A a \in Agents, w \in Wallets :
    agent[a] = [state |-> "awaiting_funding", wallet |-> w] /\ w \in funded
      ~> agent[a] # [state |-> "awaiting_funding", wallet |-> w]

=============================================================================
