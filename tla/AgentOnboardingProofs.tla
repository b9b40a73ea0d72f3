------------------------ MODULE AgentOnboardingProofs ------------------------
(***************************************************************************)
(* Proofs about AgentOnboarding, for any agents, wallets and sealing keys  *)
(* and any number of restarts.                                             *)
(***************************************************************************)
EXTENDS AgentOnboarding, TLAPS

-----------------------------------------------------------------------------
(* Types.                                                                  *)

LEMMA RowTypes ==
  /\ NoRow \in Agent
  /\ NoClaim \in Claim /\ Redeemed \in Claim
  /\ [st |-> "pruned", sealed |-> NoKey] \in Claim
  /\ boxKey \in BoxKeys => Minted \in Claim
  /\ \A st \in {"none", "minted", "deleted"} \cup AGENT_STATES, w \in Wallets \cup {NoWallet} :
       [state |-> st, wallet |-> w] \in Agent
  BY DEF NoRow, Agent, NoClaim, Redeemed, Minted, Claim, Claims

LEMMA WithStateTypes ==
  ASSUME TypeOK, NEW a \in Agents, NEW st \in AGENT_STATES
  PROVE  WithState(a, st) \in Agent
  <1>1. agent[a] \in Agent
    BY DEF TypeOK
  <1>2. agent[a].wallet \in Wallets \cup {NoWallet}
    BY <1>1 DEF Agent
  <1>3. [state |-> st, wallet |-> agent[a].wallet] \in Agent
    BY <1>2, RowTypes
  <1> QED
    BY <1>1, <1>3 DEF WithState

LEMMA IdleTypes == Idle \in [todo: SUBSET Agents, wallet: [Agents -> Wallets \cup {NoWallet}]]
  BY DEF Idle

LEMMA SweptToTypes ==
  ASSUME TypeOK, NEW rest \in SUBSET Agents
  PROVE  SweptTo(rest) \in [todo: SUBSET Agents, wallet: [Agents -> Wallets \cup {NoWallet}]]
  BY DEF TypeOK, SweptTo

LEMMA InitTypes == Init => TypeOK
  <1> SUFFICES ASSUME Init PROVE TypeOK
    OBVIOUS
  <1>1. agent \in [Agents -> Agent] /\ claim \in [Agents -> Claim]
    BY RowTypes DEF Init
  <1>2. boxKey \in BoxKeys
    BY NoKeyIsNone DEF Init
  <1>3. sweep \in [todo: SUBSET Agents, wallet: [Agents -> Wallets \cup {NoWallet}]]
    BY IdleTypes DEF Init
  <1>4. troubles \in 0 .. MaxTroubles
    BY MaxTroublesIsNatural DEF Init
  <1> QED
    BY <1>1, <1>2, <1>3, <1>4 DEF Init, TypeOK

LEMMA RestartTypes ==
  ASSUME TypeOK, Restart
  PROVE  /\ sweep' \in [todo: SUBSET Agents, wallet: [Agents -> Wallets \cup {NoWallet}]]
         /\ asking' \in Agents \cup {NoAgent}
         /\ troubles' \in 0 .. MaxTroubles
  BY IdleTypes, MaxTroublesIsNatural DEF TypeOK, Restart, Trouble

LEMMA OwnerStepTypes ==
  ASSUME TypeOK, NEW a \in Agents, OwnerStep(a)
  PROVE  TypeOK'
  <1>1. CASE DeleteAgent(a)
    BY <1>1, RowTypes DEF TypeOK, DeleteAgent, claimVars, jobVars
  <1>2. ASSUME NEW w \in Wallets \cup {NoWallet}, CreateAgent(a, w)
        PROVE  TypeOK'
    BY <1>2, RowTypes DEF TypeOK, CreateAgent, claimVars, jobVars
  <1>3. ASSUME NEW w \in Wallets \cup {NoWallet}, CreateAgentInterrupted(a, w)
        PROVE  TypeOK'
    BY <1>3, RowTypes, RestartTypes DEF TypeOK, CreateAgentInterrupted, CutShort, claimVars, jobVars
  <1>4. ASSUME NEW w \in Wallets \cup {NoWallet}, SetWallet(a, w)
        PROVE  TypeOK'
    <2>1. agent[a].state \in {"none", "minted", "deleted"} \cup AGENT_STATES
      BY DEF TypeOK, Agent
    <2>2. [state |-> agent[a].state, wallet |-> w] \in Agent
      BY <2>1, RowTypes
    <2> QED
      BY <1>4, <2>2 DEF TypeOK, SetWallet, claimVars, jobVars
  <1> QED
    BY <1>1, <1>2, <1>3, <1>4 DEF OwnerStep

LEMMA ClaimStepTypes ==
  ASSUME TypeOK, NEW a \in Agents, ClaimStep(a)
  PROVE  TypeOK'
  <1>i. WithState(a, "initializing") \in Agent
    <2>1. "initializing" \in AGENT_STATES /\ agent[a] \in Agent
      BY DEF TypeOK, AGENT_STATES
    <2> QED
      BY <2>1, WithStateTypes
  <1>1. CASE Redeem(a)
    BY <1>1, <1>i, RowTypes DEF TypeOK, Redeem, claimVars, jobVars
  <1>2. CASE RedeemInterrupted(a)
    BY <1>2, <1>i, RowTypes, RestartTypes DEF TypeOK, RedeemInterrupted, CutShort, claimVars, jobVars
  <1>3. CASE RedeemFails(a)
    BY <1>3 DEF TypeOK, RedeemFails, RolledBack, claimVars, jobVars
  <1>4. CASE RedeemRefused(a)
    BY <1>4 DEF TypeOK, RedeemRefused, claimVars, jobVars
  <1>5. CASE ClaimExpires(a)
    BY <1>5 DEF TypeOK, ClaimExpires, claimVars, jobVars
  <1>6. CASE PruneExpiredAgentClaim(a)
    BY <1>6, RowTypes DEF TypeOK, PruneExpiredAgentClaim, claimVars, jobVars
  <1> QED
    BY <1>1, <1>2, <1>3, <1>4, <1>5, <1>6 DEF ClaimStep

LEMMA JobStepTypes ==
  ASSUME TypeOK, SweepBegins \/ \E a \in Agents : AskHorizon(a) \/ NotFunded(a) \/ FundsSeen(a)
  PROVE  TypeOK'
  <1>1. CASE SweepBegins
    <2>1. Awaiting \in SUBSET Agents
      BY DEF Awaiting
    <2>2. \A a \in Agents : agent[a].wallet \in Wallets \cup {NoWallet}
      BY DEF TypeOK, Agent
    <2>3. sweep' \in [todo: SUBSET Agents, wallet: [Agents -> Wallets \cup {NoWallet}]]
      BY <1>1, <2>1, <2>2 DEF SweepBegins
    <2> QED
      BY <1>1, <2>3 DEF TypeOK, SweepBegins, claimVars, jobVars
  <1>2. ASSUME NEW a \in Agents, AskHorizon(a) PROVE TypeOK'
    BY <1>2 DEF TypeOK, AskHorizon, claimVars, jobVars
  <1>r. ASSUME NEW a \in Agents
        PROVE  SweptTo(RestAfter(a)) \in [todo: SUBSET Agents, wallet: [Agents -> Wallets \cup {NoWallet}]]
    <2>1. RestAfter(a) \in SUBSET Agents
      BY DEF RestAfter, TypeOK
    <2> QED
      BY <2>1, SweptToTypes
  <1>3. ASSUME NEW a \in Agents, NotFunded(a) PROVE TypeOK'
    BY <1>3, <1>r DEF TypeOK, NotFunded, claimVars, jobVars
  <1>4. ASSUME NEW a \in Agents, FundsSeen(a) PROVE TypeOK'
    <2>1. "funded" \in AGENT_STATES /\ agent[a] \in Agent
      BY DEF TypeOK, AGENT_STATES
    <2>2. WithState(a, "funded") \in Agent
      BY <2>1, WithStateTypes
    <2> QED
      BY <1>4, <1>r, <2>2 DEF TypeOK, FundsSeen, claimVars, jobVars
  <1> QED
    BY <1>1, <1>2, <1>3, <1>4

LEMMA OtherStepTypes ==
  ASSUME TypeOK,
         \/ \E a \in Agents, st \in AGENT_STATES, w \in Wallets \cup {NoWallet} : Report(a, st, w)
         \/ \E w \in Wallets : WalletFunded(w)
         \/ SealingKeyChanges
         \/ Crash
  PROVE  TypeOK'
  <1>1. ASSUME NEW a \in Agents, NEW st \in AGENT_STATES, NEW w \in Wallets \cup {NoWallet},
               Report(a, st, w)
        PROVE  TypeOK'
    BY <1>1, RowTypes DEF TypeOK, Report, claimVars, jobVars
  <1>2. ASSUME NEW w \in Wallets, WalletFunded(w) PROVE TypeOK'
    BY <1>2 DEF TypeOK, WalletFunded, claimVars, jobVars
  <1>3. CASE SealingKeyChanges
    BY <1>3, RestartTypes DEF TypeOK, SealingKeyChanges, claimVars, jobVars
  <1>4. CASE Crash
    BY <1>4, RestartTypes DEF TypeOK, Crash, claimVars, jobVars
  <1> QED
    BY <1>1, <1>2, <1>3, <1>4

LEMMA NextTypes == TypeOK /\ [Next]_vars => TypeOK'
  <1> SUFFICES ASSUME TypeOK, [Next]_vars PROVE TypeOK'
    OBVIOUS
  <1>1. CASE UNCHANGED vars
    BY <1>1 DEF TypeOK, vars, claimVars, jobVars
  <1>2. CASE Next
    BY <1>2, OwnerStepTypes, ClaimStepTypes, JobStepTypes, OtherStepTypes DEF Next
  <1> QED
    BY <1>1, <1>2

\* Every reachable state of AgentOnboarding is well typed.
THEOREM TypeCorrect == Spec => []TypeOK
  BY InitTypes, NextTypes, PTL DEF Spec

-----------------------------------------------------------------------------
(* A claim code gives the credentials out once.                            *)

ClaimOk(a) ==
  /\ handed[a] <= 1
  /\ claim[a].sealed # NoKey <=> claim[a].st = "unused"
  /\ claim[a].st = "unused" => handed[a] = 0 /\ ~burned[a]
  /\ claim[a].st = "used" => handed[a] = 1 \/ burned[a]
  /\ handed[a] = 1 => claim[a].st \in {"used", "pruned"}
  /\ claim[a].st = "none" => handed[a] = 0 /\ ~burned[a]
  /\ agent[a].state = "none" => claim[a].st = "none"

LEMMA ClaimInvIs == ClaimInv <=> TypeOK /\ \A a \in Agents : ClaimOk(a)
  BY DEF ClaimInv, ClaimOk

LEMMA ClaimInvIsNext == ClaimInv' <=> TypeOK' /\ \A a \in Agents : ClaimOk(a)'
  BY DEF ClaimInv, ClaimOk

LEMMA InitClaims == Init => ClaimInv
  <1> SUFFICES ASSUME Init PROVE ClaimInv
    OBVIOUS
  <1>1. \A a \in Agents : ClaimOk(a)
    BY DEF Init, NoRow, NoClaim, ClaimOk
  <1> QED
    BY <1>1, InitTypes, ClaimInvIs

\* Steps that leave the claims alone and make no row of api_keys disappear.
LEMMA ClaimsUntouched ==
  ASSUME ClaimInv, UNCHANGED <<claim, handed, burned>>,
         \A a \in Agents : agent'[a].state = "none" => agent[a].state = "none"
  PROVE  \A a \in Agents : ClaimOk(a)'
  BY DEF ClaimInv, ClaimOk

\* Steps on the claim of one agent.
LEMMA OtherClaims ==
  ASSUME ClaimInv, NEW a \in Agents,
         \A b \in Agents \ {a} :
           /\ claim'[b] = claim[b] /\ handed'[b] = handed[b] /\ burned'[b] = burned[b]
           /\ agent'[b] = agent[b],
         ClaimOk(a)'
  PROVE  \A b \in Agents : ClaimOk(b)'
  BY DEF ClaimInv, ClaimOk

LEMMA OwnerStepClaims ==
  ASSUME ClaimInv, NEW a \in Agents, OwnerStep(a)
  PROVE  \A b \in Agents : ClaimOk(b)'
  <1>t. TypeOK /\ ClaimOk(a)
    BY ClaimInvIs
  <1>1. CASE DeleteAgent(a)
    BY <1>1, <1>t, ClaimsUntouched DEF DeleteAgent, claimVars, TypeOK
  <1>2. ASSUME NEW w \in Wallets \cup {NoWallet}, CreateAgent(a, w)
        PROVE  \A b \in Agents : ClaimOk(b)'
    <2>1. claim[a].st = "none" /\ handed[a] = 0 /\ ~burned[a]
      BY <1>2, <1>t DEF CreateAgent, ClaimOk
    <2>2. claim'[a] = Minted /\ agent'[a].state = "minted" /\ handed' = handed /\ burned' = burned
      BY <1>2, <1>t DEF CreateAgent, TypeOK
    <2>3. Minted.st = "unused" /\ Minted.sealed # NoKey
      BY <1>t, NoKeyIsNone DEF Minted, TypeOK
    <2>4. ClaimOk(a)'
      BY <2>1, <2>2, <2>3 DEF ClaimOk
    <2> QED
      BY <1>2, <1>t, <2>4, OtherClaims DEF CreateAgent, TypeOK
  <1>3. ASSUME NEW w \in Wallets \cup {NoWallet}, CreateAgentInterrupted(a, w)
        PROVE  \A b \in Agents : ClaimOk(b)'
    BY <1>3, <1>t, ClaimsUntouched DEF CreateAgentInterrupted, claimVars, TypeOK
  <1>4. ASSUME NEW w \in Wallets \cup {NoWallet}, SetWallet(a, w)
        PROVE  \A b \in Agents : ClaimOk(b)'
    BY <1>4, <1>t, ClaimsUntouched DEF SetWallet, claimVars, TypeOK, Exists
  <1> QED
    BY <1>1, <1>2, <1>3, <1>4 DEF OwnerStep

LEMMA ClaimStepClaims ==
  ASSUME ClaimInv, NEW a \in Agents, ClaimStep(a)
  PROVE  \A b \in Agents : ClaimOk(b)'
  <1>t. TypeOK /\ ClaimOk(a)
    BY ClaimInvIs
  <1>w. /\ agent[a].state # "none" => WithState(a, "initializing").state # "none"
        /\ agent[a].state = "none" => WithState(a, "initializing") = agent[a]
    BY DEF WithState, Exists
  <1>r. Redeemed.st = "used" /\ Redeemed.sealed = NoKey
    BY DEF Redeemed
  <1>1. CASE Redeem(a)
    <2>1. claim[a].st = "unused" /\ handed[a] = 0 /\ agent[a].state # "none"
      BY <1>1, <1>t DEF Redeem, Redeemable, ClaimOk
    <2>2. /\ claim'[a] = Redeemed /\ handed'[a] = 1
          /\ agent'[a] = WithState(a, "initializing")
      BY <1>1, <1>t, <2>1 DEF Redeem, TypeOK
    <2>3. ClaimOk(a)'
      BY <1>w, <1>r, <2>1, <2>2 DEF ClaimOk
    <2> QED
      BY <1>1, <1>t, <2>3, OtherClaims DEF Redeem, TypeOK
  <1>2. CASE RedeemInterrupted(a)
    <2>1. claim[a].st = "unused" /\ handed[a] = 0 /\ agent[a].state # "none"
      BY <1>2, <1>t DEF RedeemInterrupted, Redeemable, ClaimOk
    <2>2. /\ claim'[a] = Redeemed /\ handed'[a] = 0 /\ burned'[a]
          /\ agent'[a] \in {agent[a], WithState(a, "initializing")}
      BY <1>2, <1>t, <2>1 DEF RedeemInterrupted, TypeOK
    <2>3. ClaimOk(a)'
      BY <1>w, <1>r, <2>1, <2>2 DEF ClaimOk
    <2> QED
      BY <1>2, <1>t, <2>3, OtherClaims DEF RedeemInterrupted, TypeOK
  <1>3. CASE RedeemFails(a)
    <2>1. claim' = claim
      BY <1>3, <1>t DEF RedeemFails, RolledBack, TypeOK
    <2> QED
      BY <1>3, <2>1, ClaimsUntouched DEF RedeemFails
  <1>4. CASE RedeemRefused(a)
    BY <1>4, ClaimsUntouched DEF RedeemRefused
  <1>5. CASE ClaimExpires(a)
    BY <1>5, ClaimsUntouched DEF ClaimExpires
  <1>6. CASE PruneExpiredAgentClaim(a)
    <2>1. claim[a].st # "none"
      BY <1>6 DEF PruneExpiredAgentClaim
    <2>2. /\ claim'[a].st = "pruned" /\ claim'[a].sealed = NoKey
          /\ agent' = agent /\ handed' = handed /\ burned' = burned
      BY <1>6, <1>t DEF PruneExpiredAgentClaim, TypeOK
    <2>3. ClaimOk(a)'
      BY <1>t, <2>1, <2>2 DEF ClaimOk
    <2> QED
      BY <1>6, <1>t, <2>3, OtherClaims DEF PruneExpiredAgentClaim, TypeOK
  <1> QED
    BY <1>1, <1>2, <1>3, <1>4, <1>5, <1>6 DEF ClaimStep

LEMMA NextClaims == ClaimInv /\ [Next]_vars => ClaimInv'
  <1> SUFFICES ASSUME ClaimInv, [Next]_vars PROVE ClaimInv'
    OBVIOUS
  <1>t. TypeOK /\ TypeOK'
    BY NextTypes, ClaimInvIs
  <1>1. CASE UNCHANGED vars
    <2>1. UNCHANGED <<agent, claim, handed, burned>>
      BY <1>1 DEF vars, claimVars
    <2> QED
      BY <1>t, <2>1, ClaimsUntouched, ClaimInvIsNext
  <1>2. CASE \E a \in Agents : OwnerStep(a) \/ ClaimStep(a)
    BY <1>t, <1>2, OwnerStepClaims, ClaimStepClaims, ClaimInvIsNext
  <1>3. ASSUME NEW a \in Agents, NEW st \in AGENT_STATES, NEW w \in Wallets \cup {NoWallet},
               Report(a, st, w)
        PROVE  ClaimInv'
    <2>1. st # "none"
      BY DEF AGENT_STATES
    <2> QED
      BY <1>t, <1>3, <2>1, ClaimsUntouched, ClaimInvIsNext DEF Report, claimVars, TypeOK
  <1>4. ASSUME NEW a \in Agents, FundsSeen(a) PROVE ClaimInv'
    <2>1. agent[a].state # "none" => WithState(a, "funded").state # "none"
      BY DEF WithState, Exists
    <2>2. \A b \in Agents : agent'[b].state = "none" => agent[b].state = "none"
      BY <1>t, <1>4, <2>1 DEF FundsSeen, TypeOK
    <2> QED
      BY <1>t, <1>4, <2>2, ClaimsUntouched, ClaimInvIsNext DEF FundsSeen, claimVars
  <1>5. CASE \/ SweepBegins
             \/ \E a \in Agents : AskHorizon(a) \/ NotFunded(a)
             \/ \E w \in Wallets : WalletFunded(w)
             \/ SealingKeyChanges
             \/ Crash
    <2>1. UNCHANGED <<agent, claim, handed, burned>>
      BY <1>5 DEF SweepBegins, AskHorizon, NotFunded, WalletFunded, SealingKeyChanges, Crash, claimVars
    <2> QED
      BY <1>t, <2>1, ClaimsUntouched, ClaimInvIsNext
  <1> QED
    BY <1>1, <1>2, <1>3, <1>4, <1>5 DEF Next

\* A claim code gives the credentials out at most once, and only a restart or a throw
\* between the commit and the answer takes it from its owner (api/agent-claim.js).
THEOREM CredentialsGivenOnce == Spec => []ClaimInv
  BY InitClaims, NextClaims, PTL DEF Spec

=============================================================================
