------------------------ MODULE ReceiverContractProofs ------------------------
(***************************************************************************)
(* Proofs about ReceiverContract, for any accounts, tokens and escrows,    *)
(* any amounts, limits and times.                                          *)
(***************************************************************************)
EXTENDS ReceiverContract, FiniteSetTheorems, TLAPS

-----------------------------------------------------------------------------
(* Arithmetic.                                                             *)

LEMMA QuotientOfSum ==
  ASSUME NEW n \in Nat, NEW m \in Nat
  PROVE  (10000 * n + m) \div 10000 = n + (m \div 10000)
  OBVIOUS

LEMMA SplitProduct ==
  ASSUME NEW a \in Nat, NEW b \in Nat
  PROVE  a * b = 10000 * ((a \div 10000) * b) + (a % 10000) * b
  OBVIOUS

LEMMA QuotientAndRest ==
  ASSUME NEW a \in Nat
  PROVE  a = 10000 * (a \div 10000) + (a % 10000)
  OBVIOUS

LEMMA ProductGrows ==
  ASSUME NEW a \in Nat, NEW b \in Nat, NEW c \in Nat, b <= c
  PROVE  a * b \in 0 .. a * c
  <1>1. PICK k \in Nat : c = b + k
    <2>1. c - b \in Nat /\ c = b + (c - b)
      OBVIOUS
    <2> QED
      BY <2>1
  <1>2. a * c = a * b + a * k
    BY <1>1
  <1>3. a * k \in Nat /\ a * b \in Nat
    BY <1>1
  <1> QED
    BY <1>2, <1>3

\* apply_discount computes amount * bps / 10000 although it never forms that
\* product, and a discount of at most 10000 basis points leaves an amount
\* between nothing and all of it (lib.rs apply_discount).
THEOREM DiscountIsExact ==
  ASSUME NEW amount \in Nat, NEW bps \in 0 .. 10000
  PROVE  /\ Discount(amount, bps) = (amount * bps) \div 10000
         /\ NetAmount(amount, bps) \in 0 .. amount
  <1> DEFINE n == (amount \div 10000) * bps
             m == (amount % 10000) * bps
  <1>1. n \in Nat /\ m \in Nat
    OBVIOUS
  <1>2. amount * bps = 10000 * n + m
    BY SplitProduct
  <1>3. Discount(amount, bps) = n + (m \div 10000)
    BY DEF Discount
  <1>4. (10000 * n + m) \div 10000 = n + (m \div 10000)
    <2> HIDE DEF n, m
    <2> QED
      BY <1>1, QuotientOfSum
  <1>5. Discount(amount, bps) = (amount * bps) \div 10000
    <2> HIDE DEF n, m
    <2> QED
      BY <1>2, <1>3, <1>4
  <1>a. amount \div 10000 \in Nat /\ amount % 10000 \in Nat /\ bps \in Nat /\ bps <= 10000
    OBVIOUS
  <1>6. m \div 10000 \in 0 .. (amount % 10000)
    <2>0. ASSUME NEW a \in Nat, a = amount % 10000
          PROVE  a * bps \in 0 .. a * 10000
      BY <1>a, ProductGrows
    <2>1. m <= (amount % 10000) * 10000
      BY <1>a, <2>0
    <2> HIDE DEF m
    <2> QED
      BY <1>1, <2>1
  <1>7. n \in 0 .. (amount \div 10000) * 10000
    <2>0. ASSUME NEW a \in Nat, a = amount \div 10000
          PROVE  a * bps \in 0 .. a * 10000
      BY <1>a, ProductGrows
    <2> QED
      BY <1>a, <2>0
  <1>8. amount = 10000 * (amount \div 10000) + (amount % 10000)
    BY QuotientAndRest
  <1>9. Discount(amount, bps) \in 0 .. amount
    <2> HIDE DEF n, m
    <2> QED
      BY <1>1, <1>3, <1>6, <1>7, <1>8
  <1> QED
    BY <1>5, <1>9 DEF NetAmount

LEMMA DayTypes ==
  ASSUME NEW n \in Nat, NEW d \in Nat \ {0}
  PROVE  n \div d \in 0 .. n
  OBVIOUS

LEMMA DaysGrow ==
  ASSUME NEW n \in Nat, NEW d \in Nat \ {0}
  PROVE  (n + 1) \div d >= n \div d
  OBVIOUS

LEMMA RankIs ==
  \A r \in Roles : role_rank[r] >= role_rank["Admin"] <=> r = "Admin"
  BY DEF role_rank, Roles

LEMMA AuthorityIs ==
  ASSUME role \in [Accounts -> Roles], NEW a \in Accounts
  PROVE  has_admin_authority(a) <=> a = config.admin \/ role[a] = "Admin"
  BY RankIs DEF has_admin_authority, has_authority

LEMMA AuthorityIsNext ==
  ASSUME role' \in [Accounts -> Roles], NEW a \in Accounts
  PROVE  has_admin_authority(a)' <=> a = config'.admin \/ role'[a] = "Admin"
  BY RankIs DEF has_admin_authority, has_authority

-----------------------------------------------------------------------------
(* Types.                                                                  *)

LEMMA TodayTypes ==
  ASSUME now \in 0 .. MaxTime
  PROVE  Today \in 0 .. MaxTime /\ Today \in Nat
  <1>1. now \in Nat /\ DAY \in Nat \ {0} /\ MaxTime \in Nat
    BY TimesAreNaturals
  <1>2. Today \in 0 .. now
    BY <1>1, DayTypes DEF Today
  <1> QED
    BY <1>1, <1>2

LEMMA NoProposalTypes ==
  ASSUME config \in Config
  PROVE  NoProposal \in [treasury: Treasuries, effective_at: Nat, pending: BOOLEAN]
  <1>1. config.treasury \in Treasuries
    BY DEF Config
  <1>2. (CHOOSE t \in Treasuries : TRUE) \in Treasuries
    BY <1>1
  <1> QED
    BY <1>2 DEF NoProposal

LEMMA NoEscrowTypes == NoEscrow \in Escrow
  BY DEF NoEscrow, Escrow

LEMMA TokenForTypes ==
  ASSUME token \in [Assets -> Tokens], NEW k \in Keys
  PROVE  TokenFor(k) \in Tokens
  BY DEF TokenFor, Keys

LEMMA CallTypes ==
  ASSUME TypeOK, NEW group, Call(group)
  PROVE  tries' \in Nat /\ now' = now /\ area' = area
  BY DEF TypeOK, Call

LEMMA ConfigFields ==
  ASSUME config \in Config
  PROVE  /\ config.admin \in Accounts /\ config.treasury \in Treasuries
         /\ config.paused \in BOOLEAN
  BY DEF Config

LEMMA ConfigTypes ==
  ASSUME NEW a \in Accounts, NEW t \in Treasuries, NEW p \in BOOLEAN
  PROVE  [admin |-> a, treasury |-> t, paused |-> p] \in Config
  BY DEF Config

LEMMA InitTypes == Init => TypeOK
  <1> SUFFICES ASSUME Init PROVE TypeOK
    OBVIOUS
  <1>1. config \in Config
    <2>1. PICK t \in Treasuries : config = [admin |-> Deployer, treasury |-> t, paused |-> FALSE]
      BY DEF Init
    <2> QED
      BY <2>1, DeployerIsAnAccount, ConfigTypes
  <1>2. proposal \in [treasury: Treasuries, effective_at: Nat, pending: BOOLEAN]
    BY <1>1, NoProposalTypes DEF Init
  <1>3. escrow \in [Keys -> Escrow]
    BY NoEscrowTypes DEF Init
  <1>4. rate \in [max: Nat, window: Nat]
    <2>1. DefaultRate \in [max: Nat \ {0}, window: Nat \ {0}]
      BY InputsAreNaturals
    <2>2. DefaultRate \in [max: Nat, window: Nat]
      BY <2>1
    <2> QED
      BY <2>2 DEF Init
  <1>5. now \in 0 .. MaxTime
    BY TimesAreNaturals DEF Init
  <1>6. limits \in [per_call: Nat, per_day: Nat] /\ withdrawn \in [day: Nat, total: Nat]
    BY DEF Init
  <1>7. role \in [Accounts -> Roles] /\ approvals \in [Hashes -> SUBSET Accounts]
    BY DEF Init, Roles
  <1>8. token \in [Assets -> Tokens] /\ held \in [Tokens -> Nat] /\ rescued \in [0 .. MaxTime -> Nat]
    BY FirstTokenIsAToken DEF Init
  <1>9. legacy \in BOOLEAN /\ gone \in BOOLEAN /\ blacklist \subseteq Accounts
        /\ signers \subseteq Accounts /\ wasm \in Hashes \cup {NoOne} /\ drained \in BOOLEAN
        /\ rateChanged \in BOOLEAN /\ area \in Areas /\ tries \in Nat /\ handedOver \subseteq Accounts
    BY DEF Init
  <1>10. recent \in [Accounts -> SUBSET Payment] /\ paid \in [Accounts -> SUBSET Payment]
    BY DEF Init
  <1> QED
    BY <1>1, <1>2, <1>3, <1>4, <1>5, <1>6, <1>7, <1>8, <1>9, <1>10 DEF TypeOK

LEMMA SetPausedTypes ==
  ASSUME TypeOK, NEW p \in BOOLEAN, SetPaused(p)
  PROVE  config' \in Config /\ legacy' \in BOOLEAN
  BY ConfigFields, ConfigTypes DEF TypeOK, SetPaused, SaveConfig

LEMMA GovernanceTypes ==
  ASSUME TypeOK, Governance
  PROVE  TypeOK'
  <1>c. config \in Config /\ role \in [Accounts -> Roles]
    BY DEF TypeOK
  <1>f. config.admin \in Accounts /\ config.treasury \in Treasuries /\ config.paused \in BOOLEAN
    BY <1>c, ConfigFields
  <1>1. ASSUME NEW a \in Accounts, TransferAdmin(a) PROVE TypeOK'
    <2>1. config' \in Config /\ legacy' = FALSE
      BY <1>1, <1>f, ConfigTypes DEF TransferAdmin, SaveConfig
    <2>2. role' \in [Accounts -> Roles]
      BY <1>1, <1>c, <1>f DEF TransferAdmin, RolesAfterHandover, Roles
    <2>3. handedOver' \subseteq Accounts
      BY <1>1, <1>f DEF TransferAdmin, TypeOK
    <2> QED
      BY <1>1, <2>1, <2>2, <2>3, CallTypes
      DEF TransferAdmin, TypeOK, upgradeVars, escrowVars, rateVars
  <1>2. ASSUME NEW a \in Accounts, RevokeRole(a) \/ RenounceRole(a) PROVE TypeOK'
    <2>2. role' \in [Accounts -> Roles]
      BY <1>2, <1>c DEF RevokeRole, RenounceRole, Roles
    <2> QED
      BY <1>2, <2>2, CallTypes
      DEF RevokeRole, RenounceRole, TypeOK, configVars, upgradeVars, escrowVars, rateVars
  <1>3. ASSUME NEW who \in SUBSET Accounts, NEW r \in Roles \ {"None"}, GrantRoles(who, r)
        PROVE  TypeOK'
    <2>2. role' \in [Accounts -> Roles]
      BY <1>3, <1>c DEF GrantRoles
    <2>3. handedOver' \subseteq Accounts
      BY <1>3 DEF GrantRoles, TypeOK
    <2> QED
      BY <1>3, <2>2, <2>3, CallTypes
      DEF GrantRoles, TypeOK, configVars, upgradeVars, escrowVars, rateVars
  <1>4. ASSUME NEW t \in Treasuries, ProposeTreasury(t) PROVE TypeOK'
    <2>1. proposal' \in [treasury: Treasuries, effective_at: Nat, pending: BOOLEAN]
      BY <1>4, TimesAreNaturals DEF ProposeTreasury, TypeOK
    <2> QED
      BY <1>4, <2>1, CallTypes
      DEF ProposeTreasury, TypeOK, configVars, roleVars, escrowVars, rateVars
  <1>5. ASSUME NEW t \in Treasuries, UpdateTreasury(t) PROVE TypeOK'
    <2>1. config' \in Config /\ legacy' = FALSE
      BY <1>5, <1>f, ConfigTypes DEF UpdateTreasury, SaveConfig
    <2> QED
      BY <1>5, <2>1, CallTypes
      DEF UpdateTreasury, TypeOK, roleVars, upgradeVars, escrowVars, rateVars
  <1>6. CASE ExecuteTreasuryMigration
    <2>1. proposal.treasury \in Treasuries
      BY DEF TypeOK
    <2>2. config' \in Config
      BY <1>6, <1>f, <2>1, ConfigTypes DEF ExecuteTreasuryMigration
    <2> QED
      BY <1>6, <1>c, <2>2, CallTypes, NoProposalTypes
      DEF ExecuteTreasuryMigration, TypeOK, roleVars, escrowVars, rateVars
  <1>7. CASE CancelTreasuryMigration
    BY <1>7, <1>c, CallTypes, NoProposalTypes
    DEF CancelTreasuryMigration, TypeOK, configVars, roleVars, escrowVars, rateVars
  <1>8. ASSUME NEW s \in SUBSET Accounts, SetUpgradeSigners(s) PROVE TypeOK'
    BY <1>8, CallTypes
    DEF SetUpgradeSigners, TypeOK, configVars, roleVars, escrowVars, rateVars
  <1>9. ASSUME NEW a \in Accounts, NEW h \in Hashes, ProposeUpgrade(a, h) \/ ApproveUpgrade(a, h)
        PROVE  TypeOK'
    <2>0. approvals \in [Hashes -> SUBSET Accounts] /\ signers \subseteq Accounts
      BY DEF TypeOK
    <2>1. approvals' \in [Hashes -> SUBSET Accounts]
      BY <1>9, <2>0 DEF ProposeUpgrade, ApproveUpgrade
    <2>2. wasm' \in Hashes \cup {NoOne}
      BY <1>9 DEF ProposeUpgrade, ApproveUpgrade, TypeOK
    <2> QED
      BY <1>9, <2>1, <2>2, CallTypes
      DEF ProposeUpgrade, ApproveUpgrade, TypeOK, configVars, roleVars, escrowVars, rateVars
  <1>10. ASSUME NEW h \in Hashes, Upgrade(h) PROVE TypeOK'
    BY <1>10, CallTypes DEF Upgrade, TypeOK, configVars, roleVars, escrowVars, rateVars
  <1> QED
    BY <1>1, <1>2, <1>3, <1>4, <1>5, <1>6, <1>7, <1>8, <1>9, <1>10 DEF Governance

LEMMA PaidTypes ==
  ASSUME TypeOK, NEW a \in Accounts, NEW counted \in BOOLEAN, Paid(a, counted)
  PROVE  paid' \in [Accounts -> SUBSET Payment]
  <1> DEFINE payment == [call |-> tries, ledger |-> now, counted |-> counted]
  <1>1. payment \in Payment
    BY TimesAreNaturals DEF TypeOK, Payment
  <1>2. paid' = [paid EXCEPT ![a] = @ \cup {payment}] /\ paid \in [Accounts -> SUBSET Payment]
    BY DEF Paid, TypeOK
  <1> HIDE DEF payment
  <1> QED
    BY <1>1, <1>2

LEMMA PaymentsTypes ==
  ASSUME TypeOK, Payments
  PROVE  TypeOK'
  <1>1. ASSUME NEW a \in Accounts, NEW b \in Accounts, NEW status \in BOOLEAN,
               SetBlacklisted(a, b, status)
        PROVE  TypeOK'
    <2>1. blacklist' \subseteq Accounts
      BY <1>1 DEF SetBlacklisted, TypeOK
    <2> QED
      BY <1>1, <2>1, CallTypes
      DEF SetBlacklisted, TypeOK, configVars, upgradeVars, escrowVars, rateVars
  <1>2. ASSUME NEW a \in Accounts, Pause(a) PROVE TypeOK'
    <2>1. config' \in Config /\ legacy' \in BOOLEAN
      BY <1>2, SetPausedTypes DEF Pause
    <2> QED
      BY <1>2, <2>1, CallTypes
      DEF Pause, TypeOK, roleVars, upgradeVars, escrowVars, rateVars
  <1>3. ASSUME NEW a \in Accounts, Pay(a) PROVE TypeOK'
    <2> DEFINE payment == [call |-> tries, ledger |-> now, counted |-> TRUE]
    <2>1. recent \in [Accounts -> SUBSET Payment]
      BY DEF TypeOK
    <2>2. payment \in Payment
      BY TimesAreNaturals DEF TypeOK, Payment
    <2>3. Active(recent[a]) \in SUBSET Payment
      BY <2>1 DEF Active
    <2>4. recent' = [recent EXCEPT ![a] = Active(@) \cup {payment}]
      BY <1>3 DEF Pay
    <2>5. recent' \in [Accounts -> SUBSET Payment]
      <3> HIDE DEF payment
      <3> QED
        BY <2>1, <2>2, <2>3, <2>4
    <2>6. paid' \in [Accounts -> SUBSET Payment]
      BY <1>3, PaidTypes DEF Pay
    <2> QED
      BY <1>3, <2>5, <2>6, CallTypes DEF Pay, TypeOK, configVars, roleVars, upgradeVars, escrowVars
  <1>6. ASSUME NEW a \in Accounts, PayWithMemo(a) \/ PayBatch(a) PROVE TypeOK'
    <2>1. paid' \in [Accounts -> SUBSET Payment]
      BY <1>6, PaidTypes DEF PayWithMemo, PayBatch
    <2> QED
      BY <1>6, <2>1, CallTypes
      DEF PayWithMemo, PayBatch, TypeOK, configVars, roleVars, upgradeVars, escrowVars
  <1>4. ASSUME NEW a \in Accounts, NEW r \in Rates, SetPaymentRateLimit(a, r) PROVE TypeOK'
    <2>1. r \in [max: Nat \ {0}, window: Nat \ {0}]
      BY InputsAreNaturals
    <2>2. r \in [max: Nat, window: Nat]
      BY <2>1
    <2> QED
      BY <1>4, <2>2, CallTypes
      DEF SetPaymentRateLimit, TypeOK, configVars, roleVars, upgradeVars, escrowVars
  <1>5. CASE Unpause
    <2>1. config' \in Config /\ legacy' \in BOOLEAN
      BY <1>5, SetPausedTypes DEF Unpause
    <2> QED
      BY <1>5, <2>1, CallTypes
      DEF Unpause, TypeOK, roleVars, upgradeVars, escrowVars, rateVars
  <1> QED
    BY <1>1, <1>2, <1>3, <1>4, <1>5, <1>6 DEF Payments

LEMMA CustodyTypes ==
  ASSUME TypeOK, Custody
  PROVE  TypeOK'
  <1>t. /\ token \in [Assets -> Tokens] /\ held \in [Tokens -> Nat] /\ escrow \in [Keys -> Escrow]
        /\ now \in Nat
    BY TimesAreNaturals DEF TypeOK
  <1>n. Amounts \subseteq Nat
    BY InputsAreNaturals
  <1>p. ASSUME NEW k \in Keys, PaysOut(k)
        PROVE  held' \in [Tokens -> Nat] /\ escrow' \in [Keys -> Escrow]
    <2>1. TokenFor(k) \in Tokens /\ escrow[k].amount \in Nat
      BY <1>t, TokenForTypes DEF Escrow
    <2> QED
      BY <1>t, <1>p, <2>1, NoEscrowTypes DEF PaysOut
  <1>1. ASSUME NEW a \in Accounts, NEW amount \in Amounts, NEW k \in Keys, DepositEscrow(a, amount, k)
        PROVE  TypeOK'
    <2>1. TokenFor(k) \in Tokens /\ amount \in Nat
      BY <1>t, <1>n, TokenForTypes
    <2>2. [payer |-> a, amount |-> amount, at |-> now] \in Escrow
      BY <1>t, <2>1 DEF Escrow
    <2>3. held' \in [Tokens -> Nat] /\ escrow' \in [Keys -> Escrow]
      BY <1>1, <1>t, <2>1, <2>2 DEF DepositEscrow
    <2> QED
      BY <1>1, <2>3, CallTypes
      DEF DepositEscrow, TypeOK, configVars, roleVars, upgradeVars, rateVars
  <1>2. ASSUME NEW a \in Accounts, NEW k \in Keys, ReleaseEscrow(a, k) PROVE TypeOK'
    BY <1>2, <1>p, CallTypes
    DEF ReleaseEscrow, TypeOK, configVars, roleVars, upgradeVars, rateVars
  <1>3. ASSUME NEW a \in Accounts, NEW k \in Keys, RefundEscrow(a, k) PROVE TypeOK'
    BY <1>3, <1>p, CallTypes
    DEF RefundEscrow, TypeOK, configVars, roleVars, upgradeVars, rateVars
  <1>4. ASSUME NEW k \in Keys, RecordExpires(k) PROVE TypeOK'
    <2>1. escrow' \in [Keys -> Escrow]
      BY <1>4, <1>t, NoEscrowTypes DEF RecordExpires
    <2> QED
      BY <1>4, <2>1 DEF RecordExpires, TypeOK, configVars, roleVars, upgradeVars, rateVars
  <1>5. ASSUME NEW t \in Tokens, NEW amount \in Amounts, Stray(t, amount) PROVE TypeOK'
    <2>1. held' \in [Tokens -> Nat]
      BY <1>5, <1>t, <1>n DEF Stray
    <2> QED
      BY <1>5, <2>1, CallTypes DEF Stray, TypeOK, configVars, roleVars, upgradeVars, rateVars
  <1>6. ASSUME NEW a \in Accounts, NEW call \in Amounts \cup {0}, NEW day \in Amounts \cup {0},
               SetWithdrawLimits(a, call, day)
        PROVE  TypeOK'
    <2>1. limits' \in [per_call: Nat, per_day: Nat]
      BY <1>6, <1>n DEF SetWithdrawLimits
    <2> QED
      BY <1>6, <2>1, CallTypes
      DEF SetWithdrawLimits, TypeOK, configVars, roleVars, upgradeVars, rateVars
  <1>7. ASSUME NEW a \in Accounts, NEW t \in Tokens, NEW amount \in Amounts, RescueTokens(a, t, amount)
        PROVE  TypeOK'
    <2>1. amount \in Nat /\ Today \in 0 .. MaxTime /\ Today \in Nat
      BY <1>n, TodayTypes DEF TypeOK
    <2>2. WithdrawnToday \in Nat
      BY DEF WithdrawnToday, TypeOK
    <2>3. held' \in [Tokens -> Nat]
      BY <1>7, <1>t, <2>1 DEF RescueTokens
    <2>4. withdrawn' \in [day: Nat, total: Nat]
      BY <1>7, <2>1, <2>2 DEF RescueTokens
    <2>5. rescued' \in [0 .. MaxTime -> Nat]
      <3>1. rescued \in [0 .. MaxTime -> Nat] /\ rescued[Today] \in Nat
        BY <2>1 DEF TypeOK
      <3> QED
        BY <1>7, <2>1, <3>1 DEF RescueTokens
    <2> QED
      BY <1>7, <2>3, <2>4, <2>5, CallTypes
      DEF RescueTokens, TypeOK, configVars, roleVars, upgradeVars, rateVars
  <1>8. ASSUME NEW asset \in Assets, NEW t \in Tokens, UpdateTokenContract(asset, t) PROVE TypeOK'
    <2>1. token' \in [Assets -> Tokens]
      BY <1>8, <1>t DEF UpdateTokenContract
    <2> QED
      BY <1>8, <2>1, CallTypes
      DEF UpdateTokenContract, TypeOK, configVars, roleVars, upgradeVars, rateVars
  <1>9. ASSUME NEW extra \in SUBSET Tokens, Decommission(extra) PROVE TypeOK'
    <2>1. config' \in Config /\ legacy' \in BOOLEAN
      BY <1>9, SetPausedTypes DEF Decommission
    <2>2. held' \in [Tokens -> Nat]
      BY <1>9, <1>t DEF Decommission
    <2> QED
      BY <1>9, <2>1, <2>2, CallTypes
      DEF Decommission, TypeOK, roleVars, upgradeVars, rateVars
  <1> QED
    BY <1>1, <1>2, <1>3, <1>4, <1>5, <1>6, <1>7, <1>8, <1>9 DEF Custody

LEMMA NextTypes == TypeOK /\ [Next]_vars => TypeOK'
  <1> SUFFICES ASSUME TypeOK, [Next]_vars PROVE TypeOK'
    OBVIOUS
  <1>1. CASE Tick
    BY <1>1, TimesAreNaturals
    DEF Tick, TypeOK, configVars, roleVars, upgradeVars, escrowVars, rateVars
  <1>2. CASE UNCHANGED vars
    BY <1>2 DEF vars, TypeOK, configVars, roleVars, upgradeVars, escrowVars, rateVars
  <1> QED
    BY <1>1, <1>2, GovernanceTypes, PaymentsTypes, CustodyTypes DEF Next

\* Every reachable state of ReceiverContract is well typed.
THEOREM TypeCorrect == Spec => []TypeOK
  BY InitTypes, NextTypes, PTL DEF Spec

-----------------------------------------------------------------------------
(* Authority.                                                              *)

LEMMA FormerIs ==
  ASSUME TypeOK
  PROVE  FormerAdminHasNoAuthority <=>
           \A a \in handedOver : a # config.admin /\ role[a] # "Admin"
  <1>1. \A a \in handedOver : has_admin_authority(a) <=> a = config.admin \/ role[a] = "Admin"
    BY AuthorityIs DEF TypeOK
  <1> QED
    BY <1>1 DEF FormerAdminHasNoAuthority

LEMMA FormerIsNext ==
  ASSUME TypeOK'
  PROVE  FormerAdminHasNoAuthority' <=>
           \A a \in handedOver' : a # config'.admin /\ role'[a] # "Admin"
  <1>1. \A a \in handedOver' : has_admin_authority(a)' <=> a = config'.admin \/ role'[a] = "Admin"
    BY AuthorityIsNext DEF TypeOK
  <1> QED
    BY <1>1 DEF FormerAdminHasNoAuthority

\* The steps that neither change the admin nor give a role.
NoAuthorityGiven ==
  /\ config'.admin = config.admin
  /\ handedOver' \subseteq handedOver
  /\ \A a \in Accounts : role'[a] \in {role[a], "None"}

LEMMA FormerKept ==
  ASSUME TypeOK, TypeOK', FormerAdminHasNoAuthority, NoAuthorityGiven
  PROVE  FormerAdminHasNoAuthority'
  <1>1. \A a \in handedOver : a \in Accounts /\ a # config.admin /\ role[a] # "Admin"
    BY FormerIs DEF TypeOK
  <1> QED
    BY <1>1, FormerIsNext DEF NoAuthorityGiven

LEMMA NoRoleChange ==
  ASSUME TypeOK, role' = role, handedOver' = handedOver, config'.admin = config.admin
  PROVE  NoAuthorityGiven
  BY DEF NoAuthorityGiven

LEMMA PaymentsGiveNone ==
  ASSUME TypeOK, Payments
  PROVE  NoAuthorityGiven
  <1>1. role' = role /\ handedOver' = handedOver
    BY DEF Payments, SetBlacklisted, Pause, Pay, PayWithMemo, PayBatch,
           SetPaymentRateLimit, Unpause, roleVars
  <1>2. config' = config \/ \E paused \in BOOLEAN : SetPaused(paused)
    BY DEF Payments, SetBlacklisted, Pause, Pay, PayWithMemo, PayBatch,
           SetPaymentRateLimit, Unpause, configVars
  <1>3. config'.admin = config.admin
    BY <1>2 DEF SetPaused, SaveConfig
  <1> QED
    BY <1>1, <1>3, NoRoleChange

LEMMA CustodyGivesNone ==
  ASSUME TypeOK, Custody
  PROVE  NoAuthorityGiven
  <1>1. role' = role /\ handedOver' = handedOver
    BY DEF Custody, DepositEscrow, ReleaseEscrow, RefundEscrow, RecordExpires, Stray,
           SetWithdrawLimits, RescueTokens, UpdateTokenContract, Decommission, roleVars
  <1>2. config'.admin = config.admin
    BY DEF Custody, DepositEscrow, ReleaseEscrow, RefundEscrow, RecordExpires, Stray,
           SetWithdrawLimits, RescueTokens, UpdateTokenContract, Decommission, SetPaused,
           SaveConfig, configVars
  <1> QED
    BY <1>1, <1>2, NoRoleChange

LEMMA FormerStep ==
  ASSUME TypeOK, TypeOK', FormerAdminHasNoAuthority, [Next]_vars
  PROVE  FormerAdminHasNoAuthority'
  <1>f. \A a \in handedOver : a # config.admin /\ role[a] # "Admin"
    BY FormerIs
  <1>1. ASSUME NEW new \in Accounts, TransferAdmin(new) PROVE FormerAdminHasNoAuthority'
    <2>1. /\ config'.admin = new /\ handedOver' = (handedOver \cup {config.admin}) \ {new}
          /\ role' = RolesAfterHandover(new)
      BY <1>1 DEF TransferAdmin, SaveConfig
    <2>2. config.admin \in Accounts /\ role \in [Accounts -> Roles] /\ handedOver \subseteq Accounts
      BY ConfigFields DEF TypeOK
    <2>3. \A a \in Accounts : a # new /\ a # config.admin => role'[a] = role[a]
      BY <2>1, <2>2 DEF RolesAfterHandover
    <2>4. config.admin # new => role'[config.admin] # "Admin"
      BY <2>1, <2>2 DEF RolesAfterHandover
    <2>5. \A a \in handedOver' : a # new /\ role'[a] # "Admin"
      BY <1>f, <2>1, <2>2, <2>3, <2>4
    <2> QED
      BY <2>1, <2>5, FormerIsNext
  <1>2. ASSUME NEW who \in SUBSET Accounts, NEW r \in Roles \ {"None"}, GrantRoles(who, r)
        PROVE  FormerAdminHasNoAuthority'
    <2>1. /\ role' = [a \in Accounts |-> IF a \in who THEN r ELSE role[a]]
          /\ config' = config
          /\ handedOver' = IF r = "Admin" THEN handedOver \ who ELSE handedOver
      BY <1>2 DEF GrantRoles, configVars
    <2>2. handedOver \subseteq Accounts
      BY DEF TypeOK
    <2>3. \A a \in handedOver' : a # config'.admin /\ role'[a] # "Admin"
      BY <1>f, <2>1, <2>2
    <2> QED
      BY <2>3, FormerIsNext
  <1>3. ASSUME NEW a \in Accounts, RevokeRole(a) \/ RenounceRole(a)
        PROVE  FormerAdminHasNoAuthority'
    <2>1. NoAuthorityGiven
      BY <1>3 DEF RevokeRole, RenounceRole, NoAuthorityGiven, TypeOK, configVars
    <2> QED
      BY <2>1, FormerKept
  <1>4. CASE \/ \E t \in Treasuries : ProposeTreasury(t) \/ UpdateTreasury(t)
             \/ ExecuteTreasuryMigration \/ CancelTreasuryMigration
             \/ \E s \in SUBSET Accounts : SetUpgradeSigners(s)
             \/ \E a \in Accounts, h \in Hashes : ProposeUpgrade(a, h) \/ ApproveUpgrade(a, h)
             \/ \E h \in Hashes : Upgrade(h)
    <2>1. role' = role /\ handedOver' = handedOver
      BY <1>4 DEF ProposeTreasury, UpdateTreasury, ExecuteTreasuryMigration,
                  CancelTreasuryMigration, SetUpgradeSigners, ProposeUpgrade, ApproveUpgrade,
                  Upgrade, roleVars
    <2>2. config'.admin = config.admin
      BY <1>4 DEF ProposeTreasury, UpdateTreasury, ExecuteTreasuryMigration,
                  CancelTreasuryMigration, SetUpgradeSigners, ProposeUpgrade, ApproveUpgrade,
                  Upgrade, SaveConfig, configVars
    <2> QED
      BY <2>1, <2>2, NoRoleChange, FormerKept
  <1>5. CASE Tick \/ UNCHANGED vars
    <2>1. NoAuthorityGiven
      BY <1>5 DEF Tick, vars, configVars, roleVars, NoAuthorityGiven
    <2> QED
      BY <2>1, FormerKept
  <1>6. CASE Payments \/ Custody
    BY <1>6, PaymentsGiveNone, CustodyGivesNone, FormerKept
  <1> QED
    BY <1>1, <1>2, <1>3, <1>4, <1>5, <1>6 DEF Next, Governance

\* Whoever handed the admin over has no admin authority until made Admin again
\* (lib.rs transfer_admin, grant_role, renounce_role, has_authority).
THEOREM HandoverTakesAuthority == Spec => []FormerAdminHasNoAuthority
  <1>1. Init => FormerAdminHasNoAuthority
    BY DEF Init, FormerAdminHasNoAuthority
  <1>2. TypeOK /\ TypeOK' /\ FormerAdminHasNoAuthority /\ [Next]_vars => FormerAdminHasNoAuthority'
    BY FormerStep
  <1> QED
    BY <1>1, <1>2, TypeCorrect, PTL DEF Spec

-----------------------------------------------------------------------------
(* Decommissioning.                                                        *)

LEMMA ClosedStep ==
  ASSUME TypeOK, StaysClosed, [Next]_vars
  PROVE  StaysClosed' /\ (gone => gone')
  <1>1. CASE Governance
    <2>1. gone' = gone
      BY <1>1 DEF Governance, TransferAdmin, RevokeRole, RenounceRole, GrantRoles, ProposeTreasury,
             UpdateTreasury, ExecuteTreasuryMigration, CancelTreasuryMigration, SetUpgradeSigners,
             ProposeUpgrade, ApproveUpgrade, Upgrade, configVars
    <2>2. config.paused => config'.paused
      BY <1>1 DEF Governance, TransferAdmin, RevokeRole, RenounceRole, GrantRoles, ProposeTreasury,
             UpdateTreasury, ExecuteTreasuryMigration, CancelTreasuryMigration, SetUpgradeSigners,
             ProposeUpgrade, ApproveUpgrade, Upgrade, configVars, SaveConfig
    <2>3. ~legacy => ~legacy'
      BY <1>1 DEF Governance, TransferAdmin, RevokeRole, RenounceRole, GrantRoles, ProposeTreasury,
             UpdateTreasury, ExecuteTreasuryMigration, CancelTreasuryMigration, SetUpgradeSigners,
             ProposeUpgrade, ApproveUpgrade, Upgrade, configVars, SaveConfig
    <2> QED
      BY <2>1, <2>2, <2>3 DEF StaysClosed
  <1>2. CASE Payments
    <2>1. gone' = gone /\ (gone => config' = config /\ legacy' = legacy)
      BY <1>2 DEF Payments, SetBlacklisted, Pause, Pay, PayWithMemo, PayBatch,
           SetPaymentRateLimit, Unpause, configVars,
             require_not_decommissioned
    <2> QED
      BY <2>1 DEF StaysClosed
  <1>3. CASE \E extra \in SUBSET Tokens : Decommission(extra)
    BY <1>3 DEF Decommission, SetPaused, SaveConfig, StaysClosed
  <1>4. CASE Custody /\ ~ \E extra \in SUBSET Tokens : Decommission(extra)
    <2>1. UNCHANGED <<gone, config, legacy>>
      BY <1>4 DEF Custody, DepositEscrow, ReleaseEscrow, RefundEscrow, RecordExpires, Stray,
             SetWithdrawLimits, RescueTokens, UpdateTokenContract, configVars
    <2> QED
      BY <2>1 DEF StaysClosed
  <1>5. CASE Tick \/ UNCHANGED vars
    BY <1>5 DEF Tick, vars, configVars, StaysClosed
  <1> QED
    BY <1>1, <1>2, <1>3, <1>4, <1>5 DEF Next

LEMMA GoneRoles ==
  ASSUME TypeOK, gone, [Next]_vars
  PROVE  \A a \in Accounts : role'[a] \in {role[a], "None"}
  <1>1. ASSUME NEW a \in Accounts, RevokeRole(a) \/ RenounceRole(a)
        PROVE  \A b \in Accounts : role'[b] \in {role[b], "None"}
    BY <1>1 DEF RevokeRole, RenounceRole, TypeOK
  <1>2. CASE /\ Governance
             /\ ~ \E a \in Accounts : RevokeRole(a) \/ RenounceRole(a)
    BY <1>2 DEF Governance, TransferAdmin, GrantRoles, ProposeTreasury, UpdateTreasury,
           ExecuteTreasuryMigration, CancelTreasuryMigration, SetUpgradeSigners, ProposeUpgrade,
           ApproveUpgrade, Upgrade, roleVars, require_not_decommissioned
  <1>3. CASE Payments \/ Custody
    BY <1>3, PaymentsGiveNone, CustodyGivesNone DEF NoAuthorityGiven
  <1>4. CASE Tick \/ UNCHANGED vars
    BY <1>4 DEF Tick, vars, roleVars
  <1> QED
    BY <1>1, <1>2, <1>3, <1>4 DEF Next

LEMMA GonePays ==
  ASSUME TypeOK, StaysClosed, gone, [Next]_vars
  PROVE  /\ paid' = paid
         /\ \A k \in Keys : escrow'[k] \in {escrow[k], NoEscrow}
  <1>1. CASE Governance \/ Tick \/ UNCHANGED vars
    <2>1. paid' = paid
      BY <1>1 DEF Governance, TransferAdmin, RevokeRole, RenounceRole, GrantRoles, ProposeTreasury,
             UpdateTreasury, ExecuteTreasuryMigration, CancelTreasuryMigration, SetUpgradeSigners,
             ProposeUpgrade, ApproveUpgrade, Upgrade, Tick, vars, rateVars
    <2>2. escrow' = escrow
      BY <1>1 DEF Governance, TransferAdmin, RevokeRole, RenounceRole, GrantRoles, ProposeTreasury,
             UpdateTreasury, ExecuteTreasuryMigration, CancelTreasuryMigration, SetUpgradeSigners,
             ProposeUpgrade, ApproveUpgrade, Upgrade, Tick, vars, escrowVars
    <2> QED
      BY <2>1, <2>2
  <1>2. CASE Payments
    BY <1>2 DEF Payments, SetBlacklisted, Pause, Pay, PayWithMemo, PayBatch,
           SetPaymentRateLimit, Unpause, rateVars,
           escrowVars, AcceptsFrom, StaysClosed
  <1>3. CASE Custody
    <2>1. paid' = paid
      BY <1>3 DEF Custody, DepositEscrow, ReleaseEscrow, RefundEscrow, RecordExpires, Stray,
             SetWithdrawLimits, RescueTokens, UpdateTokenContract, Decommission, rateVars
    <2>2. ASSUME NEW k \in Keys, PaysOut(k) \/ RecordExpires(k)
          PROVE  \A l \in Keys : escrow'[l] \in {escrow[l], NoEscrow}
      BY <2>2 DEF PaysOut, RecordExpires, TypeOK
    <2>3. ASSUME escrow' = escrow
          PROVE  \A l \in Keys : escrow'[l] \in {escrow[l], NoEscrow}
      BY <2>3
    <2> QED
      BY <1>3, <2>1, <2>2, <2>3 DEF Custody, DepositEscrow, ReleaseEscrow, RefundEscrow, Stray,
             SetWithdrawLimits, RescueTokens, UpdateTokenContract, Decommission, AcceptsFrom
  <1> QED
    BY <1>1, <1>2, <1>3 DEF Next

LEMMA InitClosed == Init => StaysClosed
  BY DEF Init, StaysClosed

\* A decommissioned contract stays paused and in the new layout.
THEOREM ClosedForGood == Spec => []StaysClosed
  <1>1. TypeOK /\ StaysClosed /\ [Next]_vars => StaysClosed'
    BY ClosedStep
  <1> QED
    BY InitClosed, <1>1, TypeCorrect, PTL DEF Spec

\* A decommissioned contract takes no payment and no deposit, is not resumed and
\* hands out no role (lib.rs decommission, require_not_decommissioned).
THEOREM Decommissioned == Spec => DecommissionIsFinal
  <1>1. TypeOK /\ StaysClosed /\ [Next]_vars
          => [gone => /\ gone' /\ config'.paused /\ paid' = paid
                      /\ \A k \in Keys : escrow'[k] \in {escrow[k], NoEscrow}
                      /\ \A a \in Accounts : role'[a] \in {role[a], "None"}]_vars
    <2> SUFFICES ASSUME TypeOK, StaysClosed, [Next]_vars, gone
                 PROVE  /\ gone' /\ config'.paused /\ paid' = paid
                        /\ \A k \in Keys : escrow'[k] \in {escrow[k], NoEscrow}
                        /\ \A a \in Accounts : role'[a] \in {role[a], "None"}
      OBVIOUS
    <2>1. gone' /\ config'.paused
      BY ClosedStep DEF StaysClosed
    <2> QED
      BY <2>1, GonePays, GoneRoles
  <1> QED
    BY <1>1, TypeCorrect, ClosedForGood, PTL DEF Spec, DecommissionIsFinal

-----------------------------------------------------------------------------
(* The daily limit.                                                        *)

LEMMA WithdrawnUntouched ==
  ASSUME Governance \/ Payments \/ UNCHANGED vars
         \/ (Custody /\ ~ \E a \in Accounts, t \in Tokens, amount \in Amounts :
                              RescueTokens(a, t, amount))
  PROVE  UNCHANGED <<withdrawn, rescued, now>>
  <1>1. CASE Governance
    BY <1>1 DEF Governance, TransferAdmin, RevokeRole, RenounceRole, GrantRoles, ProposeTreasury,
           UpdateTreasury, ExecuteTreasuryMigration, CancelTreasuryMigration, SetUpgradeSigners,
           ProposeUpgrade, ApproveUpgrade, Upgrade, escrowVars, Call
  <1>2. CASE Payments
    BY <1>2 DEF Payments, SetBlacklisted, Pause, Pay, PayWithMemo, PayBatch,
           SetPaymentRateLimit, Unpause, escrowVars, Call
  <1>3. CASE Custody /\ ~ \E a \in Accounts, t \in Tokens, amount \in Amounts :
                              RescueTokens(a, t, amount)
    BY <1>3 DEF Custody, DepositEscrow, ReleaseEscrow, RefundEscrow, RecordExpires, Stray,
           SetWithdrawLimits, UpdateTokenContract, Decommission, Call
  <1>4. CASE UNCHANGED vars
    BY <1>4 DEF vars, escrowVars
  <1> QED
    BY <1>1, <1>2, <1>3, <1>4

LEMMA RescueStep ==
  ASSUME TypeOK, DayBooked, NEW a \in Accounts, NEW t \in Tokens, NEW amount \in Amounts,
         RescueTokens(a, t, amount)
  PROVE  /\ DayBooked'
         /\ \A d \in 0 .. MaxTime : rescued'[d] # rescued[d] => d = Today
         /\ rescued'[Today] = WithdrawnToday + amount
  <1>1. Today \in 0 .. MaxTime /\ Today \in Nat /\ now' = now
    BY TodayTypes DEF TypeOK, RescueTokens, Call
  <1>2. Today' = Today
    BY <1>1 DEF Today
  <1>3. /\ withdrawn' = [day |-> Today, total |-> WithdrawnToday + amount]
        /\ rescued' = [rescued EXCEPT ![Today] = rescued[Today] + amount]
    BY DEF RescueTokens
  <1>4. rescued[Today] = WithdrawnToday /\ rescued \in [0 .. MaxTime -> Nat]
    BY DEF DayBooked, TypeOK
  <1>5. /\ rescued'[Today] = WithdrawnToday + amount
        /\ \A d \in 0 .. MaxTime : d # Today => rescued'[d] = rescued[d]
    BY <1>1, <1>3, <1>4
  <1>6. withdrawn'.day = Today /\ withdrawn'.total = WithdrawnToday + amount
    BY <1>3
  <1>7. WithdrawnToday' = WithdrawnToday + amount
    BY <1>2, <1>6 DEF WithdrawnToday
  <1>8. \A d \in 0 .. MaxTime : d > Today => rescued'[d] = 0
    BY <1>1, <1>5 DEF DayBooked
  <1>9. DayBooked'
    BY <1>1, <1>2, <1>5, <1>6, <1>7, <1>8 DEF DayBooked
  <1> QED
    BY <1>5, <1>9

LEMMA TickStep ==
  ASSUME TypeOK, DayBooked, Tick
  PROVE  DayBooked' /\ rescued' = rescued
  <1>1. now' = now + 1 /\ withdrawn' = withdrawn /\ rescued' = rescued /\ now' \in 0 .. MaxTime
    BY TimesAreNaturals DEF Tick, escrowVars, TypeOK
  <1>2. Today \in Nat /\ Today \in 0 .. MaxTime
    BY TodayTypes DEF TypeOK
  <1>3. Today' \in Nat /\ Today' >= Today /\ Today' \in 0 .. MaxTime
    <2>1. now \in Nat /\ DAY \in Nat \ {0} /\ now' \in Nat /\ MaxTime \in Nat
      BY <1>1, TimesAreNaturals DEF TypeOK
    <2>2. now' \div DAY \in 0 .. now' /\ (now + 1) \div DAY >= now \div DAY
      BY <2>1, DayTypes, DaysGrow
    <2> QED
      BY <1>1, <2>1, <2>2 DEF Today
  <1>4. withdrawn.day \in Nat /\ withdrawn.day <= Today
    BY DEF TypeOK, DayBooked
  <1>5. CASE Today' = Today
    BY <1>1, <1>5 DEF DayBooked, WithdrawnToday
  <1>6. CASE Today' > Today
    <2>1. withdrawn'.day # Today' /\ withdrawn'.day <= Today'
      BY <1>1, <1>2, <1>3, <1>4, <1>6
    <2>2. WithdrawnToday' = 0
      BY <2>1 DEF WithdrawnToday
    <2>3. rescued'[Today'] = 0
      BY <1>1, <1>3, <1>6 DEF DayBooked
    <2>4. \A d \in 0 .. MaxTime : d > Today' => rescued'[d] = 0
      BY <1>1, <1>2, <1>3 DEF DayBooked
    <2> QED
      BY <1>1, <2>1, <2>2, <2>3, <2>4 DEF DayBooked
  <1> QED
    BY <1>1, <1>2, <1>3, <1>5, <1>6

LEMMA BookedStep ==
  ASSUME TypeOK, DayBooked, [Next]_vars
  PROVE  DayBooked'
  <1>1. CASE UNCHANGED <<withdrawn, rescued, now>>
    BY <1>1 DEF DayBooked, WithdrawnToday, Today
  <1>2. CASE \E a \in Accounts, t \in Tokens, amount \in Amounts : RescueTokens(a, t, amount)
    BY <1>2, RescueStep
  <1> QED
    BY <1>1, <1>2, WithdrawnUntouched, TickStep DEF Next

LEMMA InitBooked == Init => DayBooked
  <1> SUFFICES ASSUME Init PROVE DayBooked
    OBVIOUS
  <1>1. Today \in 0 .. MaxTime /\ Today \in Nat
    BY InitTypes, TodayTypes DEF TypeOK
  <1>2. withdrawn.day = 0 /\ withdrawn.total = 0 /\ \A d \in 0 .. MaxTime : rescued[d] = 0
    BY DEF Init
  <1> QED
    BY <1>1, <1>2 DEF DayBooked, WithdrawnToday

\* What DailyWithdrawn says of today is what left today.
THEOREM DaysAreBooked == Spec => []DayBooked
  <1>1. TypeOK /\ DayBooked /\ [Next]_vars => DayBooked'
    BY BookedStep
  <1> QED
    BY InitBooked, <1>1, TypeCorrect, PTL DEF Spec

\* No sequence of rescues takes more out in a day than the daily limit in force
\* (lib.rs rescue_tokens).
THEOREM RescuesWithinLimit == Spec => RescuedWithinDailyLimit
  <1>1. TypeOK /\ DayBooked /\ [Next]_vars
          => [\A d \in 0 .. MaxTime :
                rescued'[d] # rescued[d] /\ limits.per_day # 0 => rescued'[d] <= limits.per_day]_vars
    <2> SUFFICES ASSUME TypeOK, DayBooked, [Next]_vars, NEW d \in 0 .. MaxTime,
                        rescued'[d] # rescued[d], limits.per_day # 0
                 PROVE  rescued'[d] <= limits.per_day
      OBVIOUS
    <2>1. PICK a \in Accounts, t \in Tokens, amount \in Amounts : RescueTokens(a, t, amount)
      BY WithdrawnUntouched, TickStep DEF Next
    <2>2. d = Today /\ rescued'[Today] = WithdrawnToday + amount
      BY <2>1, RescueStep
    <2>3. WithdrawnToday + amount <= limits.per_day
      BY <2>1 DEF RescueTokens
    <2> QED
      BY <2>2, <2>3
  <1> QED
    BY <1>1, TypeCorrect, DaysAreBooked, PTL DEF Spec, RescuedWithinDailyLimit

-----------------------------------------------------------------------------
(* The money in escrow.                                                    *)

\* Owed, of given records and token contracts.
OwedBy(records, tok, t) ==
  UNION {{k} \X (1 .. records[k].amount) :
           k \in {l \in Keys : records[l] # NoEscrow /\ tok[l[1]] = t}}

LEMMA OwedIs ==
  \A t : Owed(t) = OwedBy(escrow, token, t) /\ Owed(t)' = OwedBy(escrow', token', t)
  BY DEF Owed, OwedBy, Live, TokenFor

\* An amount, counted as the units of its key.
LEMMA AmountCounted ==
  ASSUME NEW k, NEW n \in Nat
  PROVE  IsFiniteSet({k} \X (1 .. n)) /\ Cardinality({k} \X (1 .. n)) = n
  <1>1. IsFiniteSet(1 .. n) /\ Cardinality(1 .. n) = n
    BY FS_Interval
  <1>2. IsFiniteSet({k}) /\ Cardinality({k}) = 1
    BY FS_Singleton
  <1>3. /\ IsFiniteSet({k} \X (1 .. n))
        /\ Cardinality({k} \X (1 .. n)) = Cardinality({k}) * Cardinality(1 .. n)
    BY <1>1, <1>2, FS_Product
  <1> QED
    BY <1>1, <1>2, <1>3

LEMMA DisjointSum ==
  ASSUME NEW S, NEW T, IsFiniteSet(S), IsFiniteSet(T), S \cap T = {}
  PROVE  /\ IsFiniteSet(S \cup T) /\ Cardinality(S \cup T) = Cardinality(S) + Cardinality(T)
         /\ Cardinality(S) \in Nat /\ Cardinality(T) \in Nat
  <1>1. Cardinality(S \cap T) = 0
    BY FS_EmptySet
  <1>2. /\ IsFiniteSet(S \cup T)
        /\ Cardinality(S \cup T) = Cardinality(S) + Cardinality(T) - Cardinality(S \cap T)
    BY FS_Union
  <1>3. Cardinality(S) \in Nat /\ Cardinality(T) \in Nat
    BY FS_CardinalityType
  <1> QED
    BY <1>1, <1>2, <1>3

\* Records that differ in one escrow, which e has not and f has.
OneMore(e, f, k) ==
  /\ e[k] = NoEscrow /\ f[k] # NoEscrow
  /\ \A l \in Keys : l # k => f[l] = e[l]

LEMMA OneMoreOwed ==
  ASSUME NEW e, NEW f, NEW tok, NEW t, NEW k \in Keys, OneMore(e, f, k)
  PROVE  /\ tok[k[1]] # t => OwedBy(f, tok, t) = OwedBy(e, tok, t)
         /\ tok[k[1]] = t =>
              /\ OwedBy(f, tok, t) = OwedBy(e, tok, t) \cup ({k} \X (1 .. f[k].amount))
              /\ OwedBy(e, tok, t) \cap ({k} \X (1 .. f[k].amount)) = {}
  <1> DEFINE E == {l \in Keys : e[l] # NoEscrow /\ tok[l[1]] = t}
             F == {l \in Keys : f[l] # NoEscrow /\ tok[l[1]] = t}
  <1>1. k \notin E /\ \A l \in E : f[l] = e[l]
    BY DEF OneMore
  <1>2. F = IF tok[k[1]] = t THEN E \cup {k} ELSE E
    BY DEF OneMore
  <1>3. OwedBy(e, tok, t) = UNION {{l} \X (1 .. f[l].amount) : l \in E}
    BY <1>1 DEF OwedBy
  <1>4. OwedBy(f, tok, t) = UNION {{l} \X (1 .. f[l].amount) : l \in F}
    BY DEF OwedBy
  <1> HIDE DEF E, F
  <1> QED
    BY <1>1, <1>2, <1>3, <1>4

LEMMA DepositCovered ==
  ASSUME TypeOK, CustodyInv, ~drained,
         NEW a \in Accounts, NEW amount \in Amounts, NEW k \in Keys, DepositEscrow(a, amount, k)
  PROVE  CustodyInv'
  <1>1. /\ escrow[k] = NoEscrow /\ token' = token /\ drained' = drained
        /\ held' = [held EXCEPT ![TokenFor(k)] = @ + amount]
        /\ escrow' = [escrow EXCEPT ![k] = [payer |-> a, amount |-> amount, at |-> now]]
    BY DEF DepositEscrow
  <1>2. amount \in Nat /\ amount # 0 /\ TokenFor(k) \in Tokens /\ held \in [Tokens -> Nat]
    BY InputsAreNaturals, TokenForTypes DEF TypeOK
  <1>3. /\ escrow'[k].amount = amount /\ escrow'[k] # NoEscrow
        /\ \A l \in Keys : l # k => escrow'[l] = escrow[l]
    BY <1>1, <1>2 DEF TypeOK, NoEscrow
  <1>4. SUFFICES ASSUME NEW t \in Tokens
                 PROVE  IsFiniteSet(Owed(t)') /\ held'[t] >= Cardinality(Owed(t)')
    BY <1>1 DEF CustodyInv, EscrowsCovered
  <1>5. IsFiniteSet(Owed(t)) /\ held[t] >= Cardinality(Owed(t))
    BY DEF CustodyInv, EscrowsCovered
  <1>6. Owed(t) = OwedBy(escrow, token, t) /\ Owed(t)' = OwedBy(escrow', token, t)
    BY <1>1, OwedIs
  <1>9. /\ TokenFor(k) # t => Owed(t)' = Owed(t)
        /\ TokenFor(k) = t =>
             /\ Owed(t)' = Owed(t) \cup ({k} \X (1 .. amount))
             /\ Owed(t) \cap ({k} \X (1 .. amount)) = {}
    <2>1. /\ token[k[1]] # t => OwedBy(escrow', token, t) = OwedBy(escrow, token, t)
          /\ token[k[1]] = t =>
               /\ OwedBy(escrow', token, t)
                    = OwedBy(escrow, token, t) \cup ({k} \X (1 .. escrow'[k].amount))
               /\ OwedBy(escrow, token, t) \cap ({k} \X (1 .. escrow'[k].amount)) = {}
      <3>1. OneMore(escrow, escrow', k)
        BY <1>1, <1>3 DEF OneMore
      <3> QED
        BY <3>1, OneMoreOwed
    <2>2. TokenFor(k) = token[k[1]]
      BY DEF TokenFor
    <2> QED
      BY <1>3, <1>6, <2>1, <2>2
  <1>7. CASE TokenFor(k) # t
    <2>1. Owed(t)' = Owed(t)
      BY <1>7, <1>9
    <2>2. held'[t] = held[t]
      BY <1>1, <1>2, <1>7
    <2> QED
      BY <1>5, <2>1, <2>2
  <1>8. CASE TokenFor(k) = t
    <2>1. /\ Owed(t)' = Owed(t) \cup ({k} \X (1 .. amount))
          /\ Owed(t) \cap ({k} \X (1 .. amount)) = {}
      BY <1>8, <1>9
    <2>2. IsFiniteSet({k} \X (1 .. amount)) /\ Cardinality({k} \X (1 .. amount)) = amount
      BY <1>2, AmountCounted
    <2>3. /\ IsFiniteSet(Owed(t)') /\ Cardinality(Owed(t)) \in Nat
          /\ Cardinality(Owed(t)') = Cardinality(Owed(t)) + amount
      BY <1>5, <2>1, <2>2, DisjointSum
    <2>4. held'[t] = held[t] + amount /\ held[t] \in Nat
      BY <1>1, <1>2, <1>8
    <2> QED
      BY <1>2, <1>5, <2>3, <2>4
  <1> QED
    BY <1>7, <1>8

LEMMA ClearedOwed ==
  ASSUME NEW k \in Keys, NEW t, OneMore(escrow', escrow, k)
  PROVE  /\ token[k[1]] # t => OwedBy(escrow, token, t) = OwedBy(escrow', token, t)
         /\ token[k[1]] = t =>
              /\ OwedBy(escrow, token, t)
                   = OwedBy(escrow', token, t) \cup ({k} \X (1 .. escrow[k].amount))
              /\ OwedBy(escrow', token, t) \cap ({k} \X (1 .. escrow[k].amount)) = {}
  BY OneMoreOwed

\* Paying an escrow out takes its amount from both; a record that dies only from
\* what is owed.
LEMMA ClearedCovered ==
  ASSUME TypeOK, CustodyInv, NEW k \in Keys, k \in Live,
         UNCHANGED <<token, drained>>,
         escrow' = [escrow EXCEPT ![k] = NoEscrow],
         \/ held' = held
         \/ /\ held' = [held EXCEPT ![TokenFor(k)] = @ - escrow[k].amount]
            /\ held[TokenFor(k)] >= escrow[k].amount
  PROVE  CustodyInv'
  <1>0. SUFFICES ASSUME ~drained, NEW t \in Tokens
                 PROVE  IsFiniteSet(Owed(t)') /\ held'[t] >= Cardinality(Owed(t)')
    BY DEF CustodyInv, EscrowsCovered
  <1>1. /\ escrow'[k] = NoEscrow /\ escrow[k] # NoEscrow
        /\ \A l \in Keys : l # k => escrow[l] = escrow'[l]
    BY DEF TypeOK, Live
  <1>2. escrow[k].amount \in Nat /\ TokenFor(k) \in Tokens /\ held \in [Tokens -> Nat]
    BY TokenForTypes DEF TypeOK, Escrow
  <1>3. IsFiniteSet(Owed(t)) /\ held[t] >= Cardinality(Owed(t))
    BY <1>0 DEF CustodyInv, EscrowsCovered
  <1>4. Owed(t) = OwedBy(escrow, token, t) /\ Owed(t)' = OwedBy(escrow', token, t)
    BY OwedIs
  <1>7. /\ TokenFor(k) # t => Owed(t) = Owed(t)'
        /\ TokenFor(k) = t =>
             /\ Owed(t) = Owed(t)' \cup ({k} \X (1 .. escrow[k].amount))
             /\ Owed(t)' \cap ({k} \X (1 .. escrow[k].amount)) = {}
    <2>1. /\ token[k[1]] # t => OwedBy(escrow, token, t) = OwedBy(escrow', token, t)
          /\ token[k[1]] = t =>
               /\ OwedBy(escrow, token, t)
                    = OwedBy(escrow', token, t) \cup ({k} \X (1 .. escrow[k].amount))
               /\ OwedBy(escrow', token, t) \cap ({k} \X (1 .. escrow[k].amount)) = {}
      <3>1. OneMore(escrow', escrow, k)
        BY <1>1 DEF OneMore
      <3> QED
        BY <3>1, ClearedOwed
    <2>2. TokenFor(k) = token[k[1]]
      BY DEF TokenFor
    <2> QED
      BY <1>4, <2>1, <2>2
  <1>5. CASE TokenFor(k) # t
    <2>1. Owed(t)' = Owed(t)
      BY <1>5, <1>7
    <2>2. held'[t] = held[t]
      BY <1>2, <1>5
    <2> QED
      BY <1>3, <2>1, <2>2
  <1>6. CASE TokenFor(k) = t
    <2> DEFINE U == {k} \X (1 .. escrow[k].amount)
    <2>1. Owed(t) = Owed(t)' \cup U /\ Owed(t)' \cap U = {}
      BY <1>6, <1>7
    <2>2. IsFiniteSet(U) /\ Cardinality(U) = escrow[k].amount
      BY <1>2, AmountCounted
    <2>3. Owed(t)' \in SUBSET Owed(t)
      BY <2>1
    <2>4. IsFiniteSet(Owed(t)')
      BY <1>3, <2>3, FS_Subset
    <2> HIDE DEF U
    <2>5. /\ Cardinality(Owed(t)) = Cardinality(Owed(t)') + escrow[k].amount
          /\ Cardinality(Owed(t)') \in Nat
      BY <2>1, <2>2, <2>4, DisjointSum
    <2>6. held'[t] = held[t] \/ held'[t] = held[t] - escrow[k].amount
      BY <1>2, <1>6
    <2>7. held[t] \in Nat
      BY <1>2
    <2> QED
      BY <1>2, <1>3, <2>4, <2>5, <2>6, <2>7
  <1> QED
    BY <1>5, <1>6

\* Nothing but the balances changed, and they did not sink.
LEMMA CustodyKept ==
  ASSUME TypeOK, CustodyInv, UNCHANGED <<token, escrow>>, drained' = drained,
         \A t \in Tokens : held'[t] \in Nat /\ held'[t] >= held[t]
  PROVE  CustodyInv'
  <1>1. \A t \in Tokens : Owed(t)' = Owed(t)
    BY DEF Owed, Live, TokenFor
  <1>2. SUFFICES ASSUME ~drained, NEW t \in Tokens
                 PROVE  IsFiniteSet(Owed(t)') /\ held'[t] >= Cardinality(Owed(t)')
    BY DEF CustodyInv, EscrowsCovered
  <1>3. IsFiniteSet(Owed(t)) /\ held[t] >= Cardinality(Owed(t))
    BY <1>2 DEF CustodyInv, EscrowsCovered
  <1>4. Cardinality(Owed(t)) \in Nat /\ held[t] \in Nat
    BY <1>3, FS_CardinalityType DEF TypeOK
  <1> QED
    BY <1>1, <1>3, <1>4

LEMMA CustodyStep ==
  ASSUME TypeOK, CustodyInv, [Next]_vars
  PROVE  CustodyInv'
  <1>t. held \in [Tokens -> Nat] /\ (\A t \in Tokens : held[t] \in Nat /\ held[t] >= held[t])
    BY DEF TypeOK
  <1>1. CASE drained'
    BY <1>1 DEF CustodyInv, EscrowsCovered
  <1>2. ASSUME drained' = drained, UNCHANGED <<token, escrow, held>> PROVE CustodyInv'
    BY <1>2, <1>t, CustodyKept
  <1>3. CASE Governance
    <2>1. UNCHANGED escrowVars
      BY <1>3 DEF Governance, TransferAdmin, RevokeRole, RenounceRole, GrantRoles,
             ProposeTreasury, UpdateTreasury, ExecuteTreasuryMigration, CancelTreasuryMigration,
             SetUpgradeSigners, ProposeUpgrade, ApproveUpgrade, Upgrade
    <2> QED
      BY <1>2, <2>1 DEF escrowVars
  <1>4. CASE Payments
    <2>1. UNCHANGED escrowVars
      BY <1>4 DEF Payments, SetBlacklisted, Pause, Pay, PayWithMemo, PayBatch,
           SetPaymentRateLimit, Unpause
    <2> QED
      BY <1>2, <2>1 DEF escrowVars
  <1>5. CASE Tick \/ UNCHANGED vars
    <2>1. UNCHANGED escrowVars
      BY <1>5 DEF Tick, vars
    <2> QED
      BY <1>2, <2>1 DEF escrowVars
  <1>6. CASE Custody /\ ~drained'
    <2>1. ASSUME NEW a \in Accounts, NEW amount \in Amounts, NEW k \in Keys,
                 DepositEscrow(a, amount, k)
          PROVE  CustodyInv'
      <3>1. ~drained
        BY <1>6, <2>1 DEF DepositEscrow
      <3> QED
        BY <2>1, <3>1, DepositCovered
    <2>2. ASSUME NEW a \in Accounts, NEW k \in Keys, ReleaseEscrow(a, k) \/ RefundEscrow(a, k)
          PROVE  CustodyInv'
      BY <2>2, ClearedCovered DEF ReleaseEscrow, RefundEscrow, PaysOut
    <2>3. ASSUME NEW k \in Keys, RecordExpires(k) PROVE CustodyInv'
      BY <2>3, ClearedCovered DEF RecordExpires
    <2>4. ASSUME NEW t \in Tokens, NEW amount \in Amounts, Stray(t, amount) PROVE CustodyInv'
      <3>1. amount \in Nat
        BY InputsAreNaturals
      <3>2. \A s \in Tokens : held'[s] \in Nat /\ held'[s] >= held[s]
        BY <1>t, <2>4, <3>1 DEF Stray
      <3> QED
        BY <2>4, <3>2, CustodyKept DEF Stray
    <2>5. ASSUME NEW a \in Accounts, NEW call \in Amounts \cup {0}, NEW day \in Amounts \cup {0},
                 SetWithdrawLimits(a, call, day)
          PROVE  CustodyInv'
      BY <1>2, <2>5 DEF SetWithdrawLimits
    <2> QED
      BY <1>6, <2>1, <2>2, <2>3, <2>4, <2>5
      DEF Custody, RescueTokens, UpdateTokenContract, Decommission
  <1> QED
    BY <1>1, <1>3, <1>4, <1>5, <1>6 DEF Next

LEMMA InitCustody == Init => CustodyInv
  <1> SUFFICES ASSUME Init, NEW t \in Tokens
               PROVE  IsFiniteSet(Owed(t)) /\ held[t] >= Cardinality(Owed(t))
    BY DEF CustodyInv, EscrowsCovered
  <1>1. Live = {}
    BY DEF Init, Live
  <1>2. Owed(t) = {}
    BY <1>1 DEF Owed
  <1>3. held[t] = 0
    BY DEF Init
  <1> QED
    BY <1>2, <1>3, FS_EmptySet

\* The escrows are finitely many units and all of them are in the contract, until
\* rescue_tokens, decommission or a token switch is used.
THEOREM CustodyInvariant == Spec => []CustodyInv
  <1>1. TypeOK /\ CustodyInv /\ [Next]_vars => CustodyInv'
    BY CustodyStep
  <1> QED
    BY InitCustody, <1>1, TypeCorrect, PTL DEF Spec

\* The contract can always pay what it holds in escrow, as long as rescue_tokens,
\* decommission and the update of a token contract were not used (lib.rs 1967).
THEOREM EscrowsStayCovered == Spec => []EscrowsCovered
  <1>1. CustodyInv => EscrowsCovered
    BY DEF CustodyInv
  <1> QED
    BY <1>1, CustodyInvariant, PTL

-----------------------------------------------------------------------------
(* The payment rate limit.                                                 *)

\* The payments of a payer in the window that begins at ledger t.
InWindow(payments, t, w) == {p \in payments : t <= p.ledger /\ p.ledger < t + w}

\* A step after which every payer has the same counted payments.
LEMMA RateKept ==
  ASSUME TypeOK, RateInv, UNCHANGED <<rate, recent, rateChanged>>,
         \A a \in Accounts : Counted(a)' = Counted(a),
         tries' \in Nat, tries' >= tries, now' \in Nat, now' >= now
  PROVE  RateInv'
  <1>1. now \in Nat /\ tries \in Nat /\ rate.window \in Nat /\ rate.max \in Nat
    BY TimesAreNaturals DEF TypeOK
  <1>2. SUFFICES ASSUME ~rateChanged
                 PROVE  CountedPaymentsWithinRate' /\ \A a \in Accounts : WindowKept(a)'
    BY DEF RateInv
  <1>3. CountedPaymentsWithinRate'
    BY <1>2 DEF RateInv, CountedPaymentsWithinRate
  <1>4. ASSUME NEW a \in Accounts PROVE WindowKept(a)'
    <2>1. WindowKept(a) /\ Counted(a)' = Counted(a)
      BY <1>2 DEF RateInv
    <2>2. \A p \in Counted(a) : p.call \in Nat /\ p.ledger \in Nat
      BY DEF TypeOK, Payment, Counted
    <2>3. \A p \in Counted(a) : p.call < tries' /\ p.ledger <= now'
                              /\ (now' - p.ledger < rate.window => now - p.ledger < rate.window)
      BY <1>1, <2>1, <2>2 DEF WindowKept
    <2> QED
      BY <1>1, <2>1, <2>3 DEF WindowKept
  <1> QED
    BY <1>3, <1>4

\* A payment that is not counted leaves the counted ones.
LEMMA UncountedKeepsCounted ==
  ASSUME TypeOK, NEW a \in Accounts, Paid(a, FALSE), NEW b \in Accounts
  PROVE  Counted(b)' = Counted(b)
  <1> DEFINE payment == [call |-> tries, ledger |-> now, counted |-> FALSE]
  <1>1. ~payment.counted
    OBVIOUS
  <1>2. paid' = [paid EXCEPT ![a] = @ \cup {payment}] /\ paid \in [Accounts -> SUBSET Payment]
    BY DEF Paid, TypeOK
  <1> HIDE DEF payment
  <1> QED
    BY <1>1, <1>2 DEF Counted

\* One that is counted is added to them.
LEMMA CountedGains ==
  ASSUME TypeOK, NEW a \in Accounts, Paid(a, TRUE)
  PROVE  /\ Counted(a)' = Counted(a) \cup {[call |-> tries, ledger |-> now, counted |-> TRUE]}
         /\ \A b \in Accounts : b # a => Counted(b)' = Counted(b)
  <1> DEFINE payment == [call |-> tries, ledger |-> now, counted |-> TRUE]
  <1>1. payment.counted
    OBVIOUS
  <1>2. paid' = [paid EXCEPT ![a] = @ \cup {payment}] /\ paid \in [Accounts -> SUBSET Payment]
    BY DEF Paid, TypeOK
  <1>3. Counted(a)' = Counted(a) \cup {payment}
    <2> HIDE DEF payment
    <2> QED
      BY <1>1, <1>2 DEF Counted
  <1>4. \A b \in Accounts : b # a => Counted(b)' = Counted(b)
    <2> HIDE DEF payment
    <2> QED
      BY <1>2 DEF Counted
  <1> QED
    BY <1>3, <1>4

LEMMA PayKeepsRate ==
  ASSUME TypeOK, RateInv, NEW a \in Accounts, Pay(a)
  PROVE  RateInv'
  <1> DEFINE payment == [call |-> tries, ledger |-> now, counted |-> TRUE]
             kept == Active(recent[a])
  <1>1. /\ UNCHANGED <<rate, rateChanged, now>> /\ tries' = tries + 1
        /\ Cardinality(kept) < rate.max
        /\ recent' = [recent EXCEPT ![a] = kept \cup {payment}]
    BY DEF Pay, Call
  <1>2. /\ now \in Nat /\ tries \in Nat /\ rate.window \in Nat /\ rate.max \in Nat
        /\ now \in 0 .. MaxTime /\ MaxTime \in Nat
        /\ recent \in [Accounts -> SUBSET Payment] /\ paid \in [Accounts -> SUBSET Payment]
        /\ \A b \in Accounts : Counted(b) \subseteq paid[b]
    BY TimesAreNaturals DEF TypeOK, Counted
  <1>3. /\ \A b \in Accounts : b # a => recent'[b] = recent[b] /\ Counted(b)' = Counted(b)
        /\ recent'[a] = kept \cup {payment} /\ Counted(a)' = Counted(a) \cup {payment}
    <2>1. Paid(a, TRUE)
      BY DEF Pay
    <2> QED
      BY <1>1, <1>2, <2>1, CountedGains
  <1>4. SUFFICES ASSUME ~rateChanged PROVE CountedPaymentsWithinRate' /\ \A b \in Accounts : WindowKept(b)'
    BY <1>1 DEF RateInv
  <1>5. \A b \in Accounts : WindowKept(b) /\ \A p \in Counted(b) : p.call \in Nat /\ p.ledger \in Nat
    BY <1>2, <1>4 DEF RateInv, Payment
  <1>6. kept = {p \in Counted(a) : now - p.ledger < rate.window}
    BY <1>5 DEF WindowKept, Active
  <1>7. payment.call = tries /\ payment.ledger = now /\ payment \notin Counted(a)
    BY <1>2, <1>5 DEF WindowKept
  <1> HIDE DEF payment
  <1>8. ASSUME NEW b \in Accounts, b # a PROVE WindowKept(b)'
    <2>1. WindowKept(b) /\ \A p \in Counted(b) : p.call \in Nat
      BY <1>5
    <2>2. \A p \in Counted(b) : p.call < tries'
      BY <1>1, <1>2, <2>1 DEF WindowKept
    <2> QED
      BY <1>1, <1>3, <1>8, <2>1, <2>2 DEF WindowKept
  <1>9. WindowKept(a)'
    <2>1. kept \cup {payment} \subseteq Counted(a) \cup {payment}
      BY <1>6
    <2>2. IsFiniteSet(Counted(a) \cup {payment})
      BY <1>5, FS_AddElement DEF WindowKept
    <2>3. \A p \in Counted(a) \cup {payment} : p.call < tries + 1 /\ p.ledger <= now
      BY <1>2, <1>5, <1>7 DEF WindowKept
    <2>4. \A p \in Counted(a) \cup {payment} :
             now - p.ledger < rate.window => p \in kept \cup {payment}
      BY <1>6
    <2> HIDE DEF kept
    <2> QED
      BY <1>1, <1>3, <2>1, <2>2, <2>3, <2>4 DEF WindowKept
  <1>10. ASSUME NEW b \in Accounts, NEW t \in 0 .. MaxTime
         PROVE  Cardinality(InWindow(Counted(b)', t, rate.window)) <= rate.max
    <2>0. t \in Nat
      BY <1>2
    <2>1. /\ IsFiniteSet(InWindow(Counted(b), t, rate.window))
          /\ Cardinality(InWindow(Counted(b), t, rate.window)) <= rate.max
      <3>1. InWindow(Counted(b), t, rate.window) \in SUBSET Counted(b) /\ IsFiniteSet(Counted(b))
        BY <1>5 DEF InWindow, WindowKept
      <3>2. Cardinality(InWindow(Counted(b), t, rate.window)) <= rate.max
        BY <1>4 DEF RateInv, CountedPaymentsWithinRate, InWindow
      <3> QED
        BY <3>1, <3>2, FS_Subset
    <2>2. CASE b # a
      BY <1>3, <2>1, <2>2
    <2>3. CASE b = a /\ ~(t <= now /\ now < t + rate.window)
      <3>1. InWindow(Counted(a)', t, rate.window) = InWindow(Counted(a), t, rate.window)
        BY <1>3, <1>7, <2>3 DEF InWindow
      <3> QED
        BY <2>1, <2>3, <3>1
    <2>4. CASE b = a /\ t <= now /\ now < t + rate.window
      <3>1. InWindow(Counted(a)', t, rate.window) = InWindow(Counted(a), t, rate.window) \cup {payment}
        BY <1>3, <1>7, <2>4 DEF InWindow
      <3>2. InWindow(Counted(a), t, rate.window) \in SUBSET kept
        BY <1>2, <1>5, <1>6, <2>0, <2>4 DEF InWindow
      <3>3. IsFiniteSet(kept) /\ Cardinality(kept) \in Nat
        <4>1. kept \in SUBSET Counted(a) /\ IsFiniteSet(Counted(a))
          BY <1>5, <1>6 DEF WindowKept
        <4> HIDE DEF kept
        <4> QED
          BY <4>1, FS_Subset, FS_CardinalityType
      <3> HIDE DEF kept
      <3>4. /\ Cardinality(InWindow(Counted(a), t, rate.window)) <= Cardinality(kept)
            /\ Cardinality(InWindow(Counted(a), t, rate.window)) \in Nat
        BY <3>2, <3>3, FS_Subset, FS_CardinalityType
      <3>5. Cardinality(InWindow(Counted(a), t, rate.window) \cup {payment})
              \in {Cardinality(InWindow(Counted(a), t, rate.window)),
                   Cardinality(InWindow(Counted(a), t, rate.window)) + 1}
        BY <2>1, <2>4, FS_AddElement
      <3>6. Cardinality(InWindow(Counted(a), t, rate.window)) + 1 <= rate.max
        <4>1. Cardinality(kept) < rate.max
          BY <1>1
        <4> QED
          BY <1>2, <3>3, <3>4, <4>1
      <3>7. Cardinality(InWindow(Counted(a), t, rate.window) \cup {payment}) <= rate.max
        BY <1>2, <3>4, <3>5, <3>6
      <3> QED
        BY <2>4, <3>1, <3>7
    <2> QED
      BY <2>2, <2>3, <2>4
  <1>11. CountedPaymentsWithinRate'
    BY <1>1, <1>10 DEF CountedPaymentsWithinRate, InWindow
  <1> QED
    BY <1>8, <1>9, <1>11

LEMMA RateStep ==
  ASSUME TypeOK, TypeOK', RateInv, [Next]_vars
  PROVE  RateInv'
  <1>1. tries \in Nat /\ tries' \in Nat /\ now \in Nat /\ now' \in Nat
    BY TimesAreNaturals DEF TypeOK
  <1>2. ASSUME NEW group, Call(group) PROVE tries' >= tries /\ now' >= now
    BY <1>1, <1>2 DEF Call
  <1>3. CASE Governance
    <2>1. UNCHANGED rateVars /\ \E group : Call(group)
      BY <1>3 DEF Governance, TransferAdmin, RevokeRole, RenounceRole, GrantRoles,
             ProposeTreasury, UpdateTreasury, ExecuteTreasuryMigration, CancelTreasuryMigration,
             SetUpgradeSigners, ProposeUpgrade, ApproveUpgrade, Upgrade
    <2> QED
      BY <1>1, <1>2, <2>1, RateKept DEF rateVars, Counted
  <1>4. CASE Custody
    <2>1. UNCHANGED rateVars
      BY <1>4 DEF Custody, DepositEscrow, ReleaseEscrow, RefundEscrow, RecordExpires,
             Stray, SetWithdrawLimits, RescueTokens, UpdateTokenContract, Decommission
    <2>2. Call("escrow") \/ (now' = now /\ tries' = tries)
      BY <1>4 DEF Custody, DepositEscrow, ReleaseEscrow, RefundEscrow, RecordExpires,
             Stray, SetWithdrawLimits, RescueTokens, UpdateTokenContract, Decommission
    <2>3. tries' >= tries /\ now' >= now
      BY <1>1, <1>2, <2>2
    <2> QED
      BY <1>1, <2>1, <2>3, RateKept DEF rateVars, Counted
  <1>5. CASE Tick \/ UNCHANGED vars
    <2>1. UNCHANGED rateVars /\ tries' >= tries /\ now' >= now
      BY <1>1, <1>5 DEF Tick, vars
    <2> QED
      BY <1>1, <2>1, RateKept DEF rateVars, Counted
  <1>6. ASSUME NEW a \in Accounts, Pay(a) PROVE RateInv'
    BY <1>6, PayKeepsRate
  <1>7. ASSUME NEW a \in Accounts, NEW r \in Rates, SetPaymentRateLimit(a, r) PROVE RateInv'
    BY <1>7 DEF SetPaymentRateLimit, RateInv
  <1>8. CASE /\ Payments
             /\ ~ \E a \in Accounts : Pay(a) \/ PayWithMemo(a) \/ PayBatch(a)
             /\ ~ \E a \in Accounts, r \in Rates : SetPaymentRateLimit(a, r)
    <2>1. UNCHANGED rateVars /\ \E group : Call(group)
      BY <1>8 DEF Payments, SetBlacklisted, Pause, Unpause
    <2> QED
      BY <1>1, <1>2, <2>1, RateKept DEF rateVars, Counted
  <1>9. ASSUME NEW a \in Accounts, PayWithMemo(a) \/ PayBatch(a) PROVE RateInv'
    <2>1. Paid(a, FALSE) /\ UNCHANGED <<rate, recent, rateChanged>> /\ Call("payments")
      BY <1>9 DEF PayWithMemo, PayBatch
    <2>2. \A b \in Accounts : Counted(b)' = Counted(b)
      BY <2>1, UncountedKeepsCounted
    <2> QED
      BY <1>1, <1>2, <2>1, <2>2, RateKept
  <1> QED
    BY <1>3, <1>4, <1>5, <1>6, <1>7, <1>8, <1>9 DEF Next, Payments

LEMMA InitRate == Init => RateInv
  <1> SUFFICES ASSUME Init PROVE RateInv
    OBVIOUS
  <1>1. \A a \in Accounts : recent[a] = {} /\ Counted(a) = {}
    BY DEF Init, Counted
  <1>2. \A a \in Accounts : WindowKept(a)
    BY <1>1, FS_EmptySet DEF WindowKept
  <1>3. rate.max \in Nat
    BY InitTypes DEF TypeOK
  <1>4. ASSUME NEW a \in Accounts, NEW t
        PROVE  Cardinality({p \in Counted(a) : t <= p.ledger /\ p.ledger < t + rate.window}) = 0
    <2>1. {p \in Counted(a) : t <= p.ledger /\ p.ledger < t + rate.window} = {}
      BY <1>1
    <2> QED
      BY <2>1, FS_EmptySet
  <1> QED
    BY <1>2, <1>3, <1>4 DEF RateInv, CountedPaymentsWithinRate

\* What PaymentRateLimit keeps of a payer's counted payments is all the window covers.
THEOREM RateInvariant == Spec => []RateInv
  <1>1. TypeOK /\ TypeOK' /\ RateInv /\ [Next]_vars => RateInv'
    BY RateStep
  <1> QED
    BY InitRate, <1>1, TypeCorrect, PTL DEF Spec

\* No window of ledgers, wherever it begins, sees more than max_payments payments of
\* a payer by pay_usdc and pay_xlm while the policy stays the same.  The payments with
\* a memo and in batches, which lib.rs 1547 does not except, are in the model and not
\* in the count: of them the code keeps no window.
THEOREM CountedRateHolds == Spec => []CountedPaymentsWithinRate
  <1>1. RateInv => CountedPaymentsWithinRate
    BY DEF RateInv, CountedPaymentsWithinRate
  <1> QED
    BY <1>1, RateInvariant, PTL

-----------------------------------------------------------------------------
\* The invariant, all its parts together: types, authority, closing, custody, the
\* book of the day and the payment window.
THEOREM ContractInvariant == Spec => []ContractInv
  <1>1. /\ TypeOK /\ FormerAdminHasNoAuthority /\ StaysClosed
        /\ CustodyInv /\ DayBooked /\ RateInv
        => ContractInv
    BY DEF ContractInv
  <1> QED
    BY <1>1, TypeCorrect, HandoverTakesAuthority, ClosedForGood, CustodyInvariant, DaysAreBooked,
       RateInvariant, PTL

=============================================================================
