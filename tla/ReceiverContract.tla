--------------------------- MODULE ReceiverContract ---------------------------
(***************************************************************************)
(* The Soroban contract that takes the payments (stellar_card-contract):   *)
(* its administration, its payment rate limit and the money it holds in    *)
(* escrow.                                                                 *)
(*                                                                         *)
(* A call is atomic: an Err, a panic or a failed transfer rolls the whole  *)
(* call back, and the host lets no contract be re-entered, so an           *)
(* entrypoint is one action, whose guards are everything that makes it     *)
(* fail.  The source holds several versions of some entrypoints; this is   *)
(* the later one, with the packed Config.  The per-key layout an instance  *)
(* had before an upgrade is kept until the first save_config.              *)
(***************************************************************************)
EXTENDS Naturals, FiniteSets

CONSTANTS
  Accounts,        \* the addresses that call
  Deployer,        \* the admin given to init
  Treasuries,
  Assets,          \* Asset: Usdc, Xlm
  Tokens,          \* token contracts
  FirstToken,      \* the token of each asset given to init
  EscrowOrders,    \* order ids of escrows
  Hashes,          \* WASM hashes
  NoOne,           \* no account, no hash
  ESCROW_TIMELOCK, \* ESCROW_TIMELOCK_SECS, in ticks; a record lives for twice that
  TIMELOCK,        \* TIMELOCK_SECONDS, in ticks
  DAY,             \* 86400 seconds, in ticks
  DefaultRate,     \* DEFAULT_PAYMENT_LIMIT, DEFAULT_PAYMENT_WINDOW
  Amounts, Rates,  \* bounds: the amounts and the rate limits tried
  MaxTime,         \* bound: ticks explored
  Areas            \* bound: which groups of entrypoints a behaviour calls, how often

ASSUME DeployerIsAnAccount == Deployer \in Accounts
ASSUME FirstTokenIsAToken == FirstToken \in [Assets -> Tokens]
ASSUME NoOneIsNoOne == NoOne \notin Accounts \cup Hashes
ASSUME TimesAreNaturals ==
  /\ {ESCROW_TIMELOCK, TIMELOCK, DAY, MaxTime} \subseteq Nat /\ DAY > 0
ASSUME InputsAreNaturals ==
  /\ Amounts \subseteq Nat \ {0}
  /\ Rates \cup {DefaultRate} \subseteq [max: Nat \ {0}, window: Nat \ {0}]
ASSUME AreasAreBounds ==
  Areas \subseteq [groups: SUBSET {"payments", "escrow", "governance"}, calls: Nat]

VARIABLES
  legacy,      \* Admin, Treasury and Paused are on their own keys
  config,      \* what load_config returns
  gone,        \* Decommissioned
  role,        \* UserRole
  blacklist,   \* Blacklist
  proposal,    \* TreasuryProposal
  signers,     \* UpgradeSigners
  approvals,   \* UpgradeApprovals
  wasm,        \* the code installed by the approval flow
  token,       \* UsdcContract, XlmContract
  held,        \* external: the contract's balance in each token
  escrow,      \* Escrow(asset, order)
  limits,      \* WithdrawLimitPerCall, WithdrawLimitPerDay; 0 is absent
  withdrawn,   \* DailyWithdrawn
  rate,        \* PaymentRateLimitConfig
  recent,      \* PaymentRateLimit: a payer's recent payments
  now,         \* ledger time and sequence
  area,        \* bound: what may be called in this behaviour
  tries,       \* calls made: their numbers, and a bound
  paid,        \* history: all the payments of a payer
  rescued,     \* history: what rescue_tokens moved on each day
  drained,     \* history: rescue, decommission or a token switch touched the custody
  rateChanged, \* history
  handedOver   \* history: former admins that were not made Admin again

configVars == <<legacy, config, gone>>
roleVars == <<role, blacklist, handedOver>>
upgradeVars == <<proposal, signers, approvals, wasm>>
escrowVars == <<token, held, escrow, limits, withdrawn, rescued, drained>>
rateVars == <<rate, recent, paid, rateChanged>>
vars == <<configVars, roleVars, upgradeVars, escrowVars, rateVars, now, area, tries>>

Call(group) ==
  /\ group \in area.groups /\ tries < area.calls
  /\ tries' = tries + 1
  /\ UNCHANGED <<now, area>>

-----------------------------------------------------------------------------
(* The configuration and who may do what.                                  *)

Config == [admin: Accounts, treasury: Treasuries, paused: BOOLEAN]

SaveConfig(c) == config' = c /\ legacy' = FALSE

Roles == {"None", "Viewer", "Operator", "Admin"}
role_rank == [None |-> 0, Viewer |-> 1, Operator |-> 2, Admin |-> 3]

has_authority(a, required) == a = config.admin \/ role_rank[role[a]] >= role_rank[required]
has_admin_authority(a) == has_authority(a, "Admin")

\* A fault: the entrypoints stay open.
StillOpen == TRUE

require_not_decommissioned == ~gone

SetPaused(paused) ==
  SaveConfig([admin |-> config.admin, treasury |-> config.treasury, paused |-> paused])

Pause(a) ==
  /\ \E group \in {"payments", "escrow"} : Call(group)
  /\ require_not_decommissioned /\ has_authority(a, "Operator")
  /\ ~config.paused
  /\ SetPaused(TRUE)
  /\ UNCHANGED <<gone, roleVars, upgradeVars, escrowVars, rateVars>>

Unpause ==
  /\ \E group \in {"payments", "escrow"} : Call(group)
  /\ require_not_decommissioned
  /\ config.paused
  /\ SetPaused(FALSE)
  /\ UNCHANGED <<gone, roleVars, upgradeVars, escrowVars, rateVars>>

SetBlacklisted(a, account, status) ==
  /\ Call("payments")
  /\ has_authority(a, "Operator")
  /\ blacklist' = IF status THEN blacklist \cup {account} ELSE blacklist \ {account}
  /\ UNCHANGED <<configVars, role, handedOver, upgradeVars, escrowVars, rateVars>>

-----------------------------------------------------------------------------
(* Roles and the handover of the admin.                                    *)

\* A fault: the outgoing admin keeps its role.
RolesKeptAtHandover(new) == [role EXCEPT ![new] = "Admin"]

\* transfer_admin takes the Admin role along, and no other.
RolesAfterHandover(new) ==
  [role EXCEPT ![config.admin] = IF config.admin # new /\ @ = "Admin" THEN "None" ELSE @,
               ![new] = "Admin"]

TransferAdmin(new) ==
  /\ Call("governance")
  /\ require_not_decommissioned
  /\ role' = RolesAfterHandover(new)
  /\ SaveConfig([admin |-> new, treasury |-> config.treasury, paused |-> config.paused])
  /\ handedOver' = (handedOver \cup {config.admin}) \ {new}
  /\ UNCHANGED <<gone, blacklist, upgradeVars, escrowVars, rateVars>>

\* grant_role, and grant_roles for a set of addresses.
GrantRoles(who, r) ==
  /\ Call("governance")
  /\ require_not_decommissioned
  /\ role' = [a \in Accounts |-> IF a \in who THEN r ELSE role[a]]
  /\ handedOver' = IF r = "Admin" THEN handedOver \ who ELSE handedOver
  /\ UNCHANGED <<configVars, blacklist, upgradeVars, escrowVars, rateVars>>

RevokeRole(a) ==
  /\ Call("governance")
  /\ require_not_decommissioned
  /\ role' = [role EXCEPT ![a] = "None"]
  /\ UNCHANGED <<configVars, blacklist, handedOver, upgradeVars, escrowVars, rateVars>>

\* renounce_role stays open after the decommissioning.
RenounceRole(a) ==
  /\ Call("governance")
  /\ role' = [role EXCEPT ![a] = "None"]
  /\ UNCHANGED <<configVars, blacklist, handedOver, upgradeVars, escrowVars, rateVars>>

-----------------------------------------------------------------------------
(* The treasury.  The timelocked migration reads the legacy Admin key with *)
(* unwrap: once the configuration is packed, these calls panic.            *)

NoProposal == [treasury |-> CHOOSE t \in Treasuries : TRUE, effective_at |-> 0, pending |-> FALSE]

ProposeTreasury(t) ==
  /\ Call("governance")
  /\ legacy /\ ~proposal.pending
  /\ proposal' = [treasury |-> t, effective_at |-> now + TIMELOCK, pending |-> TRUE]
  /\ UNCHANGED <<configVars, roleVars, signers, approvals, wasm, escrowVars, rateVars>>

\* Only the Treasury key is written: the layout stays.
ExecuteTreasuryMigration ==
  /\ Call("governance")
  /\ legacy /\ proposal.pending /\ now >= proposal.effective_at
  /\ config' = [admin |-> config.admin, treasury |-> proposal.treasury, paused |-> config.paused]
  /\ proposal' = NoProposal
  /\ UNCHANGED <<legacy, gone, roleVars, signers, approvals, wasm, escrowVars, rateVars>>

CancelTreasuryMigration ==
  /\ Call("governance")
  /\ legacy /\ proposal.pending
  /\ proposal' = NoProposal
  /\ UNCHANGED <<configVars, roleVars, signers, approvals, wasm, escrowVars, rateVars>>

\* No timelock, and not refused after the decommissioning.
UpdateTreasury(t) ==
  /\ Call("governance")
  /\ SaveConfig([admin |-> config.admin, treasury |-> t, paused |-> config.paused])
  /\ UNCHANGED <<gone, roleVars, upgradeVars, escrowVars, rateVars>>

-----------------------------------------------------------------------------
(* Upgrades by two of three signers.                                       *)

\* A Vec of three addresses, which may repeat one.
SetUpgradeSigners(s) ==
  /\ Call("governance")
  /\ legacy
  /\ s # {} /\ Cardinality(s) <= 3
  /\ signers' = s
  /\ UNCHANGED <<configVars, roleVars, proposal, approvals, wasm, escrowVars, rateVars>>

ProposeUpgrade(a, h) ==
  /\ Call("governance")
  /\ a \in signers
  /\ approvals' = [approvals EXCEPT ![h] = {a}]
  /\ UNCHANGED <<configVars, roleVars, proposal, signers, wasm, escrowVars, rateVars>>

\* No proposal is asked for, and the approvals stay after the installation.
ApproveUpgrade(a, h) ==
  /\ Call("governance")
  /\ a \in signers /\ a \notin approvals[h]
  /\ approvals' = [approvals EXCEPT ![h] = @ \cup {a}]
  /\ wasm' = IF Cardinality(approvals'[h]) >= 2 THEN h ELSE wasm
  /\ UNCHANGED <<configVars, roleVars, proposal, signers, escrowVars, rateVars>>

\* The admin alone.
Upgrade(h) ==
  /\ Call("governance")
  /\ require_not_decommissioned
  /\ wasm' = h
  /\ UNCHANGED <<configVars, roleVars, proposal, signers, approvals, escrowVars, rateVars>>

-----------------------------------------------------------------------------
(* Payments go from the payer to the treasury and leave nothing here; what *)
(* the model keeps of them is the rate limit.                              *)

AcceptsFrom(a) == ~gone /\ ~config.paused /\ a \notin blacklist

\* The Vec of a payer holds the ledger of each payment; here its call tells a
\* payment from the others of its ledger.  Only pay_usdc and pay_xlm count.
Payment == [call: Nat, ledger: Nat, counted: BOOLEAN]

\* A fault: the window is one ledger short.
ActiveTooShort(payments) == {p \in payments : now - p.ledger + 1 < rate.window}

Active(payments) == {p \in payments : now - p.ledger < rate.window}

SetPaymentRateLimit(a, r) ==
  /\ Call("payments")
  /\ require_not_decommissioned /\ has_admin_authority(a)
  /\ rate' = r
  /\ rateChanged' = TRUE
  /\ UNCHANGED <<configVars, roleVars, upgradeVars, escrowVars, recent, paid>>

Paid(a, counted) ==
  paid' = [paid EXCEPT ![a] = @ \cup {[call |-> tries, ledger |-> now, counted |-> counted]}]

\* pay_usdc, pay_xlm: next_payment_rate_limit and record_payment_rate_limit.  The
\* bounds on an amount, discounts, fees and the splits of the treasury are left out.
Pay(a) ==
  /\ Call("payments")
  /\ AcceptsFrom(a)
  /\ Cardinality(Active(recent[a])) < rate.max
  /\ recent' = [recent EXCEPT ![a] =
       Active(@) \cup {[call |-> tries, ledger |-> now, counted |-> TRUE]}]
  /\ Paid(a, TRUE)
  /\ UNCHANGED <<configVars, roleVars, upgradeVars, escrowVars, rate, rateChanged>>

\* pay_usdc_with_memo, pay_xlm_with_memo: neither counted nor held to the limit.
PayWithMemo(a) ==
  /\ Call("payments")
  /\ AcceptsFrom(a)
  /\ Paid(a, FALSE)
  /\ UNCHANGED <<configVars, roleVars, upgradeVars, escrowVars, rate, rateChanged, recent>>

\* pay_usdc_batch, pay_xlm_batch, the items together: the legacy Treasury key is all
\* they ask for.
PayBatch(a) ==
  /\ Call("payments")
  /\ legacy
  /\ Paid(a, FALSE)
  /\ UNCHANGED <<configVars, roleVars, upgradeVars, escrowVars, rate, rateChanged, recent>>

\* apply_discount, in two products that cannot overflow where one would.
Discount(amount, bps) ==
  (amount \div 10000) * bps + ((amount % 10000) * bps) \div 10000
NetAmount(amount, bps) == amount - Discount(amount, bps)

-----------------------------------------------------------------------------
(* Escrow.                                                                 *)

Keys == Assets \X EscrowOrders
Escrow == [payer: Accounts \cup {NoOne}, amount: Nat, at: Nat]
NoEscrow == [payer |-> NoOne, amount |-> 0, at |-> 0]
TokenFor(k) == token[k[1]]
Live == {k \in Keys : escrow[k] # NoEscrow}

DepositEscrow(a, amount, k) ==
  /\ Call("escrow")
  /\ AcceptsFrom(a)
  /\ escrow[k] = NoEscrow
  /\ held' = [held EXCEPT ![TokenFor(k)] = @ + amount]
  /\ escrow' = [escrow EXCEPT ![k] = [payer |-> a, amount |-> amount, at |-> now]]
  /\ UNCHANGED <<configVars, roleVars, upgradeVars, rateVars, token, limits, withdrawn, rescued,
                 drained>>

\* A fault: the record outlives its payment.
RecordKept(k) ==
  /\ held[TokenFor(k)] >= escrow[k].amount
  /\ held' = [held EXCEPT ![TokenFor(k)] = @ - escrow[k].amount]
  /\ UNCHANGED escrow

\* transfer_escrow_tokens, from the token the asset has by now.
PaysOut(k) ==
  /\ held[TokenFor(k)] >= escrow[k].amount
  /\ held' = [held EXCEPT ![TokenFor(k)] = @ - escrow[k].amount]
  /\ escrow' = [escrow EXCEPT ![k] = NoEscrow]

\* release_escrow reads the legacy Treasury key.
ReleaseEscrow(a, k) ==
  /\ Call("escrow")
  /\ has_authority(a, "Operator")
  /\ k \in Live
  /\ legacy
  /\ PaysOut(k)
  /\ UNCHANGED <<configVars, roleVars, upgradeVars, rateVars, token, limits, withdrawn, rescued,
                 drained>>

RefundEscrow(a, k) ==
  /\ Call("escrow")
  /\ k \in Live
  /\ now >= escrow[k].at + ESCROW_TIMELOCK \/ has_admin_authority(a)
  /\ PaysOut(k)
  /\ UNCHANGED <<configVars, roleVars, upgradeVars, rateVars, token, limits, withdrawn, rescued,
                 drained>>

\* Temporary storage: the record is gone for good, its tokens stay here.
RecordExpires(k) ==
  /\ k \in Live
  /\ now >= escrow[k].at + 2 * ESCROW_TIMELOCK
  /\ escrow' = [escrow EXCEPT ![k] = NoEscrow]
  /\ UNCHANGED <<configVars, roleVars, upgradeVars, rateVars, token, held, limits, withdrawn,
                 rescued, drained, now, area, tries>>

\* A transfer straight to the contract's address.
Stray(t, amount) ==
  /\ Call("escrow")
  /\ held' = [held EXCEPT ![t] = @ + amount]
  /\ UNCHANGED <<configVars, roleVars, upgradeVars, rateVars, token, escrow, limits, withdrawn,
                 rescued, drained>>

-----------------------------------------------------------------------------
(* Taking tokens out.                                                      *)

Today == now \div DAY

\* A fault: only the call itself is held against the daily limit.
NothingWithdrawn == 0

WithdrawnToday == IF withdrawn.day = Today THEN withdrawn.total ELSE 0

SetWithdrawLimits(a, call, day) ==
  /\ Call("escrow")
  /\ require_not_decommissioned /\ has_admin_authority(a)
  /\ call = 0 \/ day = 0 \/ call <= day
  /\ limits' = [per_call |-> call, per_day |-> day]
  /\ UNCHANGED <<configVars, roleVars, upgradeVars, rateVars, token, held, escrow, withdrawn,
                 rescued, drained>>

RescueTokens(a, t, amount) ==
  /\ Call("escrow")
  /\ require_not_decommissioned /\ has_admin_authority(a)
  /\ limits.per_call = 0 \/ amount <= limits.per_call
  /\ limits.per_day = 0 \/ WithdrawnToday + amount <= limits.per_day
  /\ held[t] >= amount
  /\ held' = [held EXCEPT ![t] = @ - amount]
  /\ withdrawn' = [day |-> Today, total |-> WithdrawnToday + amount]
  /\ rescued' = [rescued EXCEPT ![Today] = @ + amount]
  /\ drained' = TRUE
  /\ UNCHANGED <<configVars, roleVars, upgradeVars, rateVars, token, escrow, limits>>

\* update_usdc_contract, update_xlm_contract.
UpdateTokenContract(asset, t) ==
  /\ Call("escrow")
  /\ token' = [token EXCEPT ![asset] = t]
  /\ drained' = TRUE
  /\ UNCHANGED <<configVars, roleVars, upgradeVars, rateVars, held, escrow, limits, withdrawn,
                 rescued>>

\* The balances of the configured tokens and of `extra` go to the treasury.
Decommission(extra) ==
  /\ Call("escrow")
  /\ require_not_decommissioned
  /\ gone' = TRUE
  /\ SetPaused(TRUE)
  /\ held' = [t \in Tokens |->
       IF t \in extra \/ \E asset \in Assets : token[asset] = t THEN 0 ELSE held[t]]
  /\ drained' = TRUE
  /\ UNCHANGED <<roleVars, upgradeVars, rateVars, token, escrow, limits, withdrawn, rescued>>

-----------------------------------------------------------------------------
Tick ==
  /\ now < MaxTime
  /\ now' = now + 1
  /\ UNCHANGED <<configVars, roleVars, upgradeVars, escrowVars, rateVars, area, tries>>

\* An instance after init, or one from before the packing.
Init ==
  /\ legacy \in BOOLEAN
  /\ config \in {[admin |-> Deployer, treasury |-> t, paused |-> FALSE] : t \in Treasuries}
  /\ gone = FALSE
  /\ role = [a \in Accounts |-> IF a = Deployer THEN "Admin" ELSE "None"]
  /\ blacklist = {}
  /\ proposal = NoProposal
  /\ signers = {}
  /\ approvals = [h \in Hashes |-> {}]
  /\ wasm = NoOne
  /\ token = FirstToken
  /\ held = [t \in Tokens |-> 0]
  /\ escrow = [k \in Keys |-> NoEscrow]
  /\ limits = [per_call |-> 0, per_day |-> 0]
  /\ withdrawn = [day |-> 0, total |-> 0]
  /\ rescued = [d \in 0 .. MaxTime |-> 0]
  /\ drained = FALSE
  /\ rate = DefaultRate
  /\ recent = [a \in Accounts |-> {}]
  /\ paid = [a \in Accounts |-> {}]
  /\ rateChanged = FALSE
  /\ now = 0
  /\ area \in Areas
  /\ tries = 0
  /\ handedOver = {}

Governance ==
  \/ \E a \in Accounts : TransferAdmin(a) \/ RevokeRole(a) \/ RenounceRole(a)
  \/ \E who \in SUBSET Accounts, r \in Roles \ {"None"} : GrantRoles(who, r)
  \/ \E t \in Treasuries : ProposeTreasury(t) \/ UpdateTreasury(t)
  \/ ExecuteTreasuryMigration \/ CancelTreasuryMigration
  \/ \E s \in SUBSET Accounts : SetUpgradeSigners(s)
  \/ \E a \in Accounts, h \in Hashes : ProposeUpgrade(a, h) \/ ApproveUpgrade(a, h)
  \/ \E h \in Hashes : Upgrade(h)

Payments ==
  \/ \E a, b \in Accounts, status \in BOOLEAN : SetBlacklisted(a, b, status)
  \/ \E a \in Accounts : Pause(a) \/ Pay(a) \/ PayWithMemo(a) \/ PayBatch(a)
  \/ \E a \in Accounts, r \in Rates : SetPaymentRateLimit(a, r)
  \/ Unpause

Custody ==
  \/ \E a \in Accounts, amount \in Amounts, k \in Keys : DepositEscrow(a, amount, k)
  \/ \E a \in Accounts, k \in Keys : ReleaseEscrow(a, k) \/ RefundEscrow(a, k)
  \/ \E k \in Keys : RecordExpires(k)
  \/ \E t \in Tokens, amount \in Amounts : Stray(t, amount)
  \/ \E a \in Accounts, call, day \in Amounts \cup {0} : SetWithdrawLimits(a, call, day)
  \/ \E a \in Accounts, t \in Tokens, amount \in Amounts : RescueTokens(a, t, amount)
  \/ \E asset \in Assets, t \in Tokens : UpdateTokenContract(asset, t)
  \/ \E extra \in SUBSET Tokens : Decommission(extra)

Next == Governance \/ Payments \/ Custody \/ Tick

Spec == Init /\ [][Next]_vars

-----------------------------------------------------------------------------
(* Properties.                                                             *)

\* The type of every variable: what is in storage, and the histories.
TypeOK ==
  /\ legacy \in BOOLEAN /\ config \in Config /\ gone \in BOOLEAN
  /\ role \in [Accounts -> Roles]
  /\ blacklist \subseteq Accounts
  /\ proposal \in [treasury: Treasuries, effective_at: Nat, pending: BOOLEAN]
  /\ signers \subseteq Accounts
  /\ approvals \in [Hashes -> SUBSET Accounts]
  /\ wasm \in Hashes \cup {NoOne}
  /\ token \in [Assets -> Tokens]
  /\ held \in [Tokens -> Nat]
  /\ escrow \in [Keys -> Escrow]
  /\ limits \in [per_call: Nat, per_day: Nat]
  /\ withdrawn \in [day: Nat, total: Nat]
  /\ rescued \in [0 .. MaxTime -> Nat]
  /\ drained \in BOOLEAN /\ rateChanged \in BOOLEAN
  /\ rate \in [max: Nat, window: Nat]
  /\ recent \in [Accounts -> SUBSET Payment] /\ paid \in [Accounts -> SUBSET Payment]
  /\ now \in 0 .. MaxTime
  /\ area \in Areas /\ tries \in Nat
  /\ handedOver \subseteq Accounts

\* What the contract has to pay out of token t: the units of its live escrows.
Owed(t) == UNION {{k} \X (1 .. escrow[k].amount) : k \in {l \in Live : TokenFor(l) = t}}

\* lib.rs 1967-1968, "held until fulfillment or refund": the contract can pay what
\* it holds in escrow, whoever has been paid before and however late the record of
\* another order died, as long as rescue_tokens, decommission and the update of
\* a token contract, which ask for no escrow, were not used.
EscrowsCovered ==
  ~drained => \A t \in Tokens : held[t] >= Cardinality(Owed(t))

Counted(a) == {p \in paid[a] : p.counted}

\* lib.rs 1547, as far as the code goes: no window of ledgers, wherever it begins, sees
\* more than max_payments payments of one payer by pay_usdc and pay_xlm, as long as
\* the policy stays the same, though the Vec forgets what left the window.  Payments
\* with a memo and in batches come on top: the code does not count them.
CountedPaymentsWithinRate ==
  ~rateChanged => \A a \in Accounts, t \in 0 .. MaxTime :
    Cardinality({p \in Counted(a) : t <= p.ledger /\ p.ledger < t + rate.window}) <= rate.max

\* lib.rs 2894-2899: an admin that handed over has no admin authority left, however
\* roles were granted, revoked and renounced in between, until it is made Admin.
FormerAdminHasNoAuthority == \A a \in handedOver : ~has_admin_authority(a)

\* rescue_tokens: what left the contract in a day is within the limit in force,
\* whichever calls moved it.
RescuedWithinDailyLimit ==
  [][\A d \in 0 .. MaxTime :
       rescued'[d] # rescued[d] /\ limits.per_day # 0 => rescued'[d] <= limits.per_day]_vars

\* lib.rs 3258-3278: once decommissioned, the contract takes no payment, by whichever
\* entrypoint, and no deposit, is not resumed, and hands out no role.
DecommissionIsFinal ==
  [][gone => /\ gone' /\ config'.paused /\ paid' = paid
             /\ \A k \in Keys : escrow'[k] \in {escrow[k], NoEscrow}
             /\ \A a \in Accounts : role'[a] \in {role[a], "None"}]_vars

\* A decommissioned contract is paused, and has left the layout in which the
\* treasury could still be migrated.
StaysClosed == gone => config.paused /\ ~legacy

\* DailyWithdrawn says of today what left today, and the coming days are empty.
DayBooked ==
  /\ WithdrawnToday = rescued[Today] /\ withdrawn.day <= Today
  /\ \A d \in 0 .. MaxTime : d > Today => rescued[d] = 0

\* Of a payer's counted payments, PaymentRateLimit has all that the window still covers.
WindowKept(a) ==
  /\ recent[a] \subseteq Counted(a) /\ IsFiniteSet(Counted(a))
  /\ \A p \in Counted(a) :
       /\ p.call < tries /\ p.ledger <= now
       /\ now - p.ledger < rate.window => p \in recent[a]

\* As long as the policy stays the same, so do the payments in every window.
RateInv == ~rateChanged => CountedPaymentsWithinRate /\ \A a \in Accounts : WindowKept(a)

\* The escrows are finitely many units, and all of them are there.
CustodyInv == EscrowsCovered /\ (~drained => \A t \in Tokens : IsFiniteSet(Owed(t)))

\* The invariant of the proofs.
ContractInv ==
  /\ TypeOK
  /\ FormerAdminHasNoAuthority /\ StaysClosed
  /\ CustodyInv /\ DayBooked /\ RateInv

=============================================================================
