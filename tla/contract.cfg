CONSTANTS
  usdc = usdc
  sac1 = sac1
  Accounts = {a1, a2, a3}
  Deployer = a1
  Treasuries = {tr1, tr2}
  Assets = {usdc}
  Tokens = {sac1, sac2}
  FirstToken <- MCFirstToken
  EscrowOrders = {e1, e2}
  Hashes = {w1}
  NoOne = none
  ESCROW_TIMELOCK = 1
  TIMELOCK = 1
  DAY = 2
  DefaultRate <- MCDefaultRate
  Amounts = {1}
  Rates <- MCRates
  MaxTime = 3
  Areas <- MCAreas
SPECIFICATION Spec
SYMMETRY Symmetry
INVARIANTS FormerAdminHasNoAuthority EscrowsCovered CountedPaymentsWithinRate
PROPERTIES RescuedWithinDailyLimit DecommissionIsFinal
CHECK_DEADLOCK FALSE
