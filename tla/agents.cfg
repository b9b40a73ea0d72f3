CONSTANTS
  Agents = {a1,a2}
  Wallets = {w1}
  NoWallet = nowallet
  NoAgent = noagent
  BoxKeys = {k1,k2}
  NoKey = nokey
  MaxTroubles = 1
SPECIFICATION FairSpec
CHECK_DEADLOCK FALSE
INVARIANT ClaimInv
PROPERTY FundingIsSeen
