CONSTANTS
  Orders = {o1}
  NoOrder = none
  MaxAttempts = 1
  MaxCrashes = 1
  MaxTxs = 2
  SlowHandlers = TRUE
SPECIFICATION FairSpec
INVARIANTS FulfillmentInv NeverCardAndRefund ChargedOncePerCard OneCutShortPerRestart RefundsFollowClaims CtxPaidWithinAttempts
PROPERTIES TerminalAbsorbing CtxPaidIsNeverRefunded ImplementsOrderOutcome UnpaidOrderIsDecided
