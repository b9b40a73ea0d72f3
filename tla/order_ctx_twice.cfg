CONSTANTS
  Orders = {o1}
  NoOrder = none
  MaxAttempts = 1
  MaxCrashes = 1
  MaxTxs = 2
  SlowHandlers = FALSE
SPECIFICATION Spec
INVARIANT CtxPaidAtMostOnce
