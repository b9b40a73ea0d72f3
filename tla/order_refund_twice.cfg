CONSTANTS
  Orders = {o1}
  NoOrder = none
  MaxAttempts = 1
  MaxCrashes = 0
  MaxTxs = 2
  SlowHandlers = TRUE
SPECIFICATION Spec
INVARIANT RefundedAtMostOnce
