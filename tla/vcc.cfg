CONSTANTS
  Orders = {o1}
  Tokens = {t1, t2, t3, t4}
  Nonces = {n1, n2, n3, n4, n5}
  None = none
  VCC_CIRCUIT_THRESHOLD = 2
  MaxFaults = 3
SPECIFICATION FairSpec
INVARIANTS ClientInv CallbackVerifiesUnlessLost
PROPERTIES OpenBreakerStaysOpen InvoicedInTheEnd
CHECK_DEADLOCK FALSE
