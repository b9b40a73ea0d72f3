CONSTANTS
  q1 = q1
  q2 = q2
  q3 = q3
  k1 = k1
  NoKey = none
  Requests <- MCRequests
  Amount <- MCAmount
  IdempotencyKey <- MCIdempotencyKey
  SpendLimits = {3}
  Policies <- MCPolicies
  MaxCrashes = 1
SYMMETRY Symmetry
SPECIFICATION Spec
INVARIANTS DailyLimitKept OneOrderPerIdempotencyKey ApprovalsMatchOrders AdmissionInv
PROPERTIES SuspendedKeyGetsNothing RejectionIsFinal
