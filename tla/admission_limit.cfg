CONSTANTS
  q1 = q1
  q2 = q2
  q3 = q3
  k1 = k1
  NoKey = none
  Requests <- MCRequests
  Amount <- MCAmount
  IdempotencyKey <- MCIdempotencyKey
  SpendLimits = {2}
  Policies <- OnePolicy
  MaxCrashes = 0
SPECIFICATION Spec
INVARIANT SpendLimitKept
