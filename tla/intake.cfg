CONSTANTS
  p1 = p1
  p2 = p2
  p3 = p3
  o1 = o1
  c1 = c1
  a1 = a1
  a2 = a2
  NoPayment = none
  Unknown = unknown
  Payments = {p1, p2, p3}
  Orders = {o1}
  Challenges = {c1}
  Attempts = {a1, a2}
  Names <- MCNames
  Covers = {p1, p2}
  Garbled = {p3}
  Credential <- MCCredential
  EVENT_BATCH_LIMIT = 2
  MAX_DISPATCH_RETRIES = 2
  DISPATCH_RETRY_CAP = 1
  MaxForgotten = 1
  MaxFaults = 1
SPECIFICATION FairSpec
INVARIANTS LossesAreExplained PaymentBuysOneOrder IntakeInv
PROPERTY EventsArePassed
CHECK_DEADLOCK FALSE
