CONSTANTS
  h1 = h1
  h2 = h2
  o1 = o1
  Hooks = {h1, h2}
  Origins = {o1}
  OriginOf <- MCOriginOf
  CardHooks = {h1}
  MaxAttempts = 2
  CB_THRESHOLD = 3
  MaxCrashes = 1
SPECIFICATION Spec
INVARIANTS DeliveryInv LossesAreExplained CardBlankedOnlyIfPurged
PROPERTY OpenCircuitStaysOpen
CHECK_DEADLOCK FALSE
