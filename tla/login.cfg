CONSTANTS
  Emails = {e1,e2}
  NoEmail = none
  OwnerEmail = e1
  Codes = {c1,c2,c3}
  Sessions = {s1}
  CODE_MAX_PER_WINDOW = 2
  VERIFY_FAILED_ATTEMPT_LIMIT = 2
  MaxCrashes = 1
SPECIFICATION Spec
SYMMETRY Symmetry
INVARIANT LoginInv
