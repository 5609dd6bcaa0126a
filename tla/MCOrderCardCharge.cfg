CONSTANTS
  Call = {c1, c2}
  MaxAttempt = 2
  Dies = TRUE
  Cancels = TRUE
  UnsafeChallenge = TRUE
SPECIFICATION CardSpec
SYMMETRY Symmetric
INVARIANTS OneChargeOrUnsafe DeclinedIsDead PaidIsHeld
CHECK_DEADLOCK FALSE
