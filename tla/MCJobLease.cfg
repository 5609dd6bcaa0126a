SPECIFICATION Spec
CONSTANTS
  Worker = {w1, w2}
  None = None
  LeaseDuration = 2
  SuccessCooldown = 2
  FailureBackoff = 1
  ClockSkew <- Skew
  MaxVersion = 3
INVARIANTS OverlapOnlyAfterExpiry SingleOutcome
PROPERTIES CooldownNeverShortened DeadHolderReplaced
