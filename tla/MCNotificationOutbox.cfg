SPECIFICATION Spec
CONSTANTS
  Order = {o1}
  Life <- ShortLife
  MaxAttempts = 2
  MaxPicks = 3
  LastPicks = 1
  Lock = 1
  Gap = 1
  BaseDelay = 1
  MaxDelay = 1
INVARIANTS OneSenderPerRow ExtraAttemptOnlyAfterExpiry
PROPERTY OvertakenNeverReserved
