SPECIFICATION CouponSpec
CONSTANTS
  o1 = o1
  o2 = o2
  o3 = o3
  Order = {o1, o2, o3}
  FirstKind = "online"
  ThirdKind = "table"
  Kind <- KindOfOrder
  Call = {k1, k2}
  Required = 1
  Limit = 1
  Validity = 1
  MaxCycle = 2
  MaxTime = 1
SYMMETRY Symmetry
INVARIANTS RewardFollowsOrder WalletIsLimited
PROPERTY EarnedSinceLastClaim
