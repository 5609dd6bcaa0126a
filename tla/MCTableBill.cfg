SPECIFICATION Spec
CONSTANTS
  o1 = o1
  o2 = o2
  p1 = p1
  p2 = p2
  Intent = {pixA, cash}
  Cash = {cash}
  Order = {o1, o2}
  Participant = {p1, p2}
  Item <- Items
  OrderOf <- Orders
  OwnerOf <- Owners
  Price <- Prices
INVARIANTS NoOverAllocation ProjectionFollowsLedger ClosedSessionSettled CanceledItemHoldsNoMoney
PROPERTY LapsedIsReleased
CHECK_DEADLOCK FALSE
