SPECIFICATION Spec
CONSTANTS
  o1 = o1
  o2 = o2
  Order = {o1, o2}
  NoOrder = NoOrder
  Courier = {c1, c2}
  NoCourier = NoCourier
  Call = {k1, k2}
  NoCall = NoCall
  RequestKey = {r1}
  DoorPayment = "card"
  Kind <- KindOfOrder
SYMMETRY Symmetry
INVARIANTS OneRoutePerCourier PartnerAskedOnce
PROPERTY CourierIsKept
CHECK_DEADLOCK FALSE
