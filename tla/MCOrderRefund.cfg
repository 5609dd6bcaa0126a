SPECIFICATION FairSpec
CONSTANTS
  Call = {c1, c2}
  Provider = {"ASAAS", "MERCADO_PAGO", "EFI"}
  MaxAsked = 2
INVARIANTS OneRefund CancelledIsReturned
PROPERTIES KitchenStops RequestReachesOrder
CHECK_DEADLOCK FALSE
