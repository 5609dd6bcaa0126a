SPECIFICATION Spec
CONSTANTS
  d1 = d1
  d2 = d2
  None = None
  Device <- TwoDevices
  Job = {ticket}
  Copies = 2
  MaxAttempts = 2
  MaxRetries = 1
  MaxIncidents = 1
INVARIANTS PrintedIsOnPaper UndisturbedPrintsOnce
PROPERTY TicketSettles
CHECK_DEADLOCK FALSE
