SPECIFICATION FairSpec
CONSTANTS
  Order = {o1, o2, o3}
  Limit = 1
  Trigger = "NEW_ORDER"
  AutoAccept = FALSE
INVARIANTS TicketFollowsAdmission
PROPERTIES OnlyCreationExceeds AdmittedInTurn VacancyIsUsed
CHECK_DEADLOCK FALSE
