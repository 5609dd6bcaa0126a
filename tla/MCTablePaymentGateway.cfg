SPECIFICATION Spec
CONSTANTS
  Worker = {h1, h2}
  MaxCrashes = 1
INVARIANTS BooksAreBacked ClaimsAreTrue RefundSentOnce
PROPERTIES KeepsPromise MoneyIsAccountedFor
CHECK_DEADLOCK FALSE
