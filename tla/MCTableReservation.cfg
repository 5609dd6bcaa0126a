SPECIFICATION ReservationSpec
CONSTANTS
  Table = {t1, t2}
  Reservation = {r1, r2}
  Evening = FALSE
  Interval <- Day
  Tolerance = {0}
  Enabled = {TRUE}
  Early = 1
  Hours = 1
  Call = {c1}
  MaxSession = 2
  MaxTime = 2
SYMMETRY Symmetry
INVARIANTS ReservedTableIsKept ConfirmedApart
PROPERTY SeatedOnce
