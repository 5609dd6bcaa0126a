-------------------------- MODULE TableReservation --------------------------
(***************************************************************************)
(* The reservations of the tables of a restaurant against the sessions     *)
(* that occupy them: booking, check-in and walk-ins, which share one way   *)
(* of opening a session, transfer to another table, both kinds of closing, *)
(* cancellation, the settings, and the sweep that marks a no-show.         *)
(*                                                                         *)
(* Booking, changes of booking, the last part of an opening, transfers and  *)
(* closings are SERIALIZABLE transactions, each one step; the sweep is a   *)
(* guarded update with the clock of its start. An opening reads, closes    *)
(* what expired and opens in steps of its own, and its request may die at  *)
(* any of them. The bill a closing settles is that of TableBill. Left out: *)
(* seats and guests, tables taken out of service, the calls, participants  *)
(* and orders of a session, which never look at a reservation.             *)
(***************************************************************************)
EXTENDS Integers, FiniteSets

CONSTANTS
  Table, Reservation,
  Interval,    \* the intervals <<startsAt, endsAt>> one may book
  Tolerance,   \* the tolerances one may set
  Enabled,     \* whether reservations are in use: the choices one has
  Early,       \* EARLY_CHECK_IN_MINUTES
  Hours,       \* TABLE_SESSION_MAX_HOURS
  Call,        \* requests to open a session
  MaxSession,  \* bound on the sessions ever opened
  MaxTime      \* bound on the clock

Time == 0 .. MaxTime
Session == 1 .. MaxSession
None == 0
Nobody == "nobody"    \* in place of a reservation: a walk-in
Nowhere == "nowhere"  \* in place of a table

ASSUME ReservationAssumption ==
  /\ IsFiniteSet(Table) /\ IsFiniteSet(Reservation)
  /\ Interval \subseteq {i \in Nat \X Nat : i[1] < i[2]}
  /\ Tolerance \subseteq Nat /\ Tolerance # {}
  /\ Enabled \subseteq BOOLEAN /\ TRUE \in Enabled
  /\ Early \in Nat /\ Hours \in Nat \ {0}
  /\ MaxSession \in Nat \ {0} /\ MaxTime \in Nat
  /\ Nobody \notin Reservation /\ Nowhere \notin Table

VARIABLES
  now,
  enabled, tolerance,     \* RestaurantSettings
  booking,                \* TableReservation.status, "none" without a row
  table, span,            \* its table and interval
  seatedIn,               \* its tableSessionId, or None
  state,                  \* of a session: "none", "open", closed as "settled" or "lapsed"
  place, until, since,    \* its table, expiresAt, and when it came to the table
  pc, aim, guest, found, lasts,  \* of each call: progress, table, reservation, what it read
  jobNow                  \* the clock of a sweep under way, or -1

settings == <<enabled, tolerance>>
books == <<booking, table, span, seatedIn>>
sessions == <<state, place, until, since>>
calls == <<pc, aim, guest, found, lasts>>
reservationVars == <<now, settings, books, sessions, calls, jobNow>>

Starts(r) == span[r][1]
Ends(r) == span[r][2]

ReservationTypeOK ==
  /\ now \in Time /\ enabled \in Enabled /\ tolerance \in Tolerance
  /\ booking \in [Reservation ->
       {"none", "CONFIRMED", "SEATED", "COMPLETED", "CANCELED", "NO_SHOW"}]
  /\ table \in [Reservation -> Table \cup {Nowhere}]
  /\ seatedIn \in [Reservation -> Session \cup {None}]
  /\ \A r \in Reservation : booking[r] # "none" => span[r] \in Interval
  /\ \A r \in Reservation :
       (seatedIn[r] # None) <=> (booking[r] \in {"SEATED", "COMPLETED"})
  /\ state \in [Session -> {"none", "open", "settled", "lapsed"}]
  /\ place \in [Session -> Table \cup {Nowhere}]
  /\ pc \in [Call -> {"idle", "asked", "clear", "ready"}]
  /\ jobNow \in Time \cup {-1}

ReservationInit ==
  /\ now = 0 /\ enabled = TRUE /\ tolerance \in Tolerance
  /\ booking = [r \in Reservation |-> "none"]
  /\ table = [r \in Reservation |-> Nowhere]
  /\ span = [r \in Reservation |-> <<0, 0>>]
  /\ seatedIn = [r \in Reservation |-> None]
  /\ state = [s \in Session |-> "none"] /\ place = [s \in Session |-> Nowhere]
  /\ until = [s \in Session |-> 0] /\ since = [s \in Session |-> 0]
  /\ pc = [c \in Call |-> "idle"] /\ aim = [c \in Call |-> Nowhere]
  /\ guest = [c \in Call |-> Nobody] /\ found = [c \in Call |-> {}]
  /\ lasts = [c \in Call |-> 0]
  /\ jobNow = -1

Tick == now < MaxTime /\ now' = now + 1
        /\ UNCHANGED <<settings, books, sessions, calls, jobNow>>

-----------------------------------------------------------------------------
(* reservationCheckInDeadline and reservationCanCheckIn.                   *)
Deadline(r) == IF Ends(r) < Starts(r) + tolerance THEN Ends(r) ELSE Starts(r) + tolerance
CanCheckIn(r) == Starts(r) - Early <= now /\ now <= Deadline(r)

(* overdueReservationsWhere at a clock: strict, so that the last instant of *)
(* the tolerance still admits the guests.                                   *)
Overdue(r, clock) ==
  booking[r] = "CONFIRMED" /\ (Starts(r) < clock - tolerance \/ Ends(r) < clock)

(* expireNoShowReservations: the statuses once it has run for some tables. *)
Swept(tables, clock) ==
  [r \in Reservation |->
     IF table[r] \in tables /\ Overdue(r, clock) THEN "NO_SHOW" ELSE booking[r]]

(* The sessions that occupy a table, by TableSession_one_active_per_table. *)
ActiveAt(t) == {s \in Session : state[s] = "open" /\ place[s] = t}

(* What the sweep leaves confirmed at a table and meets an interval: the   *)
(* question of a booking, an opening and, without the sweep, a transfer.   *)
Bug_MeetsFromStart(seen, t, from, to) ==
  {r \in Reservation : seen[r] = "CONFIRMED" /\ table[r] = t
                       /\ from <= Starts(r) /\ Starts(r) < to}
Meets(seen, t, from, to) ==
  {r \in Reservation : seen[r] = "CONFIRMED" /\ table[r] = t
                       /\ Starts(r) < to /\ from < Ends(r)}

(* TableReservationService.create: a session that lasts into the interval  *)
(* refuses it. A refusal rolls back the sweep.                             *)
Bug_NotOccupiedAtItsEnd(t, i) == \A s \in ActiveAt(t) : until[s] <= i[2]
NotOccupied(t, i) == \A s \in ActiveAt(t) : until[s] <= i[1]

Book(r, t, i) ==
  /\ booking[r] = "none" /\ enabled
  /\ now <= i[1] /\ NotOccupied(t, i)
  /\ Meets(Swept({t}, now), t, i[1], i[2]) = {}
  /\ booking' = [Swept({t}, now) EXCEPT ![r] = "CONFIRMED"]
  /\ table' = [table EXCEPT ![r] = t] /\ span' = [span EXCEPT ![r] = i]
  /\ UNCHANGED <<now, settings, seatedIn, sessions, calls, jobNow>>

(* TableReservationService.changeStatus.                                   *)
ChangeStatus(r, next) ==
  /\ booking[r] = "CONFIRMED" /\ enabled
  /\ booking' = [booking EXCEPT ![r] = next]
  /\ UNCHANGED <<now, settings, table, span, seatedIn, sessions, calls, jobNow>>

(* TableReservationService.list sweeps first.                              *)
List ==
  /\ enabled
  /\ booking' = Swept(Table, now)
  /\ UNCHANGED <<now, settings, table, span, seatedIn, sessions, calls, jobNow>>

(* TableReservationService.updateSettings.                                 *)
UpdateSettings(on, minutes) ==
  /\ enabled' = on /\ tolerance' = minutes
  /\ UNCHANGED <<now, books, sessions, calls, jobNow>>

(* The no-show job: its clock is taken once, the settings when it marks.   *)
StartSweep ==
  /\ jobNow = -1 /\ jobNow' = now
  /\ UNCHANGED <<now, settings, books, sessions, calls>>

MarkNoShows ==
  /\ jobNow # -1 /\ jobNow' = -1
  /\ booking' = IF enabled THEN Swept(Table, jobNow) ELSE booking
  /\ UNCHANGED <<now, settings, table, span, seatedIn, sessions, calls>>

-----------------------------------------------------------------------------
(* OpenTableSessionService: a walk-in, or a check-in after its own look at *)
(* the reservation and the table.                                          *)
WalkIn(c, t) ==
  /\ pc[c] = "idle"
  /\ pc' = [pc EXCEPT ![c] = "asked"] /\ aim' = [aim EXCEPT ![c] = t]
  /\ UNCHANGED <<now, settings, books, sessions, guest, found, lasts, jobNow>>

CheckIn(c, r) ==
  /\ pc[c] = "idle" /\ enabled
  /\ booking[r] = "CONFIRMED" /\ CanCheckIn(r)
  /\ \A s \in ActiveAt(table[r]) : until[s] <= now
  /\ pc' = [pc EXCEPT ![c] = "asked"]
  /\ aim' = [aim EXCEPT ![c] = table[r]] /\ guest' = [guest EXCEPT ![c] = r]
  /\ UNCHANGED <<now, settings, books, sessions, found, lasts, jobNow>>

(* No session at the table is still valid; the expired ones are noted.     *)
Inspect(c) ==
  /\ pc[c] = "asked"
  /\ \A s \in ActiveAt(aim[c]) : until[s] <= now
  /\ pc' = [pc EXCEPT ![c] = "clear"]
  /\ found' = [found EXCEPT ![c] = ActiveAt(aim[c])]
  /\ UNCHANGED <<now, settings, books, sessions, aim, guest, lasts, jobNow>>

(* They are closed, whoever closed them meanwhile, their bill and their    *)
(* reservation left as they are; then the new session gets its expiry.     *)
CloseExpired(c) ==
  /\ pc[c] = "clear"
  /\ state' = [s \in Session |->
                 IF s \in found[c] /\ state[s] = "open" THEN "lapsed" ELSE state[s]]
  /\ pc' = [pc EXCEPT ![c] = "ready"]
  /\ lasts' = [lasts EXCEPT ![c] = now + Hours]
  /\ found' = [found EXCEPT ![c] = {}]
  /\ UNCHANGED <<now, settings, books, place, until, since, aim, guest, jobNow>>

(* The call is over.                                                       *)
Finish(c) ==
  /\ pc' = [pc EXCEPT ![c] = "idle"] /\ aim' = [aim EXCEPT ![c] = Nowhere]
  /\ guest' = [guest EXCEPT ![c] = Nobody] /\ found' = [found EXCEPT ![c] = {}]
  /\ lasts' = [lasts EXCEPT ![c] = 0]

(* The reservations in the way of an opening: findFirst returns any of     *)
(* them, and only the guest's own lets the opening go on.                  *)
Upcoming(c) == Meets(Swept({aim[c]}, now), aim[c], now, lasts[c])

(* The guest's reservation, looked at again in the transaction.            *)
Bug_StillWelcomeInWindow(c) == guest[c] # Nobody => CanCheckIn(guest[c])
StillWelcome(c) ==
  guest[c] # Nobody =>
    Swept({aim[c]}, now)[guest[c]] = "CONFIRMED" /\ CanCheckIn(guest[c])

Open(c, s) ==
  /\ pc[c] = "ready" /\ ActiveAt(aim[c]) = {}
  /\ Upcoming(c) = {} \/ guest[c] \in Upcoming(c)
  /\ StillWelcome(c)
  /\ state[s] = "none" /\ \A before \in 1 .. s - 1 : state[before] # "none"
  /\ state' = [state EXCEPT ![s] = "open"] /\ place' = [place EXCEPT ![s] = aim[c]]
  /\ until' = [until EXCEPT ![s] = lasts[c]] /\ since' = [since EXCEPT ![s] = now]
  /\ booking' = [r \in Reservation |->
                  IF r = guest[c] THEN "SEATED" ELSE Swept({aim[c]}, now)[r]]
  /\ seatedIn' = [r \in Reservation |-> IF r = guest[c] THEN s ELSE seatedIn[r]]
  /\ Finish(c) /\ UNCHANGED <<now, settings, table, span, jobNow>>

Refuse(c) ==
  /\ pc[c] = "ready"
  /\ Upcoming(c) \ {guest[c]} # {} \/ ~ StillWelcome(c) \/ ActiveAt(aim[c]) # {}
  /\ Finish(c) /\ UNCHANGED <<now, settings, books, sessions, jobNow>>

(* The table turns out occupied, or the request is lost with its process.  *)
GiveUp(c) ==
  /\ pc[c] # "idle"
  /\ Finish(c) /\ UNCHANGED <<now, settings, books, sessions, jobNow>>

(* TransferTableSessionService.                                            *)
RoomAt(s, t) == ActiveAt(t) = {} /\ Meets(booking, t, now, until[s]) = {}
Transfer(s, t) ==
  /\ state[s] = "open" /\ now < until[s] /\ place[s] # t
  /\ RoomAt(s, t)
  /\ place' = [place EXCEPT ![s] = t] /\ since' = [since EXCEPT ![s] = now]
  /\ UNCHANGED <<now, settings, books, state, until, calls, jobNow>>

(* CloseTableSessionService and ForceCloseTableSessionService, once the    *)
(* bill is settled: the reservation linked to the session is completed.    *)
Linked(s) == {r \in Reservation : booking[r] = "SEATED" /\ seatedIn[r] = s}
CloseAndComplete(s) ==
  /\ state[s] = "open"
  /\ state' = [state EXCEPT ![s] = "settled"]
  /\ booking' = [r \in Reservation |-> IF r \in Linked(s) THEN "COMPLETED" ELSE booking[r]]
  /\ UNCHANGED <<now, settings, table, span, seatedIn, place, until, since, calls, jobNow>>

-----------------------------------------------------------------------------
ReservationNext ==
  \/ Tick \/ List \/ StartSweep \/ MarkNoShows
  \/ \E on \in Enabled, minutes \in Tolerance : UpdateSettings(on, minutes)
  \/ \E r \in Reservation :
       \/ \E t \in Table, i \in Interval : Book(r, t, i)
       \/ \E next \in {"CANCELED", "NO_SHOW"} : ChangeStatus(r, next)
       \/ \E c \in Call : CheckIn(c, r)
  \/ \E c \in Call :
       \/ \E t \in Table : WalkIn(c, t)
       \/ Inspect(c) \/ CloseExpired(c) \/ Refuse(c) \/ GiveUp(c)
       \/ \E s \in Session : Open(c, s)
  \/ \E s \in Session : CloseAndComplete(s) \/ \E t \in Table : Transfer(s, t)

ReservationSpec == ReservationInit /\ [][ReservationNext]_reservationVars

(* Time passes, and the job runs every minute.                             *)
FairReservationSpec ==
  /\ ReservationSpec
  /\ WF_reservationVars(Tick)
  /\ WF_reservationVars(StartSweep) /\ WF_reservationVars(MarkNoShows)

-----------------------------------------------------------------------------
(* A table is kept for its reservation: no session that walked in or was   *)
(* transferred lasts into a confirmed interval, whether the session or the *)
(* reservation came first (TableReservationService.create,                 *)
(* OpenTableSessionService, TransferTableSessionService). The guests of an *)
(* earlier reservation may stay.                                           *)
OwnTable(s) == \E g \in Reservation : seatedIn[g] = s /\ table[g] = place[s]
ReservedTableIsKept ==
  \A s \in Session, r \in Reservation :
    state[s] = "open" /\ ~ OwnTable(s) /\ booking[r] = "CONFIRMED" /\ table[r] = place[s] =>
      until[s] <= Starts(r) \/ Ends(r) <= since[s]

(* No two confirmed reservations of a table meet, whatever was swept,      *)
(* cancelled or seated between them (TableReservation_no_overlap).         *)
ConfirmedApart ==
  \A r, other \in Reservation :
    r # other /\ booking[r] = "CONFIRMED" /\ booking[other] = "CONFIRMED"
      /\ table[r] = table[other] =>
        Ends(r) <= Starts(other) \/ Ends(other) <= Starts(r)

(* A reservation is completed with the settled bill of its own session,    *)
(* wherever that sits by then, and by no other (CloseTableSessionService). *)
CompletedWithOwnSession ==
  \A r \in Reservation : seatedIn[r] # None =>
    (booking[r] = "COMPLETED" <=> state[seatedIn[r]] = "settled")

(* The guests are seated once and from a confirmed reservation, and        *)
(* nothing but the end of their session changes that: not a second         *)
(* check-in of two waiters, a cancellation between its steps or the sweep. *)
SeatedOnce ==
  [][\A r \in Reservation :
       /\ booking'[r] = "SEATED" /\ booking[r] # "SEATED" => booking[r] = "CONFIRMED"
       /\ booking[r] = "SEATED" => booking'[r] \in {"SEATED", "COMPLETED"}
       /\ seatedIn[r] # None => seatedIn'[r] = seatedIn[r]]_reservationVars

(* The guests are marked absent, unless by hand, only when they could not  *)
(* check in any more, however late the sweep is that marks them            *)
(* (jobs/registry.ts, tableReservationTolerance.ts).                       *)
AbsentOnlyWhenLate ==
  [][\A r \in Reservation :
       booking[r] = "CONFIRMED" /\ booking'[r] = "NO_SHOW"
         /\ ~ ChangeStatus(r, "NO_SHOW") => Deadline(r) < now]_reservationVars

(* While reservations stay in use, none is confirmed for ever: it is       *)
(* seated, cancelled or marked, and the table is free again.               *)
ReservationSettles ==
  <>[]enabled => \A r \in Reservation : booking[r] = "CONFIRMED" ~> booking[r] # "CONFIRMED"

(* A guest who checks in in time finds the table, unless it is occupied:   *)
(* the refusal of an opening says "realize o check-in autorizado".         *)
GuestIsAdmitted ==
  [][\A c \in Call :
       Refuse(c) /\ guest[c] # Nobody =>
         ~ (StillWelcome(c) /\ ActiveAt(aim[c]) = {})]_reservationVars

(* The guests of a reservation that is not completed still have a session: *)
(* the conclusion is automatic (TableReservationService.changeStatus).     *)
SeatedHasSession ==
  \A r \in Reservation : booking[r] = "SEATED" => state[seatedIn[r]] = "open"
=============================================================================
