------------------------- MODULE NotificationOutbox -------------------------
(***************************************************************************)
(* The outbox of WhatsApp messages (services/notificationOutbox.ts): rows  *)
(* enqueued in the transaction of an order, spaced out or superseded by    *)
(* class, and the delivery passes that reserve, send and record them.      *)
(*                                                                         *)
(* One recipient is modelled: slots, superseding and the advisory lock     *)
(* never relate two recipients.  A pass treats its rows independently, so  *)
(* an attempt is one row reserved once; the n-th reservation of a row is   *)
(* the only holder of its lockToken, which n stands for.  Time is relative *)
(* to now and saturates one Gap in the past, beyond which nothing depends  *)
(* on it.  Rows are deleted after 30 days, 29 days after the last moment   *)
(* one can be sent: that is left out.                                      *)
(***************************************************************************)
EXTENDS Integers, Sequences

CONSTANTS
  Order,        \* orders of the recipient
  Life,         \* classes of the messages an order enqueues, in this order
  MaxAttempts,  \* 8 in the code
  Lock,         \* ticks of lockedUntil, 2 minutes
  Gap,          \* ticks of AUTOMATIC_MESSAGE_MIN_INTERVAL_MS, 1 minute
  BaseDelay, MaxDelay,  \* ticks of the backoff, 30 seconds and 30 minutes
  MaxPicks,     \* bound: reservations of one row explored
  LastPicks     \* bound: and of the last message of a life

ASSUME OutboxAssumption ==
  /\ Life \in Seq({"immediate", "throttled", "superseding"})
  /\ MaxAttempts \in Nat \ {0}
  /\ Lock \in Nat \ {0}
  /\ Gap \in Nat
  /\ BaseDelay \in Nat /\ MaxDelay \in Nat
  /\ MaxPicks \in Nat

ASSUME LastPicksAssumption == LastPicks \in Nat

VARIABLES
  stage,    \* messages each order has passed
  open,     \* orders whose throttled INSERT has its snapshot and no row yet
  latest,   \* the latest occupied slot in that snapshot
  consent,  \* whatsappEnabled and receiveStatusNotifications
  status, at, lock, token, attempts,  \* the rows, by message
  old,      \* rows created more than 24 hours ago
  run,      \* where processRow is, by attempt
  wire,     \* requests on their way to the provider
  heard,    \* history: attempts whose request the provider accepted
  expired,  \* history: attempts whose lock ran out
  withdrew  \* history: consent was withdrawn at some time

rows == <<status, at, lock, token, attempts>>
orders == <<stage, open, latest>>
vars == <<orders, consent, rows, old, run, wire, heard, expired, withdrew>>

Message == Order \X (1 .. Len(Life))
Attempt == Message \X (1 .. MaxPicks)
Class(m) == Life[m[2]]
Status == {"ABSENT", "PENDING", "DELIVERED", "DISCARDED", "FAILED"}
Phase == {"none", "checking", "sending", "answered", "done", "dead"}
Busy == {"checking", "sending", "answered"}

TypeOK ==
  /\ stage \in [Order -> 0 .. Len(Life)]
  /\ open \subseteq Order
  /\ latest \in [Order -> Int]
  /\ consent \in BOOLEAN /\ withdrew \in BOOLEAN
  /\ status \in [Message -> Status]
  /\ at \in [Message -> Int]
  /\ lock \in [Message -> Nat]
  /\ token \in [Message -> Nat]
  /\ attempts \in [Message -> 0 .. MaxPicks]
  /\ old \subseteq Message
  /\ run \in [Attempt -> Phase]
  /\ wire \subseteq Attempt /\ heard \subseteq Attempt /\ expired \subseteq Attempt

Init ==
  /\ stage = [o \in Order |-> 0]
  /\ open = {}
  /\ latest = [o \in Order |-> -Gap]
  /\ consent = TRUE /\ withdrew = FALSE
  /\ status = [m \in Message |-> "ABSENT"]
  /\ at = [m \in Message |-> 0]
  /\ lock = [m \in Message |-> 0]
  /\ token = [m \in Message |-> 0]
  /\ attempts = [m \in Message |-> 0]
  /\ old = {}
  /\ run = [a \in Attempt |-> "none"]
  /\ wire = {} /\ heard = {} /\ expired = {}

-----------------------------------------------------------------------------
(* Enqueueing, in the transaction that changes the order.  The row lock of *)
(* the order keeps its transactions apart.                                 *)

NextMessage(o) == <<o, stage[o] + 1>>
HasNext(o, classes) ==
  /\ o \notin open /\ stage[o] < Len(Life)
  /\ consent
  /\ Class(NextMessage(o)) \in classes

(* Preferences refuse the message: the order moves on without a row.       *)
EnqueueRefused(o) ==
  /\ o \notin open /\ stage[o] < Len(Life) /\ ~consent
  /\ stage' = [stage EXCEPT ![o] = stage[o] + 1]
  /\ UNCHANGED <<open, latest, consent, rows, old, run, wire, heard, expired, withdrew>>

InsertRow(o, slot, st) ==
  LET m == NextMessage(o) IN
    /\ stage' = [stage EXCEPT ![o] = stage[o] + 1]
    /\ status' = [st EXCEPT ![m] = "PENDING"]
    /\ at' = [at EXCEPT ![m] = slot]
    /\ UNCHANGED <<attempts, consent, old, run, wire, heard, expired, withdrew>>

(* PENDING rows of the throttled class and of the same order, reserved or  *)
(* not.                                                                    *)
Superseded(o) ==
  {m \in Message : m[1] = o /\ Class(m) = "throttled" /\ status[m] = "PENDING"}

Bug_UnlockedKeepsToken(S) == token
Unlocked(S) == [m \in Message |-> IF m \in S THEN 0 ELSE token[m]]

Discarded(S) == [m \in Message |-> IF m \in S THEN "DISCARDED" ELSE status[m]]

(* An immediate message discards nothing.                                  *)
Discards(o) ==
  IF Class(NextMessage(o)) = "superseding" THEN Superseded(o) ELSE {}

EnqueuePrompt(o) ==
  /\ HasNext(o, {"immediate", "superseding"})
  /\ InsertRow(o, 0, Discarded(Discards(o)))
  /\ token' = Unlocked(Discards(o))
  /\ lock' = [m \in Message |-> IF m \in Discards(o) THEN 0 ELSE lock[m]]
  /\ UNCHANGED <<open, latest>>

Occupied == {m \in Message : status[m] \in {"PENDING", "DELIVERED"} /\ m \notin old}

(* availableAt of the pending rows, completedAt of the delivered ones; no  *)
(* row at all counts as a slot one Gap ago.                                *)
LatestOf(M) ==
  IF M = {} THEN -Gap ELSE at[CHOOSE m \in M : \A k \in M : at[k] <= at[m]]

LatestSlot(o) == LatestOf(Occupied)

(* The statement takes its snapshot, then waits for the advisory lock that *)
(* is part of the same statement.                                          *)
SlotSnapshot(o) ==
  /\ HasNext(o, {"throttled"})
  /\ open' = open \cup {o}
  /\ latest' = [latest EXCEPT ![o] = LatestSlot(o)]
  /\ UNCHANGED <<stage, consent, rows, old, run, wire, heard, expired, withdrew>>

Later(x, y) == IF x > y THEN x ELSE y

SlotInsert(o) ==
  /\ o \in open
  /\ InsertRow(o, Later(0, latest[o] + Gap), status)
  /\ open' = open \ {o}
  /\ UNCHANGED <<latest, lock, token>>

-----------------------------------------------------------------------------
(* A delivery pass: deliverNotificationOutbox.                             *)

(* discardNotificationsWithoutConsent: rows that are not reserved.         *)
DiscardWithoutConsent ==
  LET S == {m \in Message : status[m] = "PENDING" /\ lock[m] = 0} IN
    /\ ~consent /\ S # {}
    /\ status' = Discarded(S)
    /\ token' = Unlocked(S)
    /\ UNCHANGED <<orders, consent, at, lock, attempts, old, run, wire, heard,
                   expired, withdrew>>

Bug_DueIgnoresLock(m) == status[m] = "PENDING" /\ at[m] <= 0
Due(m) == status[m] = "PENDING" /\ at[m] <= 0 /\ lock[m] = 0

Explored(m) ==
  attempts[m] >= MaxPicks \/ (m[2] = Len(Life) /\ attempts[m] >= LastPicks)

Pick(m) ==
  /\ Due(m) /\ ~Explored(m)
  /\ attempts' = [attempts EXCEPT ![m] = attempts[m] + 1]
  /\ token' = [token EXCEPT ![m] = attempts[m] + 1]
  /\ lock' = [lock EXCEPT ![m] = Lock]
  /\ run' = [run EXCEPT ![<<m, attempts[m] + 1>>] = "checking"]
  /\ UNCHANGED <<orders, consent, status, at, old, wire, heard, expired, withdrew>>

Holds(a) == token[a[1]] = a[2]

(* The UPDATE that ends an attempt: zero rows when the token is another.   *)
Settle(a, outcome, when) ==
  /\ run' = [run EXCEPT ![a] = "done"]
  /\ IF Holds(a)
       THEN /\ status' = [status EXCEPT ![a[1]] = outcome]
            /\ at' = [at EXCEPT ![a[1]] = when]
            /\ lock' = [lock EXCEPT ![a[1]] = 0]
            /\ token' = [token EXCEPT ![a[1]] = 0]
       ELSE UNCHANGED <<status, at, lock, token>>
  /\ UNCHANGED <<orders, consent, attempts, old, expired, withdrew>>

Unwanted(m) == ~consent \/ m \in old

CheckDiscards(a) ==
  /\ run[a] = "checking" /\ Unwanted(a[1])
  /\ Settle(a, "DISCARDED", 0)
  /\ UNCHANGED <<wire, heard>>

Send(a) ==
  /\ run[a] = "checking" /\ ~Unwanted(a[1])
  /\ run' = [run EXCEPT ![a] = "sending"]
  /\ wire' = wire \cup {a}
  /\ UNCHANGED <<orders, consent, rows, old, heard, expired, withdrew>>

(* The provider, external: accepts a request, maybe after the caller gave  *)
(* up waiting.                                                             *)
Accept(a) ==
  /\ a \in wire
  /\ wire' = wire \ {a}
  /\ heard' = heard \cup {a}
  /\ run' = IF run[a] = "sending" THEN [run EXCEPT ![a] = "answered"] ELSE run
  /\ UNCHANGED <<orders, consent, rows, old, expired, withdrew>>

RecordDelivered(a) ==
  /\ run[a] = "answered"
  /\ Settle(a, "DELIVERED", 0)
  /\ UNCHANGED <<wire, heard>>

Backoff(n) ==
  LET d == BaseDelay * 2 ^ (IF n - 1 < 6 THEN n - 1 ELSE 6)
  IN  IF d < MaxDelay THEN d ELSE MaxDelay

Bug_ExhaustedLate(n) == n > MaxAttempts
Exhausted(n) == n >= MaxAttempts

(* The catch block.                                                        *)
Failed(a) ==
  IF Exhausted(a[2]) THEN Settle(a, "FAILED", 0)
                     ELSE Settle(a, "PENDING", Backoff(a[2]))

(* The provider refuses, or no answer comes: the request may still arrive. *)
SendFails(a) ==
  /\ run[a] = "sending"
  /\ Failed(a)
  /\ wire' \in {wire, wire \ {a}}
  /\ UNCHANGED heard

(* A database error while delivery is recorded, or while it is prepared.   *)
DatabaseFails(a) ==
  /\ run[a] \in {"checking", "answered"}
  /\ Failed(a)
  /\ UNCHANGED <<wire, heard>>

(* WhatsAppProviderConfigurationError: terminal at once.                   *)
ConfigurationFails(a) ==
  /\ run[a] = "checking" /\ ~Unwanted(a[1])
  /\ Settle(a, "FAILED", 0)
  /\ UNCHANGED <<wire, heard>>

(* The worker dies, or the catch block fails and the pass is abandoned.    *)
Die(a) ==
  /\ run[a] \in Busy
  /\ run' = [run EXCEPT ![a] = "dead"]
  /\ UNCHANGED <<orders, consent, rows, old, wire, heard, expired, withdrew>>

-----------------------------------------------------------------------------
SetConsent ==
  /\ consent' = ~consent
  /\ withdrew' = (withdrew \/ consent)
  /\ UNCHANGED <<orders, rows, old, run, wire, heard, expired>>

(* 24 hours pass for the rows there are.                                   *)
GrowOld ==
  /\ old' = {m \in Message : status[m] # "ABSENT"}
  /\ old' # old
  /\ UNCHANGED <<orders, consent, rows, run, wire, heard, expired, withdrew>>

Down(n) == IF n > 0 THEN n - 1 ELSE 0
Earlier(t) == IF t > -Gap THEN t - 1 ELSE -Gap

Tick ==
  /\ at' = [m \in Message |-> Earlier(at[m])]
  /\ lock' = [m \in Message |-> Down(lock[m])]
  /\ latest' = [o \in Order |-> Earlier(latest[o])]
  /\ expired' = expired \cup
       {a \in Attempt : token[a[1]] = a[2] /\ lock[a[1]] <= 1}
  /\ UNCHANGED <<stage, open, consent, status, token, attempts, old, run, wire,
                 heard, withdrew>>

Enqueue(o) ==
  \/ EnqueueRefused(o) \/ EnqueuePrompt(o)
  \/ SlotSnapshot(o) \/ SlotInsert(o)

AttemptStep(a) ==
  \/ CheckDiscards(a) \/ Send(a) \/ Accept(a) \/ RecordDelivered(a)
  \/ SendFails(a) \/ DatabaseFails(a) \/ ConfigurationFails(a) \/ Die(a)

Next ==
  \/ \E o \in Order : Enqueue(o)
  \/ \E m \in Message : Pick(m)
  \/ \E a \in Attempt : AttemptStep(a)
  \/ DiscardWithoutConsent \/ SetConsent \/ GrowOld \/ Tick

(* The worker drains the outbox on a timer; a request has a timeout, so an *)
(* attempt whose process lives reaches its end.  Nothing is assumed of the *)
(* provider, of consent, or of a process that may die.                     *)
Fairness ==
  /\ WF_vars(Tick)
  /\ \A m \in Message : WF_vars(Pick(m))
  /\ \A a \in Attempt :
       /\ WF_vars(CheckDiscards(a) \/ Send(a) \/ ConfigurationFails(a))
       /\ WF_vars(SendFails(a))
       /\ WF_vars(RecordDelivered(a))

Spec == Init /\ [][Next]_vars /\ Fairness

-----------------------------------------------------------------------------
(* Two attempts work on one row at once only when the lock of the earlier  *)
(* one ran out: SKIP LOCKED, lockedUntil and lockToken together reserve it.*)
OneSenderPerRow ==
  \A a, b \in Attempt :
    /\ a[1] = b[1] /\ a[2] < b[2]
    /\ run[a] \in Busy /\ run[b] \in Busy
    => a \in expired

(* A row is discarded for one of three reasons only; in particular a       *)
(* message never discards that of another order of the same customer.      *)
DiscardHasReason ==
  \A m \in Message : status[m] = "DISCARDED" =>
    \/ withdrew
    \/ m \in old
    \/ \E k \in (m[2] + 1) .. stage[m[1]] :
         Class(m) = "throttled" /\ Life[k] = "superseding"

(* The limit of attempts is checked where a failure is recorded: a row is  *)
(* reserved beyond it only after every attempt from the limit on was cut   *)
(* off, with its lock left to run out.                                     *)
ExtraAttemptOnlyAfterExpiry ==
  \A a \in Attempt :
    a[2] >= MaxAttempts /\ a[2] < attempts[a[1]] => a \in expired

(* Once a final status of an order superseded a message, no attempt of it  *)
(* starts: a worker that held it cannot put the row back in the queue.     *)
Overtaken(m) ==
  /\ Class(m) = "throttled"
  /\ \E k \in (m[2] + 1) .. stage[m[1]] :
       Life[k] = "superseding" /\ status[<<m[1], k>>] # "ABSENT"
OvertakenNeverReserved ==
  [][\A m \in Message : Overtaken(m) => attempts'[m] = attempts[m]]_vars

(* Two throttled messages of one order that still wait are one Gap apart:  *)
(* the order's own transactions see each other's rows.                     *)
SameOrderSpaced ==
  \A m, k \in Message :
    /\ m[1] = k[1] /\ m[2] < k[2] /\ m \notin old
    /\ Class(k) = "throttled" /\ status[m] = "PENDING" /\ status[k] = "PENDING"
    /\ attempts[m] = 0 /\ attempts[k] = 0 /\ at[k] >= 0
    => at[k] >= at[m] + Gap

(* Every row reaches a final status, unless its workers die as often as    *)
(* the model lets them.                                                    *)
RowSettles ==
  \A m \in Message :
    status[m] = "PENDING" ~> status[m] # "PENDING" \/ Explored(m)

(* docs/whatsapp-gupshup-production.md:171, "cada evento foi entregue uma  *)
(* unica vez".  Not so: an answer that is lost, or a worker that dies      *)
(* before it records the delivery, makes the customer read it twice.       *)
HeardOnce ==
  \A a, b \in heard : a[1] = b[1] => a = b

(* notificationOutbox.rateLimit.test.ts:5, "espaca atualizacoes            *)
(* intermediarias de pedido", and the advisory lock per recipient.  Not so *)
(* for two orders of one customer: the snapshot precedes the lock.         *)
RecipientSpaced ==
  \A m, k \in Message :
    /\ m # k /\ Class(m) = "throttled" /\ Class(k) = "throttled"
    /\ status[m] = "PENDING" /\ status[k] = "PENDING"
    /\ attempts[m] = 0 /\ attempts[k] = 0 /\ at[m] >= 0 /\ at[k] >= 0
    /\ m \notin old /\ k \notin old
    => at[k] >= at[m] + Gap \/ at[m] >= at[k] + Gap

(* docs/operations/roadmap-resiliencia-escalabilidade-20261016.md:18,      *)
(* "tentativas limitadas".  Not so for a row whose workers keep dying.     *)
AttemptsLimited == \A m \in Message : attempts[m] <= MaxAttempts
=============================================================================
