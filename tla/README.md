# Formal model of the GastroNexa back end

TLA+ specifications of the protocols in this repository that are hard to test:
they run on several replicas, cross a payment gateway, and must survive crashes,
retries and disagreeing clocks. TLC checks each on a small instance; TLAPS proves
the most important of them for every instance.

## The system

GastroNexa serves many restaurants from one Express/Prisma/PostgreSQL back end
(`backend/src`, paths below are relative to it), one or more API replicas
(`server.ts`), one or more workers (`worker.ts`), a React front end and a print
agent in the restaurant (`print-agent`).

| part | state | operations | hard because |
| --- | --- | --- | --- |
| Scheduled jobs (`jobs/`) | `ScheduledJobState`, one row per job | claim, renew, complete, fail; dispatch, stop | replicas contend, holders die, answers are lost, clocks differ |
| Shared bill (`modules/tableAccount`) | `TableBillItem`, `TablePaymentIntent`, `TablePaymentAllocation`, cached `Order.paid` and statuses | reserve, confirm cash, cancel, refund, expire, project | participants reserve the same cents at once; `now` is older than the lock |
| Online payments of a table (`tableAccount`) | the intent, its events (deduplication keys, remote claims), the charge at the gateway | create, webhook, reconcile, cancel, refund | late, duplicated and reordered news; ambiguous calls; crashes between remote call and record |
| Table session (`modules/tableSession`, `waiterCalls`) | session, participants, ordering bar, calls | open, join, transfer, close, force close, bill call | a session closes while money is on its way |
| Orders (`modules/orders`) | order, items, stock, refund status, queue position | create, advance, cancel, refund, admit | refund and cancellation are several steps; decisions on snapshots older than a lock; stale reads in middlewares |
| Card charges (`modules/orders`) | payment attempts, session of the order, late-refund marks, the charge at the gateway | check out, retry, poll, webhook, expire, refund late money | lost answers; four routes write one row; the session is written back after awaits |
| Delivery (`modules/orders`, `modules/externalDelivery`) | courier of an order, route of a courier, reservation for the partner, the ride | claim, start, deliver, prepare, book, cancel | couriers, staff and partner compete for one order; a booking is remote |
| Coupons (`modules/coupon`, `couponRedemptionLifecycle`) | redemptions | claim, reserve, use, release | two orders reserve one redemption; a claim counts purchases without a transaction |
| Kitchen printing (`modules/kitchenPrinting`, `print-agent`) | print jobs with a lease per device; an acknowledgement in the agent's memory | enqueue, claim, printed, failed, retry | leases expire during a print, the agent dies before its acknowledgement |
| Notification outbox (`services/notificationOutbox.ts`) | rows with a slot in time and a lock | enqueue (four ways), deliver, retry | sends and their records are two steps; discards race deliveries |
| Reservations of tables (`modules/tableReservations`, `tableSession`) | reservation, table, session | book, check in, sweep the absent, complete | a job races the waiter; opening a table is several transactions |
| Billing, subscription | invoices, access | pay, reconcile, suspend | webhooks of the platform's own gateway |
| Authentication | refresh sessions, MFA challenges | login, rotate, revoke | two rotations of one token |

They interact through the database. An order puts its units on the bill of its
session; intents pay for units; a paid intent marks orders paid, which enqueues
kitchen jobs and frees participants; webhooks and jobs move intents; closing a
session reads the bill; every customer message goes through the outbox; every
periodic task goes through the job lease. `PROJECT.json` lists all components,
those without a module too, and the main hazards with the line where each bites.

What makes each modelled component correct:

- **Jobs**: a live lease is never taken over; a claim has one outcome; a cooldown
  is never cut short; a dead holder is replaced.
- **Bill**: no cent is promised twice; what screens show follows the ledger; a
  closed session has no money on its way; a cancelled item holds none; cash in
  hand is not lost; a dead intent stays dead; an abandoned one lets go.
- **Online payment**: the books never claim money the gateway does not have; at
  most one refund is sent; late money is taken care of.
- **Printing**: printed means on paper; answers and crashes alone print nothing
  twice; reprints are bounded; a printed ticket stays printed; every ticket is
  printed or reported as failed.
- **Outbox**: one worker sends a row at a time; a message that a final one overtook
  is not sent; nothing is discarded without reason; every row settles.
- **Refunds**: a paid order is refunded once, cancelled only when the money went
  back, restocked once, and not prepared meanwhile.
- **Capacity**: the kitchen holds no more than its limit (but for one order), admits
  in turn, prints what it admits, and uses the room it has.
- **Card charges**: one charge at risk, and a row that allows a retry speaks of a dead
  charge, but for a challenge without a safe address; a paid order has its money; other
  money taken is a paid order or goes back; every order concludes.
- **Delivery**: a courier has one route and keeps the orders claimed; the partner is
  asked once and never for an order that couriers may still claim.
- **Coupons**: a reward follows its order, is used by the order that is paid, stays
  used, and is earned by purchases made since the last one.
- **Reservations**: a table is kept for its guests, who sit once, are called absent
  only when late, and whose reservation ends.

## The modules

| module | models | abstract specification |
| --- | --- | --- |
| `JobLease` | `jobs/lease/PrismaJobLeaseRepository.ts`, `JobRunner.ts`, `WorkerScheduler.ts`, shutdown | |
| `TableBill` | ledger, plans, projection and every transaction on the bill of one session | |
| `TablePaymentGateway` | one Pix intent, its charge and the handlers that move them | `PaymentPromise`, through `Bill` and `Money` |
| `PaymentPromise` | what a payment promises to guests and restaurant | |
| `KitchenPrinting` | `modules/kitchenPrinting/services` (jobs, retry, credentials), `print-agent/src/runner` | |
| `NotificationOutbox` | `services/notificationOutbox.ts`: enqueueing, spacing, reservation, delivery | |
| `OrderRefund` | confirmation, cancellation, refund and late payment of one order | |
| `OrderCapacity` | the capacity queue: creation, payment, worker, staff, tickets | |
| `OrderCardCharge` | the card charges of one order at Mercado Pago | |
| `DeliveryDispatch` | claims and routes of couriers, reservations and rides of the partner | |
| `CouponRedemption` | claiming and spending the rewards of one customer | |
| `TableReservation` | reservations, opening, transfer and closing of tables | |
| `TableProofs` | theorems about `TableBill` and `TableReservation` | |
| `PaymentGatewayProofs` | theorems about `TablePaymentGateway` and `OrderCardCharge` | |
| `LoyaltyJobProofs` | theorems about `JobLease` and `CouponRedemption` | |
| the other `*Proofs` | the theorems of the module they are named after | |
| `MC*` | instances for TLC | |

### JobLease

One job key, since keys share nothing. `row` is the table row; each repository
method is a single SQL statement and one step, and its answer a step of its own
or lost. `pc`, `lease`, `lost` and `renewal` are the local variables of
`JobRunner.run` (`lease`, `leaseLost`, the pending `renewal`). Deadlines are ticks
left. A worker constant is a process incarnation, as `createJobOwnerId` draws a
fresh UUID: a restarted process is another worker. `nextRunAt` is computed with the
worker's clock, so `ClockSkew` is added to it; the lease deadline is computed by
the database. `expired` and `outcomes` are history.

### TableBill

Every handler takes the session's advisory lock first and is one step. Exceptions
are modelled as such: `AdmitOrder` reads the bar outside the transaction, and
`DropOrder` (the status route) takes no lock. What a handler knows of the time is
not atomic: `now` is read before the lock is granted, or is the time the provider
reports, so each handler takes an arbitrary subset `stale` of the lapsed intents
for current ones. Closing reads the clock twice and the second reading sees no fewer lapsed
intents than the first. The state correspondence:

| variable | code |
| --- | --- |
| `status`, `alloc` | `TablePaymentIntent.status`, `TablePaymentAllocation.amountCents` |
| `due`, `received` | `expiresAt` has passed; an event with suffix `:cash-received-by-staff` |
| `order` | `admitted` is a request past its middleware; `open`, `served` stand for the kitchen statuses; `canceled` and `dropped` are `CANCELADO` by the workflow and by the status route |
| `itemStatus`, `paid`, `finance` | the cached columns the projection writes |
| `blocked` | `orderingBlockedAt` |
| `session` | open (closing requested included) or closed |

The four ways to split a bill become a set of plans: a choice of whole items, all
of one's own, or any cut of the balance at a cent, which covers custom amounts
and, as special cases, equal splits and the full balance. A discount or a reward may leave
an item that costs nothing (`Price` 0): it needs no allocation, and an item without allocations
keeps the status it had, so it stays UNPAID while its order may be paid.

The lock alone does not make a handler see the state of its turn: a serializable
transaction takes its snapshot at the first statement, which is the wait for the
lock. The code is safe because conflicting transactions rewrite rows the other
has read (and the reservation retries the conflict). `TableBill` relies on this
for the handlers that run serializable; `CancelOrder` runs at READ COMMITTED and
looks again after the lock.

### TablePaymentGateway

Each worker (`w`) runs one handler at a time and everything between two awaits of it is one
step: a transaction, or a call of the gateway. `seen` holds the recorded REFUNDED events by
source, because the deduplication key names source and status and only for REFUNDED does having
seen it earlier change what a later one does; `claim` holds the durable claim of a remote
cancellation or refund. `Create`, `Act` and `Query` have an ambiguous failure; `Crash` ends a
handler anywhere and leaves its webhook to be delivered again. `Pay` and `GatewayMoves` are the
world outside.

`PaymentPromise` is what this should amount to: the bill is settled by money
that was paid, reopened only when it went back, and never settled once given up.

### KitchenPrinting

`job` is the row of `KitchenPrintJob`: `status`, `holder` (`claimedByDeviceId`),
`attempts`, and `due`, which stands for both deadlines: `leaseExpiresAt` of a
claimed job and `availableAt` of a failed one have passed. `agent` is the process
of a device, one per device: `at` says where `processOnce` is, and `"acking"`
covers both its first call and `pendingPrintedAck`, which is memory only and dies
in `Crash`. Each request of an agent is one transaction; besides being answered it may be
lost, be served with its answer lost, or be served after the agent gave up (20 s),
for which `late` keeps it. The queue's order is dropped: a claim takes any
candidate, as SKIP LOCKED may. `PrintFails` covers a missing printer and a
command killed by its timeout, after which the copy may be on paper all the same. `paper`,
`disturbed` (a lease expired or a print failed) and `retries` are history.
`Issue` pairs the device again, which takes a new process of the agent.

### NotificationOutbox

The rows of one recipient, whom every rule concerns. Attempt `n` of a row is its `lockToken`;
times are ticks left and saturate. Enqueueing is one statement whose snapshot precedes its
advisory lock: the two are separate steps. `EnqueuePrompt` is the immediate and the superseding
message, which discards what it overtakes (`Discards`). A delivery is reserved, sent, and
recorded, in three steps between which the worker may die or the answer be lost. What was heard,
why a row was discarded and what overtook it is history. The deletion of rows after thirty days
is left out.

### OrderRefund

One order and its payment at one provider, chosen at first (`via`, which is
`Order.paymentProvider`; `Provider` is the set to choose from: Asaas, whose refund is
recorded by the payment and completes later; Mercado Pago, whose key makes a
repeated request the same refund; Efí, with neither). A call is a request, webhook
or job, free again once it ended. An update that repeats every condition its
earlier reading relied on is one step with it. `asked` counts requests by kind,
because cancelling and late refunds use two idempotency keys. The chains of
delivery and pickup are united. `Die` may strike anywhere; a first reading that fails is one.
Declined or partial refunds and those made in the provider's console are left out.

### OrderCapacity

Creation is SERIALIZABLE: it decides on the snapshot taken before its advisory
lock (`seen`), and of two creations that both admit one is aborted and retried.
Payments and admissions are READ COMMITTED and look after the lock. The worker
reads its candidates, then admits each in its own transaction, with the reading in
hand. `place` ranks orders by `capacityQueuedAt`, with equal clocks. PRONTO stands
for SAIU_PARA_ENTREGA too. A restaurant has one provider: where it is Asaas (`kind` "asaas",
`AtAsaas`) the webhook confirms payments without asking the queue, and the properties of
limit and turn are stated for the others. The limit and the settings are fixed; an order of a
table account behaves as a delivery that nobody confirms.

### OrderCardCharge

An attempt is written, its charge is sent, the answer is recorded, the session is
linked and the order confirmed, each a step, with a death or a lost answer between
any two. Polls, the expiration job and webhooks read order, attempt and gateway in
separate steps; the retry's claim and the recovery's binding hold the lock of the
order. `session` carries the prefix and the attempt it names, the marks
`late_refund_pending` and `late_refunded` included. Each attempt has one provider
order, found by its own reference, so `providerOrderId` is not kept; `open` stands
for in-progress states; the thirty seconds before a search are "the search may
come at any time, or fail". Manual confirmation is in `OrderRefund`. Left out: hosted
checkouts, Asaas and Pagar.me (disabled by default), and the payment and preference
topics of the webhook.

A gateway that answers `action_required/pending_challenge` holds an open charge. If the
address of the challenge is missing or not of Mercado Pago,
`DirectOrderCardPaymentService.ts:521-530` throws what it throws for a rejected request:
the row becomes FAILED, the session is not linked and the request ends (`UnsafeChallenge`,
news "unsafe", the variable `unsafe` being the history of such attempts). The customer
may try again beside the open charge, so `OneChargeAtRisk` does not hold, and the
properties of `order_card` name this exception: `OneChargeOrUnsafe`, and the second case of
`DeclinedIsDead`.

### DeliveryDispatch

A courier's claim is one UPDATE, split where PostgreSQL splits it: the snapshot
sees the partner's row, the wait for the lock re-examines the order's row only.
Starting a route locks the courier. Completion takes its check of the courier and
its update together. Reserving, cancelling and booking hold the order's lock; the
request to the partner lies between two transactions, and may be accepted late or
be sent by a process that dies. Quotes, credentials and tracking are left out.

### CouponRedemption

One customer and one campaign. Reward `n` is the row of cycle `n`, whose unique
index makes a second claim of it fail. Claiming is a sequence without a transaction
(expire, read rewards, count purchases, create), while what an order does to
its reward is inside the order's transaction, hence one step. An order that finds
its reward taken is not created. Orders are of three kinds: paid online, paid at
the door, paid by the bill of a table. `earnedWith` is history. Promotional codes and
the clean-up of all orders (refused in production) are left out.

### TableReservation

Booking, changing, transferring and closing are SERIALIZABLE and one step each;
opening a table is several transactions: walk in or check in, inspect, close what
expired, open or refuse. The sweep marks the absent with the clock of its start
(`jobNow`) and settings it reads as it marks. A closed session is `settled` or
`lapsed`; its bill is in `TableBill`, whose `ClosedSessionSettled` is about the two
regular closings. Left out: seats and guests, creating and removing tables, the
five minutes of grace for bookings in the past.

## The runs

One run per component, on the smallest instance in which its hazards occur, and one
that refutes a statement of the code.

| run | question | instance | result |
| --- | --- | --- | --- |
| `job_lease` | is the lease safe and does the job go on? | 2 workers, 3 claims, lease and cooldown of 2 ticks, clock offsets 0 and -2 | holds |
| `table_bill` | is the bill safe, and does an abandoned reservation let go? | 2 orders (an item of 2 cents; one of 1 cent and one that is free), 2 participants, a Pix and a cash intent | holds |
| `table_bill_dropped` | is no paid order cancelled before its refund? | as `table_bill` | no: through the status route |
| `table_payment_gateway` | are books, claims and refunds right? does the detailed model keep the promise? | 2 handlers, 1 crash | holds |
| `kitchen_printing` | is a ticket printed as often as it should be, and does it settle? | 2 devices, 1 ticket of 2 copies, 2 attempts, 1 retry, 1 crash or revocation | holds |
| `notification_outbox` | does one worker send a row, within its attempts, and none an overtaken one? | 2 messages, a limit of 2 attempts, 3 reservations of the first | holds |
| `order_refund` | one refund, cancelled only then, no kitchen meanwhile, every refund reaching its order? | 3 providers, 2 calls | holds |
| `order_capacity` | limit, turn, tickets, and is room used? | 3 orders, 1 place, trigger NEW_ORDER, webhook of Asaas included | holds |
| `order_card` | one charge at risk beside those given up unsafe, true rows, money behind paid orders? | 2 calls, 2 attempts, unsafe challenges included | holds |
| `delivery_dispatch` | one route each, claims kept, one ride? | 2 orders, 2 couriers, 2 calls, card at the door | holds |
| `coupon_redemption` | do rewards follow orders, is the wallet limited, are rewards earned? | 3 orders of each kind, 2 rewards, 2 calls, limit 1 | holds |
| `table_reservation` | is the table kept, and are guests seated once? | 2 tables, 2 reservations, 2 sessions | holds |

The modules state more properties than these runs check, because a larger instance
or another constant shows them. With the changes given they were checked in the same way:

| property | instance | result |
| --- | --- | --- |
| `TypeOK` of each module | that of its run | holds |
| `TableBill`: `ReceivedCashNeverExpires`, `TerminalIsFinal`; `KitchenPrinting`: `PaperIsBounded`, `PrintedIsFinal` | those of their runs | holds |
| `NotificationOutbox`: `RowSettles`, `DiscardHasReason` | `Life` PaidLife, `MaxPicks` and `LastPicks` 3, `Lock` and `MaxDelay` 2 | holds |
| `NotificationOutbox`: `SameOrderSpaced` | 2 orders, `Life` LongLife, `MaxAttempts` 1, `MaxPicks` 0 | holds |
| `OrderRefund`: `RestockedOnce`, `SuccessIsFinal` | `Provider` {"ASAAS"}, 3 calls | holds |
| `OrderCapacity`: `OneBeyondLimit`, `PaymentRespectsQueue` | 4 orders, 2 places | holds |
| `DeliveryDispatch`: `RouteNeedsActiveCourier` | `DoorPayment` "cash" | holds |
| `DeliveryDispatch`: `RideBlocksClaims` | 1 call, 2 request keys | holds |
| `CouponRedemption`: `SettledRewardIsUsed`, `UsedIsFinal` | 1 call, `MaxTime` 3 | holds |
| `CouponRedemption`: `WalletIsLimited` | `Limit` 2, `MaxCycle` and `MaxTime` 3 | holds |
| `TableReservation`: `CompletedWithOwnSession` | that of its run | holds |
| `TableReservation`: `AbsentOnlyWhenLate` | 1 table, 1 reservation, `Tolerance` {0, 1}, 2 calls, `MaxTime` 3 | holds |
| `TableReservation`: `ReservationSettles` | `FairReservationSpec`, 1 table, `Tolerance` {1}, `Enabled` {TRUE, FALSE}, `MaxSession` 1, `MaxTime` 4 | holds |
| `OrderCardCharge`: `OrderConcludes`, `MoneyIsSettled`, `OneChargeAtRisk` | `FairCardSpec`, 1 call, `Dies`, `Cancels` and `UnsafeChallenge` FALSE | holds |
| `JobLease`: `NoConcurrentExecution` | `MaxVersion` 2 | does not hold |
| `TableBill`: `BarredParticipantOwes` | that of its run | does not hold |
| `TableBill`: `BarredDoNotOrder` | both orders of one participant (`SameOwner`) | does not hold |
| `TablePaymentGateway`: `RefundNewsIsKept` | `MaxCrashes` 0 | does not hold |
| `KitchenPrinting`: `PendingAckKeepsJob` | `MaxRetries` 0 | does not hold |
| `NotificationOutbox`: `HeardOnce`, `AttemptsLimited` | that of `RowSettles` | does not hold |
| `NotificationOutbox`: `RecipientSpaced` | 2 orders, `Life` SpacedLife, `MaxAttempts`, `MaxPicks` and `LastPicks` 1 | does not hold |
| `OrderRefund`: `DeliveredIsKept` | `Provider` {"MERCADO_PAGO"}, 1 call | does not hold |
| `OrderRefund`: `ConsultingConcludes` | `Provider` {"ASAAS"}, 1 call | does not hold |
| `OrderCapacity`: `LimitKept`, `StatusAdvances` | 2 orders | does not hold |
| `OrderCapacity`: `NewOrderRespectsQueue` | 3 orders | does not hold |
| `OrderCapacity`: `PaidIsPrinted` | 2 orders, trigger PAYMENT_CONFIRMED | does not hold |
| `CouponRedemption`: `PurchaseEarnsOnce`, `PaidRewardIsUsed` | 2 orders, `Limit` and `Validity` 2, `MaxTime` 2 | does not hold |
| `TableReservation`: `GuestIsAdmitted` | 1 table, `Evening` TRUE, `Tolerance` {1}, `Hours` 3, `MaxSession` 1, `MaxTime` 3 | does not hold |
| `TableReservation`: `SeatedHasSession` | 1 table, `Evening` TRUE, `Tolerance` {1}, `Hours` 1, `MaxTime` 3 | does not hold |
| `OrderCardCharge`: `MarkIsKept`, `FinalStaysFinal` | `MaxAttempt` 1, `Dies`, `Cancels` and `UnsafeChallenge` FALSE | does not hold |
| `OrderCardCharge`: `OrderConcludes` | `FairCardSpec`, 1 call, `MaxAttempt` 1, `Dies` and `UnsafeChallenge` FALSE, `Cancels` TRUE | does not hold |
| `OrderCardCharge`: `OneChargeAtRisk`, `MoneyIsSettled` | `FairCardSpec`, 1 call, `Dies` and `Cancels` FALSE, `UnsafeChallenge` TRUE | does not hold |
| `DeliveryDispatch`: `PartnerExcludesCourier`, `OldKeyStaysDead` | 1 order, 1 courier, 1 call, 2 request keys | does not hold |

Those that do not hold say where the code departs from what it says; each is explained below.

Why the bounds are enough. A lease is disputed by two: the third claim lets the loser come back
and meet a successor of its successor's. On the bill, the hazards need two intents on one item
(two cents, so that it can be cut) and an item and an order beside it; cash and Pix follow
different rules and there is one of each. At the gateway, two handlers give every pair of racing
requests and each may be run any number of times; one crash strikes at every point of them.
Tickets share nothing, so there is one, contended for by two devices; two copies tell apart an
acknowledgement sent too early, two attempts an agent that comes after another, a retry an
acknowledgement of before it. A message needs another that overtakes it and a second attempt
that follows a lost one; the limit of attempts, one reservation above it (`MaxPicks` 3), which
the final message does not need (`LastPicks` 1). Two calls race at an order and either may be
run again; `MaxAsked` is 2 and never reached where the properties hold. One place and three
orders leave two in the queue, so that turn means something. Two attempts at a card give a
charge that is dead and its successor; a call is reused, so two overlap in any way. Two
couriers, orders and calls give every race for an order and for a courier; `DoorPayment` "card"
is the one that must be collected before delivery. Rewards and reservations are bounded by
`MaxCycle`, `MaxSession` and `MaxTime`, which leave room for a late claim, a lapse, and a sweep
that runs behind. The proofs lift the safety properties they cover from these instances to all.

Fairness. `JobLease`: time passes and the interval timer keeps dispatching; an
execution need not end. `TableBill`: the expiration job, which the scheduler
repeats. `TablePaymentGateway`: handlers go on unless they crash (a Node process
runs the continuation of a settled promise), calls of the gateway end (they have
timeouts), and a webhook is delivered until it is answered, hence strong fairness
of its handler; no fairness for people or the gateway itself. `KitchenPrinting`: deadlines
pass, a running agent polls and goes on (print commands and calls have timeouts), and
a call that is repeated is answered some day; nobody need restart an agent, retry a
ticket or issue a credential. `NotificationOutbox`: the drain timer, the timeout of a
request, time; nothing of providers or dying processes. `OrderRefund`: calls go on
or die, requests arrive or are lost; that some consultation starts, which people and
providers repeat, is strongly fair. `OrderCapacity`: the worker runs every ten seconds;
admission is strongly fair, as a transaction may roll back. `OrderCardCharge`: the
window lapses, running calls go on, a request arrives or is lost; the job runs
every minute and webhooks and consultations are repeated, so they and the reading,
search and refund they need are strongly fair; with two calls liveness does not
hold (a stalled call may put an older session back), hence one. `TableReservation`:
time, the sweep and its updates. `CouponRedemption` and `DeliveryDispatch` state no
fairness: people act, nothing is scheduled.

Deadlock is checked for the job lease, where time always passes, and for the outbox, the rewards
and the reservations. The bill, the payments and the printing stop when all is settled or no
agent is left, and an order ends, so their runs do not check it.

Each property of these runs has a mutant in `PROJECT.json`: a defect a change
could bring into the code (operators `Bug_...`) that the run detects.

## Where the code departs from what it says

- `jobs/README.md:8` promises no concurrent execution. `JobRunner` does not abort an execution
  whose lease was lost; `OverlapOnlyAfterExpiry` is what holds. Line 20 of the same file asks
  for idempotent jobs, so this is about the wording of line 8 (`NoConcurrentExecution`).
- A participant who asked for the bill and whose only order is then cancelled remains barred
  from ordering: `cancelWithoutRefund` releases nobody (`BarredParticipantOwes`).
- The bar is read by a middleware and never inside the order transaction (`assertCanCreateOrder`
  has no caller), so an order already past the middleware is accepted (`BarredDoNotOrder`).
- An administrator who sets CANCELADO through `PUT /orders/:id/status` cancels an order the
  table already paid for; the cancellation workflow refuses exactly this
  (`NoCancellationStrandsMoney`, run `table_bill_dropped`).
- A refund whose news arrives before that of the payment is recorded and has no effect; the
  payment is then processed and the intent shows PAID. Reconciliation by the participant
  (another key) or an administrator's refund repairs it (`RefundNewsIsKept`).
- The agent keeps an acknowledgement that failed because "the server lease remains active"
  (`PrintAgentRunner.ts:116`). The lease lasts 60 s, nothing renews it, and a device that cannot
  reach the server for longer finds its ticket printed again by another (`PendingAckKeepsJob`).
- Outbox: a message is sent again when its answer or its record is lost (`HeardOnce`); two
  orders enqueued at once take the same slot, because the statement's snapshot is older than its
  lock (`RecipientSpaced`); a row whose workers die is reserved beyond the limit, which only the
  `catch` checks (`AttemptsLimited`).
- Refunds: an ambiguous answer of Mercado Pago is recorded as FAILED and the refunded order may
  be delivered (`DeliveredIsKept`); Efí is asked again (`OneRefund` leaves it out); a call that
  dies between the claim and the request leaves PROCESSING, which is only ever consulted
  (`ConsultingConcludes`).
- Capacity: a creation on an old snapshot exceeds the limit by one (`LimitKept`) and may pass
  the queue (`NewOrderRespectsQueue`); the webhook of Asaas does not ask the queue; an admission
  resets the status of an order the staff advanced (`StatusAdvances`); an order paid between the
  worker's reading and its admission gets no ticket (`PaidIsPrinted`).
- Card: a challenge without a safe address is recorded as a rejected request, and the
  attempt, whose charge is open, blocks no new charge, although
  `OrderPaymentAttemptRepository.ts:68-69` says that it does (`OneChargeAtRisk` with
  `UnsafeChallenge`). Were that charge processed later, no poll, job or order event would
  find it, as it is neither active nor linked (`MoneyIsSettled` with `UnsafeChallenge`; the
  payment topic of the webhook, not modelled, goes by the reference). That the test
  `DirectOrderCardPaymentService.test.ts:507` wants the rejection does not settle what the
  row should then say. Also, the webhook writes the session over the mark of a late refund (`MarkIsKept`); the update
  of an attempt ignores what it is by then (`FinalStaysFinal`); the job passes over orders whose
  charge the gateway cancelled (`OrderConcludes` with `Cancels`).
- Delivery: a claim that waits for a reservation of its order goes through
  (`PartnerExcludesCourier`); the key of a reservation before the last one reserves again
  (`OldKeyStaysDead`).
- Coupons: a purchase delivered during a claim earns twice (`PurchaseEarnsOnce`); the reward of
  a table order served before its bill is paid stays reserved (`PaidRewardIsUsed`).
- Reservations: a check-in is refused because of another reservation of the table within twelve
  hours (`GuestIsAdmitted`); a session that expired leaves its reservation SEATED
  (`SeatedHasSession`).

## The proofs

Checked by TLAPS, from the named assumptions of the constants only. Three modules of proofs are
about two components each, which touch each other in the system (tables, gateways, the job that
expires rewards) but share no variable: there the definitions of the second component carry its
name (`ReservationSpec`, `CardSpec`, `CouponSpec`), so that one module can extend both.

- `LoyaltyJobProofs`, job lease. An execution that is not of the row's current claim is of an
  expired one (`HolderOrExpired`). That is only inductive together with: an owned row
  at its deadline is recorded as expired (`OwnedRow`), versions and outcomes do
  not run ahead of the row (`VersionsBounded`). From it: `OverlapOnlyAfterExpiry`,
  `SingleOutcome`, `CooldownNeverShortened`, `TypeOK`.
- `LoyaltyJobProofs`, rewards. A claim reads the wallet, counts and grants in separate steps.
  What it read stays good exactly as long as the cycle it read as free is free (`Fresh`), since
  calls take the first free cycle (`Gapless`, `Turns`) and a second grant of it fails: until then
  the wallet has room (`Room`), no claim is later than the one it counts from (`Watermark`), and
  what it counted was delivered after that (`CountedLate`). A step other than a grant only ages
  rewards (`RewardMoves`, `NothingRevives`). From these (`CInv`): `RewardFollowsOrder`,
  `WalletIsLimited`, `EarnedSinceLastClaim`, `SettledRewardIsUsed`, `UsedIsFinal`,
  `CouponTypeOK`, for any orders, calls and limit.
- `TableProofs`, life of intents. Every transaction moves an intent along its life cycle and
  gives a new intent cents of billed items only (`Lawful`, `PlanOnlyBilled`); hence
  `CanceledItemHoldsNoMoney`, `ReceivedCashNeverExpires`, `TerminalIsFinal`. The
  strengthening is `ReceivedIsKept`: a received intent is pending, paid or refunded.
- `TableProofs`, ledger. `LInv` adds that every item's committed cents stay within its price, that
  the cached columns are the projection of the ledger, and that no order or intent of a closed
  session is unsettled; what was not ordered yet is free and what no intent ever held is shown as
  unpaid (`FreshIsFree`), without which a projection that keeps old statuses could not be trusted.
  `AvailableFacts` says that the available cents and the committed ones make up the price
  whatever a handler takes for lapsed; `ReserveKeepsLedger` that a plan never exceeds them. Sums
  over sets of intents are handled by `SmallestSet`, a smallest counterexample in place of an
  induction, from which follow that sums are natural, monotone, and additive in one element.
  From these: `NoOverAllocation`, `ProjectionFollowsLedger`, `ClosedSessionSettled`, `TypeOK`,
  for any items, prices, payers and intents.
- `TableProofs`, reservations. Bookings and transfers look at their table in the transaction that
  writes; an opening looks again in the transaction that opens, whatever its earlier ones read;
  everything else only takes reservations away (`Fading`, `Kinds`). The columns of rows that were
  never written and what calls remember have to be typed (`Columns`), and guests sit in a session
  that was opened (`SeatsExist`). From these (`RInv`): `ReservedTableIsKept`, `ConfirmedApart`,
  `CompletedWithOwnSession`, `SeatedOnce`, `AbsentOnlyWhenLate`, `ReservationTypeOK`.
- `PaymentGatewayProofs`, table payments. A charge only moves forward, so what a handler saw
  stays true however late it acts on it (`Truth`, in `Good`); a claim is taken
  once, so at most one handler has a refund in hand (`RefundInHand`). From these:
  `BooksAreBacked`, `ClaimsAreTrue`, `RefundSentOnce`, `TypeOK`, and the refinement
  `KeepsPromise`.
- `PaymentGatewayProofs`, card charges. What a call was told of a charge stays true (`StillTrue`),
  as a dead charge stays dead and money taken stays taken or returned (`Lasting`); so what a final
  row says is so, whoever wrote it and however late (`RowTruth`), except that EXPIRED may only
  mean that the window is over (`past`), when no retry is accepted any more, and that FAILED may
  be that of a challenge without a safe address (`unsafe`). A retry is written when every row is
  final, hence when every charge is dead or unsafe: all attempts but the latest are (`Before`). A late refund is claimed of an order that is cancelled and unpaid for ever (`Lost`),
  so no confirmation wins against it. From these (`CardInv`): `OneChargeOrUnsafe`,
  hence `OneChargeAtRisk` as long as `unsafe` is empty, `DeclinedIsDead`, `PaidIsHeld`,
  `CardTypeOK`, for any number of calls and attempts.
- `KitchenPrintingProofs`. Printed copies grow with the agent's progress, and a request to
  record a ticket as printed is only sent with every copy on paper, so it may arrive at any time
  (`OnPaper`). A ticket not disturbed is untouched, or on its first claim, in the hands of
  one agent at most and never printed beyond its progress (`FirstClaimOnly`). From these:
  `PrintedIsOnPaper`, `UndisturbedPrintsOnce`, `PrintedIsFinal`, `TypeOK`.
- `NotificationOutboxProofs`. A row that is held has one sender, whose attempt is the
  current one (`Held`, `Reserved`); attempts start below the limit or after a lock that
  expired (`BelowLimit`); what was overtaken is settled (`OvertakenSettled`). From these:
  `OneSenderPerRow`, `DiscardHasReason`, `ExtraAttemptOnlyAfterExpiry`, `OvertakenNeverReserved`.
- `OrderRefundProofs`. The claim `refundStatus = PROCESSING` works as a lock: one call
  holds it (`OneHolder`, `Held`), and nothing is asked of Asaas outside it (`AsaasQuiet`).
  From these: `OneRefund` (for providers other than Efí), `CancelledIsReturned`,
  `RestockedOnce`, `KitchenStops`, `SuccessIsFinal`, `TypeOK`.
- `OrderCapacityProofs`. Only a creation decides on old numbers, and one at a time
  (`Cap`, `Places`); the candidates ahead of one admitted are fewer than the room
  (`Turn`, with the lemma `Lowest` that counts candidates by rank); `Tickets`. From these the safety
  properties of `order_capacity`, `OneBeyondLimit` and `PaymentRespectsQueue`; those of limit
  and turn say nothing of a restaurant at Asaas (`~AtAsaas`).
- `DeliveryDispatchProofs`. Calls hold couriers and orders as locks (`Calls`, `Held`,
  `Free`), and a ride belongs to the reservation that asked for it (`Rides`). From these the
  properties of `delivery_dispatch`, `RideBlocksClaims` and `RouteNeedsActiveCourier`.

Only model-checked: `PaperIsBounded`, `SameOrderSpaced`, the type of the outbox, and liveness
(`DeadHolderReplaced`, `LapsedIsReleased`, `MoneyIsAccountedFor`, `TicketSettles`, `RowSettles`,
`RequestReachesOrder`, `VacancyIsUsed`, `OrderConcludes`, `MoneyIsSettled`,
`ReservationSettles`), which is beyond the prover. Every safety property that a run checks is a
theorem.

## What is not modelled

In `TableBill`: orders paid one by one (PAY_NOW), the service fee, the expiry of a session,
staff compensation, printing on payment, access of participants. Its gateway is open, any
evidence may arrive; `TablePaymentGateway` restricts it. `StaffReceives` may revive a
reservation that lapsed and was not swept yet without projecting it again, as the code does; the
next projection repairs it. In `TablePaymentGateway`: card payments, whose references differ,
and amount or currency mismatches, which fail like a query. In `KitchenPrinting`: which event of
an order creates its ticket, the order of the queue, settings and pairing. A rider's ride that
goes on after the order is refunded or cancelled, and orders that stay claimed by a dismissed
courier, are hazards without a property. Components without a protocol of their own (catalogue,
settings, media, import, front end, deployment) have no module; nor, so far, do those with one
that no module above touches: authentication, billing and subscription, card terminals,
compensation, the transport of realtime events. Most of the repository's lines are screens,
styles and queries, which have no state worth a model.

## Plan

Done: the modules above. Left: `OrderCardCharge` for overlapping calls under fairness;
the snapshots of the serializable handlers of `TableBill` made explicit.
