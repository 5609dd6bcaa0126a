-------------------------- MODULE DeliveryDispatch --------------------------
(***************************************************************************)
(* Who carries a ready delivery: one of the restaurant's couriers, who     *)
(* claims it, starts a route and completes it, or a partner (Lalamove),    *)
(* for whom an administrator reserves it and books a ride.                 *)
(*                                                                         *)
(* A claim is one UPDATE whose WHERE also looks at the partner's row. At   *)
(* READ COMMITTED the order is examined again after waiting for its lock,  *)
(* the other row is not: it is as the statement found it when it began.    *)
(* Reserving, releasing and booking hold the lock of the order and read    *)
(* after it. Left out: quotes, credentials, expected versions and the      *)
(* tracking of a ride, which only refuse more or change nothing else, and  *)
(* orders of other types.                                                  *)
(***************************************************************************)
EXTENDS Naturals

CONSTANTS
  Courier, NoCourier,
  Order, NoOrder,  \* deliveries of one restaurant, ready when the model starts
  Call, NoCall,    \* requests to start a route
  RequestKey,      \* keys chosen by the administrator's screens
  Kind             \* of each order: paid "online", or "cash" or "card" at the door

ASSUME DispatchAssumption ==
  /\ NoCourier \notin Courier /\ NoOrder \notin Order /\ NoCall \notin Call
  /\ Kind \in [Order -> {"online", "cash", "card"}]

VARIABLES
  status, paid, refund,
  courier,   \* Order.assignedCourierId
  active,    \* User.active of each courier
  claiming,  \* the order a courier's running claim found available
  pc, who, what,  \* of each call: its progress, its courier and its order
  holder,    \* the call that has the row of a courier locked
  dispatch,  \* RestaurantExternalDeliveryDispatch.status, "none" without a row
  key,       \* its requestKey, as a set of at most one
  used,      \* keys an order was ever reserved with
  asked,     \* requests for a ride sent to the partner
  held,      \* rides the partner has accepted
  booking    \* the running call of book: "none", "sent", "placed", "failed"

order == <<status, paid, refund>>
route == <<pc, who, what, holder>>
partner == <<dispatch, key, used, asked, held, booking>>
vars == <<order, courier, active, claiming, route, partner>>

TypeOK ==
  /\ status \in [Order -> {"PRONTO", "SAIU_PARA_ENTREGA", "ENTREGUE", "CANCELADO"}]
  /\ paid \in [Order -> BOOLEAN]
  /\ refund \in [Order -> {"NOT_REQUESTED", "PROCESSING", "SUCCEEDED", "FAILED"}]
  /\ courier \in [Order -> Courier \cup {NoCourier}]
  /\ active \in [Courier -> BOOLEAN]
  /\ claiming \in [Courier -> Order \cup {NoOrder}]
  /\ pc \in [Call -> {"idle", "waiting", "locked", "free"}]
  /\ who \in [Call -> Courier \cup {NoCourier}]
  /\ what \in [Call -> Order \cup {NoOrder}]
  /\ holder \in [Courier -> Call \cup {NoCall}]
  /\ dispatch \in [Order -> {"none", "PREPARED", "DISPATCHING", "UNKNOWN",
                             "ACTIVE", "CANCELED"}]
  /\ key \in [Order -> SUBSET RequestKey] /\ used \in [Order -> SUBSET RequestKey]
  /\ asked \in [Order -> Nat] /\ held \in [Order -> Nat]
  /\ booking \in [Order -> {"none", "sent", "placed", "failed"}]

Init ==
  /\ status = [o \in Order |-> "PRONTO"]
  /\ paid = [o \in Order |-> Kind[o] = "online"]
  /\ refund = [o \in Order |-> "NOT_REQUESTED"]
  /\ courier = [o \in Order |-> NoCourier]
  /\ active = [c \in Courier |-> TRUE]
  /\ claiming = [c \in Courier |-> NoOrder]
  /\ pc = [k \in Call |-> "idle"]
  /\ who = [k \in Call |-> NoCourier] /\ what = [k \in Call |-> NoOrder]
  /\ holder = [c \in Courier |-> NoCall]
  /\ dispatch = [o \in Order |-> "none"]
  /\ key = [o \in Order |-> {}] /\ used = [o \in Order |-> {}]
  /\ asked = [o \in Order |-> 0] /\ held = [o \in Order |-> 0]
  /\ booking = [o \in Order |-> "none"]

-----------------------------------------------------------------------------
(* A courier claims a ready order.                                         *)
Refunding(o) == refund[o] \in {"PROCESSING", "SUCCEEDED"}

Bug_ClaimableTaken(o) ==
  status[o] = "PRONTO" /\ ~Refunding(o) /\ (Kind[o] = "online" => paid[o])
Claimable(o) ==
  /\ status[o] = "PRONTO" /\ courier[o] = NoCourier /\ ~Refunding(o)
  /\ Kind[o] = "online" => paid[o]

Released(o) == dispatch[o] \in {"none", "CANCELED"}

BeginClaim(c, o) ==
  /\ active[c] /\ claiming[c] = NoOrder
  /\ Claimable(o) /\ Released(o)
  /\ claiming' = [claiming EXCEPT ![c] = o]
  /\ UNCHANGED <<order, courier, active, route, partner>>

EndClaim(c) ==
  /\ claiming[c] # NoOrder
  /\ courier' = IF Claimable(claiming[c])
                THEN [courier EXCEPT ![claiming[c]] = c] ELSE courier
  /\ claiming' = [claiming EXCEPT ![c] = NoOrder]
  /\ UNCHANGED <<order, active, route, partner>>

-----------------------------------------------------------------------------
(* A courier starts the route of an order: StartCourierRouteService.       *)
AskRoute(k, c, o) ==
  /\ pc[k] = "idle" /\ active[c]
  /\ pc' = [pc EXCEPT ![k] = "waiting"]
  /\ who' = [who EXCEPT ![k] = c] /\ what' = [what EXCEPT ![k] = o]
  /\ UNCHANGED <<order, courier, active, claiming, holder, partner>>

Bug_LockableBusy(k) == active[who[k]]
Lockable(k) == holder[who[k]] = NoCall /\ active[who[k]]

LockCourier(k) ==
  /\ pc[k] = "waiting" /\ Lockable(k)
  /\ pc' = [pc EXCEPT ![k] = "locked"]
  /\ holder' = [holder EXCEPT ![who[k]] = k]
  /\ UNCHANGED <<order, courier, active, claiming, who, what, partner>>

Finish(k) ==
  /\ pc' = [pc EXCEPT ![k] = "idle"]
  /\ who' = [who EXCEPT ![k] = NoCourier] /\ what' = [what EXCEPT ![k] = NoOrder]

(* The row is locked, but the courier has been dismissed meanwhile.        *)
RefuseInactive(k) ==
  /\ pc[k] = "waiting" /\ holder[who[k]] = NoCall /\ ~active[who[k]]
  /\ Finish(k)
  /\ UNCHANGED <<order, courier, active, claiming, holder, partner>>

OnRoute(c) == {o \in Order : courier[o] = c /\ status[o] = "SAIU_PARA_ENTREGA"}

FindNoRoute(k) ==
  /\ pc[k] = "locked" /\ OnRoute(who[k]) = {}
  /\ pc' = [pc EXCEPT ![k] = "free"]
  /\ UNCHANGED <<order, courier, active, claiming, who, what, holder, partner>>

Unlock(k) == holder' = [holder EXCEPT ![who[k]] = NoCall]

(* Either another route runs, or this one had already been started.        *)
FindRoute(k) ==
  /\ pc[k] = "locked" /\ OnRoute(who[k]) # {}
  /\ Finish(k) /\ Unlock(k)
  /\ UNCHANGED <<order, courier, active, claiming, partner>>

Startable(o, c) ==
  /\ courier[o] = c /\ status[o] = "PRONTO" /\ ~Refunding(o)
  /\ Kind[o] = "online" => paid[o]

StartRoute(k) ==
  /\ pc[k] = "free" /\ Startable(what[k], who[k])
  /\ status' = [status EXCEPT ![what[k]] = "SAIU_PARA_ENTREGA"]
  /\ Finish(k) /\ Unlock(k)
  /\ UNCHANGED <<paid, refund, courier, active, claiming, partner>>

RefuseRoute(k) ==
  /\ pc[k] = "free" /\ ~Startable(what[k], who[k])
  /\ Finish(k) /\ Unlock(k)
  /\ UNCHANGED <<order, courier, active, claiming, partner>>

-----------------------------------------------------------------------------
(* Completion, payment at the door, cancellation and refund.               *)
CompleteByCourier(c, o) ==
  /\ active[c] /\ courier[o] = c
  /\ status[o] = "SAIU_PARA_ENTREGA" /\ ~Refunding(o)
  /\ paid[o] \/ Kind[o] = "cash"
  /\ status' = [status EXCEPT ![o] = "ENTREGUE"]
  /\ UNCHANGED <<paid, refund, courier, active, claiming, route, partner>>

CompleteByAdmin(o) ==
  /\ status[o] = "SAIU_PARA_ENTREGA" /\ ~Refunding(o) /\ paid[o]
  /\ status' = [status EXCEPT ![o] = "ENTREGUE"]
  /\ UNCHANGED <<paid, refund, courier, active, claiming, route, partner>>

(* The administrator confirms the cash, or the terminal confirms the card. *)
Collect(o) ==
  /\ Kind[o] # "online" /\ ~paid[o] /\ status[o] # "CANCELADO"
  /\ paid' = [paid EXCEPT ![o] = TRUE]
  /\ UNCHANGED <<status, refund, courier, active, claiming, route, partner>>

Open(o) == status[o] \notin {"ENTREGUE", "CANCELADO"}

CancelWithoutRefund(o) ==
  /\ Kind[o] # "online" /\ Open(o)
  /\ status' = [status EXCEPT ![o] = "CANCELADO"]
  /\ UNCHANGED <<paid, refund, courier, active, claiming, route, partner>>

ClaimRefund(o) ==
  /\ Kind[o] = "online" /\ Open(o) /\ ~Refunding(o)
  /\ refund' = [refund EXCEPT ![o] = "PROCESSING"]
  /\ UNCHANGED <<status, paid, courier, active, claiming, route, partner>>

SettleRefund(o) ==
  /\ refund[o] = "PROCESSING"
  /\ \E r \in {"SUCCEEDED", "FAILED"} : refund' = [refund EXCEPT ![o] = r]
  /\ UNCHANGED <<status, paid, courier, active, claiming, route, partner>>

CancelRefunded(o) ==
  /\ refund[o] = "SUCCEEDED" /\ Open(o)
  /\ status' = [status EXCEPT ![o] = "CANCELADO"]
  /\ UNCHANGED <<paid, refund, courier, active, claiming, route, partner>>

(* The update of the courier's row waits for whoever has it locked.        *)
Deactivate(c) ==
  /\ active[c] /\ holder[c] = NoCall
  /\ active' = [active EXCEPT ![c] = FALSE]
  /\ UNCHANGED <<order, courier, claiming, route, partner>>

Reactivate(c) ==
  /\ ~active[c] /\ holder[c] = NoCall
  /\ active' = [active EXCEPT ![c] = TRUE]
  /\ UNCHANGED <<order, courier, claiming, route, partner>>

-----------------------------------------------------------------------------
(* An administrator reserves an order for the partner and books a ride.    *)
Eligible(o) ==
  /\ status[o] = "PRONTO" /\ paid[o] /\ Kind[o] = "online"
  /\ courier[o] = NoCourier /\ refund[o] = "NOT_REQUESTED"

Prepare(o, r) ==
  /\ Released(o) /\ r \notin key[o] /\ Eligible(o)
  /\ dispatch' = [dispatch EXCEPT ![o] = "PREPARED"]
  /\ key' = [key EXCEPT ![o] = {r}]
  /\ used' = [used EXCEPT ![o] = @ \cup {r}]
  /\ UNCHANGED <<order, courier, active, claiming, route, asked, held, booking>>

Cancelable(o) == dispatch[o] = "PREPARED"

Cancel(o) ==
  /\ Cancelable(o)
  /\ dispatch' = [dispatch EXCEPT ![o] = "CANCELED"]
  /\ UNCHANGED <<order, courier, active, claiming, route, key, used, asked, held, booking>>

(* The transaction that reserves the one attempt; the request follows it.  *)
Book(o) ==
  /\ Eligible(o) /\ dispatch[o] = "PREPARED"
  /\ dispatch' = [dispatch EXCEPT ![o] = "DISPATCHING"]
  /\ asked' = [asked EXCEPT ![o] = @ + 1]
  /\ booking' = [booking EXCEPT ![o] = "sent"]
  /\ UNCHANGED <<order, courier, active, claiming, route, key, used, held>>

(* The partner accepts a ride it was asked for, perhaps long afterwards.   *)
Accept(o) ==
  /\ held[o] < asked[o]
  /\ held' = [held EXCEPT ![o] = @ + 1]
  /\ UNCHANGED <<order, courier, active, claiming, route, dispatch, key, used, asked, booking>>

(* Its answer arrives, or an error or a timeout comes instead.             *)
Answer(o) ==
  /\ booking[o] = "sent"
  /\ \/ held[o] > 0 /\ booking' = [booking EXCEPT ![o] = "placed"]
     \/ booking' = [booking EXCEPT ![o] = "failed"]
  /\ UNCHANGED <<order, courier, active, claiming, route, dispatch, key, used, asked, held>>

Bug_OutcomeRetries(o) == IF booking[o] = "placed" THEN "ACTIVE" ELSE "PREPARED"
Outcome(o) == IF booking[o] = "placed" THEN "ACTIVE" ELSE "UNKNOWN"

Record(o) ==
  /\ booking[o] \in {"placed", "failed"}
  /\ dispatch' = IF dispatch[o] = "DISPATCHING"
                 THEN [dispatch EXCEPT ![o] = Outcome(o)] ELSE dispatch
  /\ booking' = [booking EXCEPT ![o] = "none"]
  /\ UNCHANGED <<order, courier, active, claiming, route, key, used, asked, held>>

(* The process dies before it records the outcome.                         *)
Die(o) ==
  /\ booking[o] # "none"
  /\ booking' = [booking EXCEPT ![o] = "none"]
  /\ UNCHANGED <<order, courier, active, claiming, route, dispatch, key, used, asked, held>>

-----------------------------------------------------------------------------
OwnCourier ==
  \/ \E c \in Courier, o \in Order : BeginClaim(c, o) \/ CompleteByCourier(c, o)
  \/ \E c \in Courier : EndClaim(c) \/ Deactivate(c) \/ Reactivate(c)
  \/ \E k \in Call, c \in Courier, o \in Order : AskRoute(k, c, o)
  \/ \E k \in Call :
       LockCourier(k) \/ RefuseInactive(k) \/ FindNoRoute(k) \/ FindRoute(k)
         \/ StartRoute(k) \/ RefuseRoute(k)

Administration ==
  \E o \in Order :
    CompleteByAdmin(o) \/ Collect(o) \/ CancelWithoutRefund(o)
      \/ ClaimRefund(o) \/ SettleRefund(o) \/ CancelRefunded(o)

Partner ==
  \E o \in Order :
    \/ \E r \in RequestKey : Prepare(o, r)
    \/ Cancel(o) \/ Book(o) \/ Accept(o) \/ Answer(o) \/ Record(o) \/ Die(o)

Next == OwnCourier \/ Administration \/ Partner

Spec == Init /\ [][Next]_vars

-----------------------------------------------------------------------------
(* A courier has at most one route running, however many requests to start *)
(* one arrive at once (StartCourierRouteService).                          *)
OneRoutePerCourier == \A c \in Courier : \A o, p \in OnRoute(c) : o = p

(* Of the couriers who claim an order one gets it, and no later claim takes *)
(* it from him (the guarded update of ClaimOrderForDeliveryService).       *)
CourierIsKept ==
  [][\A o \in Order : courier[o] # NoCourier => courier'[o] = courier[o]]_vars

(* Nobody sets out after being dismissed, even when the dismissal falls    *)
(* between the checks of his request (StartCourierRouteService).           *)
RouteNeedsActiveCourier ==
  [][\A o \in Order : status[o] = "PRONTO" /\ status'[o] = "SAIU_PARA_ENTREGA"
                         => courier[o] \in Courier /\ active[courier[o]]]_vars

(* The partner is asked for at most one ride per order, whatever happened  *)
(* to the answer (LalamoveSandboxBookingService never retries).            *)
PartnerAskedOnce == \A o \in Order : asked[o] <= 1

(* A ride the partner may hold keeps the order from every claim that has   *)
(* not begun (ownCourierDispatchBoundary fails closed).                    *)
RideBlocksClaims ==
  \A o \in Order :
    asked[o] > 0 => ~Released(o) /\ (held[o] > 0 => dispatch[o] # "PREPARED")

(* An order reserved for the partner is in no courier's hands              *)
(* (ownCourierDispatchBoundary.ts).                                        *)
PartnerExcludesCourier ==
  \A o \in Order : ~Released(o) => courier[o] = NoCourier

(* A key that served an earlier reservation makes no new one               *)
(* (LalamoveDispatchPreparationService).                                   *)
OldKeyStaysDead ==
  [][\A o \in Order : dispatch[o] = "CANCELED" /\ dispatch'[o] = "PREPARED"
                         => key'[o] \cap used[o] = {}]_vars
=============================================================================
