----------------------- MODULE DeliveryDispatchProofs -----------------------
(***************************************************************************)
(* Safety of DeliveryDispatch for any couriers, orders and calls. Routes   *)
(* rest on the lock: a call past it is the holder of its courier's row,    *)
(* so what it has read of the courier stays true until it ends. Rides rest *)
(* on the status: nothing that may be booked has been asked for.           *)
(***************************************************************************)
EXTENDS DeliveryDispatch, TLAPS

Inside(k) == pc[k] \in {"locked", "free"}

(* A call that runs knows its courier and its order.                       *)
Calls == \A k \in Call : pc[k] # "idle" => who[k] \in Courier /\ what[k] \in Order

(* Past the lock it holds the row of a courier who is active ...           *)
Held == \A k \in Call : Inside(k) => holder[who[k]] = k /\ active[who[k]]

(* ... and past the search, of one who has no route.                       *)
Free == \A k \in Call : pc[k] = "free" => OnRoute(who[k]) = {}

(* No ride is asked for before its reservation is marked as sent.          *)
Rides ==
  \A o \in Order :
    /\ asked[o] <= 1 /\ held[o] <= asked[o]
    /\ dispatch[o] \in {"none", "PREPARED", "CANCELED"} => asked[o] = 0

IInv == TypeOK /\ Calls /\ Held /\ Free /\ OneRoutePerCourier /\ Rides

(* Every action keeps the types.                                           *)
LEMMA TypeStep == ASSUME TypeOK, Calls, [Next]_vars PROVE TypeOK'
<1> USE DispatchAssumption DEF TypeOK, order, route, partner
<1>1. CASE OwnCourier
  <2>1. ASSUME NEW c \in Courier, NEW o \in Order, BeginClaim(c, o) PROVE TypeOK'
    BY <2>1 DEF BeginClaim
  <2>2. ASSUME NEW c \in Courier, NEW o \in Order, CompleteByCourier(c, o) PROVE TypeOK'
    BY <2>2 DEF CompleteByCourier
  <2>3. ASSUME NEW c \in Courier, EndClaim(c) PROVE TypeOK'
    BY <2>3 DEF EndClaim
  <2>4. ASSUME NEW c \in Courier, Deactivate(c) \/ Reactivate(c) PROVE TypeOK'
    <3>1. active' \in [Courier -> BOOLEAN] BY <2>4 DEF Deactivate, Reactivate
    <3>2. UNCHANGED <<order, courier, claiming, route, partner>>
      BY <2>4 DEF Deactivate, Reactivate
    <3> QED BY <3>1, <3>2
  <2>5. ASSUME NEW k \in Call, NEW c \in Courier, NEW o \in Order, AskRoute(k, c, o)
        PROVE  TypeOK'
    BY <2>5 DEF AskRoute
  <2>6. ASSUME NEW k \in Call, LockCourier(k) PROVE TypeOK'
    BY <2>6 DEF LockCourier
  <2>7. ASSUME NEW k \in Call, RefuseInactive(k) \/ FindNoRoute(k) PROVE TypeOK'
    BY <2>7 DEF RefuseInactive, FindNoRoute, Finish
  <2>8. ASSUME NEW k \in Call, FindRoute(k) \/ RefuseRoute(k) PROVE TypeOK'
    BY <2>8 DEF FindRoute, RefuseRoute, Finish, Unlock
  <2>9. ASSUME NEW k \in Call, StartRoute(k) PROVE TypeOK'
    BY <2>9 DEF StartRoute, Finish, Unlock
  <2> QED BY <1>1, <2>1, <2>2, <2>3, <2>4, <2>5, <2>6, <2>7, <2>8, <2>9 DEF OwnCourier
<1>2. CASE Administration
  <2>1. ASSUME NEW o \in Order,
               CompleteByAdmin(o) \/ CancelWithoutRefund(o) \/ CancelRefunded(o)
        PROVE  TypeOK'
    BY <2>1 DEF CompleteByAdmin, CancelWithoutRefund, CancelRefunded
  <2>2. ASSUME NEW o \in Order, ClaimRefund(o) \/ SettleRefund(o) PROVE TypeOK'
    BY <2>2 DEF ClaimRefund, SettleRefund
  <2>3. ASSUME NEW o \in Order, Collect(o) PROVE TypeOK'
    BY <2>3 DEF Collect
  <2> QED BY <1>2, <2>1, <2>2, <2>3 DEF Administration
<1>3. CASE Partner
  <2>1. ASSUME NEW o \in Order, NEW r \in RequestKey, Prepare(o, r) PROVE TypeOK'
    BY <2>1 DEF Prepare
  <2>2. ASSUME NEW o \in Order, Cancel(o) \/ Die(o) PROVE TypeOK'
    BY <2>2 DEF Cancel, Die
  <2>3. ASSUME NEW o \in Order, Book(o) PROVE TypeOK'
    BY <2>3 DEF Book
  <2>4. ASSUME NEW o \in Order, Accept(o) \/ Answer(o) PROVE TypeOK'
    BY <2>4 DEF Accept, Answer
  <2>5. ASSUME NEW o \in Order, Record(o) PROVE TypeOK'
    BY <2>5 DEF Record, Outcome
  <2> QED BY <1>3, <2>1, <2>2, <2>3, <2>4, <2>5 DEF Partner
<1>4. CASE UNCHANGED vars
  BY <1>4 DEF vars
<1> QED BY <1>1, <1>2, <1>3, <1>4 DEF Next

(* What the calls hold, when no call moves.                                *)
LEMMA RouteQuiet ==
  ASSUME TypeOK, Calls, Held, Free, OneRoutePerCourier, UNCHANGED route,
         \A c \in Courier : holder[c] \in Call => active'[c] = active[c],
         \A c \in Courier : OnRoute(c)' \subseteq OnRoute(c)
  PROVE  (Calls /\ Held /\ Free /\ OneRoutePerCourier)'
<1>1. Calls' BY DEF Calls, route
<1>2. Held' BY DEF Held, Calls, Inside, route
<1>3. Free' BY DEF Free, Calls, route
<1>4. OneRoutePerCourier' BY DEF OneRoutePerCourier
<1> QED BY <1>1, <1>2, <1>3, <1>4

(* Every action keeps what the calls to start a route rely on.             *)
LEMMA RouteStep ==
  ASSUME IInv, [Next]_vars
  PROVE  (Calls /\ Held /\ Free /\ OneRoutePerCourier)'
<1> USE DispatchAssumption DEF IInv, order, route
<1> DEFINE Goal == (Calls /\ Held /\ Free /\ OneRoutePerCourier)'
<1>q. ASSUME UNCHANGED <<active, route>>,
             \A c \in Courier : OnRoute(c)' \subseteq OnRoute(c)
      PROVE  Goal
  BY <1>q, RouteQuiet
<1>s. ASSUME UNCHANGED <<courier, active, route>>,
             \A o \in Order : status'[o] # "SAIU_PARA_ENTREGA" \/ status'[o] = status[o]
      PROVE  Goal
  <2>1. \A c \in Courier : OnRoute(c)' \subseteq OnRoute(c) BY <1>s DEF OnRoute
  <2> QED BY <1>s, <1>q, <2>1
<1>1. CASE OwnCourier
  <2>1. ASSUME NEW c \in Courier, NEW o \in Order, BeginClaim(c, o) PROVE Goal
    BY <2>1, <1>s DEF BeginClaim
  <2>2. ASSUME NEW c \in Courier, NEW o \in Order, CompleteByCourier(c, o) PROVE Goal
    BY <2>2, <1>s DEF CompleteByCourier, TypeOK
  <2>3. ASSUME NEW c \in Courier, EndClaim(c) PROVE Goal
    <3>1. UNCHANGED <<status, active, route>> BY <2>3 DEF EndClaim
    <3>2. \A o \in Order : courier'[o] # courier[o] => status[o] = "PRONTO"
      BY <2>3 DEF EndClaim, Claimable, TypeOK
    <3>3. \A d \in Courier : OnRoute(d)' \subseteq OnRoute(d) BY <3>1, <3>2 DEF OnRoute
    <3> QED BY <3>1, <3>3, <1>q
  <2>4. ASSUME NEW c \in Courier, Deactivate(c) \/ Reactivate(c) PROVE Goal
    <3>1. UNCHANGED <<order, courier, route>> BY <2>4 DEF Deactivate, Reactivate
    <3>2. \A d \in Courier : holder[d] \in Call => active'[d] = active[d]
      BY <2>4 DEF Deactivate, Reactivate, TypeOK
    <3>3. \A d \in Courier : OnRoute(d)' \subseteq OnRoute(d) BY <3>1 DEF OnRoute
    <3> QED BY <3>1, <3>2, <3>3, RouteQuiet
  <2>5. ASSUME NEW k \in Call, NEW c \in Courier, NEW o \in Order, AskRoute(k, c, o)
        PROVE  Goal
    <3>1. Calls' BY <2>5 DEF AskRoute, Calls, TypeOK
    <3>2. Held' BY <2>5 DEF AskRoute, Held, Inside, TypeOK
    <3>3. Free' BY <2>5 DEF AskRoute, Free, OnRoute, TypeOK
    <3>4. OneRoutePerCourier' BY <2>5 DEF AskRoute, OneRoutePerCourier, OnRoute
    <3> QED BY <3>1, <3>2, <3>3, <3>4
  <2>6. ASSUME NEW k \in Call, LockCourier(k) PROVE Goal
    <3>0. who[k] \in Courier /\ holder[who[k]] = NoCall /\ active[who[k]]
      BY <2>6 DEF LockCourier, Lockable, Calls
    <3>1. Calls' BY <2>6 DEF LockCourier, Calls, TypeOK
    <3>2. Held'
      <4> SUFFICES ASSUME NEW j \in Call, Inside(j)'
                   PROVE  (holder[who[j]] = j /\ active[who[j]])'
        BY DEF Held
      <4>1. CASE j = k BY <4>1, <2>6, <3>0 DEF LockCourier, TypeOK
      <4>2. CASE j # k
        <5>1. Inside(j) /\ who[j] \in Courier
          BY <4>2, <2>6 DEF LockCourier, Inside, Calls, TypeOK
        <5>2. holder[who[j]] = j /\ active[who[j]] BY <5>1 DEF Held
        <5>3. who[j] # who[k] BY <5>2, <3>0
        <5> QED BY <5>1, <5>2, <5>3, <2>6 DEF LockCourier, TypeOK
      <4> QED BY <4>1, <4>2
    <3>3. Free' BY <2>6 DEF LockCourier, Free, OnRoute, TypeOK
    <3>4. OneRoutePerCourier' BY <2>6 DEF LockCourier, OneRoutePerCourier, OnRoute
    <3> QED BY <3>1, <3>2, <3>3, <3>4
  <2>7. ASSUME NEW k \in Call, RefuseInactive(k) PROVE Goal
    <3>1. Calls' BY <2>7 DEF RefuseInactive, Finish, Calls, TypeOK
    <3>2. Held' BY <2>7 DEF RefuseInactive, Finish, Held, Inside, TypeOK
    <3>3. Free' BY <2>7 DEF RefuseInactive, Finish, Free, OnRoute, TypeOK
    <3>4. OneRoutePerCourier' BY <2>7 DEF RefuseInactive, OneRoutePerCourier, OnRoute
    <3> QED BY <3>1, <3>2, <3>3, <3>4
  <2>8. ASSUME NEW k \in Call, FindNoRoute(k) PROVE Goal
    <3>1. Calls' BY <2>8 DEF FindNoRoute, Calls, TypeOK
    <3>2. Held' BY <2>8 DEF FindNoRoute, Held, Inside, TypeOK
    <3>3. Free' BY <2>8 DEF FindNoRoute, Free, OnRoute, TypeOK
    <3>4. OneRoutePerCourier' BY <2>8 DEF FindNoRoute, OneRoutePerCourier, OnRoute
    <3> QED BY <3>1, <3>2, <3>3, <3>4
  <2>9. ASSUME NEW k \in Call, Inside(k), Finish(k), Unlock(k),
               UNCHANGED <<courier, active>>,
               \A o \in Order \ {what[k]} : status'[o] = status[o],
               \/ status' = status
               \/ pc[k] = "free" /\ courier[what[k]] = who[k]
        PROVE  Goal
    <3>0. who[k] \in Courier /\ what[k] \in Order /\ holder[who[k]] = k
      BY <2>9 DEF Calls, Held, Inside
    <3>a. \A j \in Call \ {k} :
            /\ pc'[j] = pc[j] /\ who'[j] = who[j] /\ what'[j] = what[j]
            /\ Inside(j) => who[j] \in Courier /\ who[j] # who[k]
      BY <2>9, <3>0 DEF Finish, Calls, Held, Inside, TypeOK
    <3>b. pc'[k] = "idle" BY <2>9 DEF Finish, TypeOK
    <3>c. \A d \in Courier \ {who[k]} : OnRoute(d)' \subseteq OnRoute(d)
      BY <2>9, <3>0 DEF OnRoute
    <3>1. Calls' BY <3>a, <3>b DEF Calls
    <3>2. Held' BY <2>9, <3>0, <3>a, <3>b DEF Held, Inside, Unlock, TypeOK
    <3>3. Free' BY <3>a, <3>b, <3>c DEF Free, Inside
    <3>4. OneRoutePerCourier'
      <4>1. CASE status' = status BY <4>1, <2>9 DEF OneRoutePerCourier, OnRoute
      <4>2. CASE pc[k] = "free" /\ courier[what[k]] = who[k]
        <5>1. PICK d \in Courier, p \in Order : d = who[k] /\ p = what[k] BY <3>0
        <5>2. OnRoute(d) = {} BY <4>2, <5>1 DEF Free
        <5>3. OnRoute(d)' \subseteq {p} BY <5>1, <5>2, <2>9 DEF OnRoute
        <5> QED BY <5>1, <5>3, <3>c DEF OneRoutePerCourier
      <4> QED BY <4>1, <4>2, <2>9
    <3> QED BY <3>1, <3>2, <3>3, <3>4
  <2>10. ASSUME NEW k \in Call, FindRoute(k) \/ StartRoute(k) \/ RefuseRoute(k) PROVE Goal
    <3>1. CASE StartRoute(k)
      BY <3>1, <2>9 DEF StartRoute, Startable, Inside, TypeOK
    <3>2. CASE FindRoute(k) BY <3>2, <2>9 DEF FindRoute, Inside
    <3>3. CASE RefuseRoute(k) BY <3>3, <2>9 DEF RefuseRoute, Inside
    <3> QED BY <2>10, <3>1, <3>2, <3>3
  <2> QED
    BY <1>1, <2>1, <2>2, <2>3, <2>4, <2>5, <2>6, <2>7, <2>8, <2>10 DEF OwnCourier
<1>2. CASE Administration
  <2>1. UNCHANGED <<courier, active, route>>
    BY <1>2 DEF Administration, CompleteByAdmin, Collect, CancelWithoutRefund,
                ClaimRefund, SettleRefund, CancelRefunded
  <2>2. \A o \in Order : status'[o] # "SAIU_PARA_ENTREGA" \/ status'[o] = status[o]
    BY <1>2 DEF Administration, CompleteByAdmin, Collect, CancelWithoutRefund,
                ClaimRefund, SettleRefund, CancelRefunded, TypeOK
  <2> QED BY <2>1, <2>2, <1>s
<1>3. CASE Partner
  <2>1. UNCHANGED <<order, courier, active, route>>
    BY <1>3 DEF Partner, Prepare, Cancel, Book, Accept, Answer, Record, Die
  <2> QED BY <2>1, <1>s
<1>4. CASE UNCHANGED vars
  BY <1>4, <1>s DEF vars
<1> QED BY <1>1, <1>2, <1>3, <1>4 DEF Next

(* Every action keeps what is known of the rides.                          *)
LEMMA RideStep == ASSUME TypeOK, Rides, [Next]_vars PROVE Rides'
<1> USE DEF TypeOK, Rides
<1>1. CASE OwnCourier
  <2>1. UNCHANGED partner
    BY <1>1 DEF OwnCourier, BeginClaim, CompleteByCourier, EndClaim, Deactivate,
                Reactivate, AskRoute, LockCourier, RefuseInactive, FindNoRoute,
                FindRoute, StartRoute, RefuseRoute
  <2> QED BY <2>1 DEF partner
<1>2. CASE Administration
  <2>1. UNCHANGED partner
    BY <1>2 DEF Administration, CompleteByAdmin, Collect, CancelWithoutRefund,
                ClaimRefund, SettleRefund, CancelRefunded
  <2> QED BY <2>1 DEF partner
<1>3. CASE Partner
  <2>1. ASSUME NEW o \in Order, NEW r \in RequestKey, Prepare(o, r) PROVE Rides'
    BY <2>1 DEF Prepare, Released
  <2>2. ASSUME NEW o \in Order, Cancel(o) PROVE Rides'
    BY <2>2 DEF Cancel, Cancelable
  <2>3. ASSUME NEW o \in Order, Book(o) PROVE Rides'
    BY <2>3 DEF Book
  <2>4. ASSUME NEW o \in Order, Accept(o) PROVE Rides'
    BY <2>4 DEF Accept
  <2>5. ASSUME NEW o \in Order, Answer(o) \/ Die(o) PROVE Rides'
    BY <2>5 DEF Answer, Die
  <2>6. ASSUME NEW o \in Order, Record(o) PROVE Rides'
    BY <2>6 DEF Record, Outcome
  <2> QED BY <1>3, <2>1, <2>2, <2>3, <2>4, <2>5, <2>6 DEF Partner
<1>4. CASE UNCHANGED vars
  BY <1>4 DEF vars, partner
<1> QED BY <1>1, <1>2, <1>3, <1>4 DEF Next

LEMMA Inductive == Spec => []IInv
<1>1. Init => IInv
  BY DispatchAssumption DEF Init, IInv, TypeOK, Calls, Held, Free, Inside, Rides,
                            OneRoutePerCourier, OnRoute
<1>2. IInv /\ [Next]_vars => IInv'
  BY TypeStep, RouteStep, RideStep DEF IInv
<1> QED BY <1>1, <1>2, PTL DEF Spec

(* The variables keep their types.                                         *)
THEOREM TypeSafety == Spec => []TypeOK
<1>1. IInv => TypeOK BY DEF IInv
<1> QED BY <1>1, Inductive, PTL

(* However many requests to start a route arrive together, a courier has   *)
(* at most one route running (StartCourierRouteService).                   *)
THEOREM RouteSafety == Spec => []OneRoutePerCourier
<1>1. IInv => OneRoutePerCourier BY DEF IInv
<1> QED BY <1>1, Inductive, PTL

(* The partner is asked for at most one ride per order, through lost and   *)
(* late answers and dying processes (LalamoveSandboxBookingService).       *)
THEOREM RideSafety == Spec => []PartnerAskedOnce
<1>1. IInv => PartnerAskedOnce BY DEF IInv, Rides, PartnerAskedOnce
<1> QED BY <1>1, Inductive, PTL

(* A ride that may exist keeps the order from the restaurant's couriers    *)
(* (ownCourierDispatchBoundary.ts).                                        *)
THEOREM BlockSafety == Spec => []RideBlocksClaims
<1>1. IInv => RideBlocksClaims
  BY DEF IInv, TypeOK, Rides, RideBlocksClaims, Released
<1> QED BY <1>1, Inductive, PTL

(* No claim takes an order from the courier who has it                     *)
(* (ClaimOrderForDeliveryService).                                         *)
THEOREM ClaimSafety == Spec => CourierIsKept
<1> DEFINE Kept == \A o \in Order : courier[o] # NoCourier => courier'[o] = courier[o]
<1>1. TypeOK /\ [Next]_vars => Kept
  <2> SUFFICES ASSUME TypeOK, [Next]_vars PROVE Kept OBVIOUS
  <2>1. ASSUME NEW c \in Courier, EndClaim(c) PROVE Kept
    BY <2>1 DEF EndClaim, Claimable, TypeOK
  <2>2. ASSUME Next, ~(\E c \in Courier : EndClaim(c)) PROVE UNCHANGED courier
    BY <2>2 DEF Next, OwnCourier, Administration, Partner, BeginClaim,
         CompleteByCourier, Deactivate, Reactivate, AskRoute, LockCourier,
         RefuseInactive, FindNoRoute, FindRoute, StartRoute, RefuseRoute,
         CompleteByAdmin, Collect, CancelWithoutRefund, ClaimRefund, SettleRefund,
         CancelRefunded, Prepare, Cancel, Book, Accept, Answer, Record, Die
  <2>3. CASE UNCHANGED vars BY <2>3 DEF vars
  <2> QED BY <2>1, <2>2, <2>3
<1> QED BY <1>1, TypeSafety, PTL DEF CourierIsKept, Spec

(* A dismissed courier sets out on no route, whenever he was dismissed     *)
(* (StartCourierRouteService).                                             *)
THEOREM DepartureSafety == Spec => RouteNeedsActiveCourier
<1> DEFINE Departs(o) == status[o] = "PRONTO" /\ status'[o] = "SAIU_PARA_ENTREGA"
           Sound == \A o \in Order : Departs(o) => courier[o] \in Courier /\ active[courier[o]]
<1>1. IInv /\ [Next]_vars => Sound
  <2> SUFFICES ASSUME IInv, [Next]_vars PROVE Sound OBVIOUS
  <2>1. ASSUME NEW k \in Call, StartRoute(k) PROVE Sound
    <3>1. who[k] \in Courier /\ active[who[k]] /\ courier[what[k]] = who[k]
      BY <2>1 DEF StartRoute, Startable, IInv, Calls, Held, Inside
    <3> QED BY <3>1, <2>1 DEF StartRoute, IInv, TypeOK
  <2>2. CASE OwnCourier /\ ~(\E k \in Call : StartRoute(k))
    BY <2>2 DEF OwnCourier, BeginClaim, EndClaim, CompleteByCourier, Deactivate,
         Reactivate, AskRoute, LockCourier, RefuseInactive, FindNoRoute, FindRoute,
         RefuseRoute, order, IInv, TypeOK
  <2>3. CASE Administration
    BY <2>3 DEF Administration, CompleteByAdmin, Collect, CancelWithoutRefund,
         ClaimRefund, SettleRefund, CancelRefunded, IInv, TypeOK
  <2>4. CASE Partner
    BY <2>4 DEF Partner, Prepare, Cancel, Book, Accept, Answer, Record, Die, order
  <2>5. CASE UNCHANGED vars BY <2>5 DEF vars, order
  <2> QED BY <2>1, <2>2, <2>3, <2>4, <2>5 DEF Next
<1> QED BY <1>1, Inductive, PTL DEF RouteNeedsActiveCourier, Spec
=============================================================================
