--------------------------- MODULE OrderCapacity ---------------------------
(***************************************************************************)
(* The kitchen of one restaurant works on a limited number of orders.      *)
(* CreateOrderService queues an order above the limit, the payment of a    *)
(* digital order takes a place or the queue (orderCapacity.ts), and        *)
(* OrderCapacityQueueService admits waiting orders, first queued first.    *)
(*                                                                         *)
(* A creation is a SERIALIZABLE transaction: its snapshot is older than    *)
(* the advisory lock it takes before deciding. Everything else runs at     *)
(* READ COMMITTED and reads after the lock. "PRONTO" stands for the order  *)
(* on its way, too. A limit and an automatic printer that do not change.   *)
(***************************************************************************)
EXTENDS Integers, FiniteSets

CONSTANTS
  Order,       \* orders of one restaurant
  Limit,       \* RestaurantSettings.maxConcurrentOrders, normalized
  Trigger,     \* autoPrintTrigger: "NEW_ORDER" or "PAYMENT_CONFIRMED"
  AutoAccept   \* autoAcceptOrders

ASSUME CapacityAssumption ==
  /\ IsFiniteSet(Order) /\ Limit \in Nat \ {0}
  /\ Trigger \in {"NEW_ORDER", "PAYMENT_CONFIRMED"}
  /\ AutoAccept \in BOOLEAN

VARIABLES
  kind,      \* "delivery": paid on delivery; "digital": paid beforehand, or
             \* "asaas" when the restaurant is paid through Asaas
  status,    \* Order.status, "absent" before the order is created
  paid,
  place,     \* rank of capacityQueuedAt, 0 when the order was never queued
  admitted,  \* capacityAdmittedAt is set
  ticket,    \* the automatic ticket of the kitchen exists
  seen,      \* what the snapshot of a running creation decides
  locked,    \* a transaction that admits orders holds the advisory lock
  batch,     \* the candidates it read
  batchPaid  \* those of them it read as paid

orders == <<kind, status, paid, place, admitted, ticket>>
drain == <<locked, batch, batchPaid>>
vars == <<orders, seen, drain>>

Live == {"PENDENTE", "PREPARANDO", "PRONTO"}

TypeOK ==
  /\ kind \in [Order -> {"delivery", "digital", "asaas"}]
  /\ status \in [Order -> Live \cup {"absent", "ENTREGUE", "CANCELADO"}]
  /\ paid \in [Order -> BOOLEAN] /\ admitted \in [Order -> BOOLEAN]
  /\ ticket \in [Order -> BOOLEAN]
  /\ place \in [Order -> Nat]
  /\ seen \in [Order -> {"none", "admit", "queue"}]
  /\ locked \in BOOLEAN
  /\ batch \subseteq Order /\ batchPaid \subseteq batch

Init ==
  /\ kind \in [Order -> {"delivery", "digital"}] \cup [Order -> {"delivery", "asaas"}]
  /\ status = [o \in Order |-> "absent"]
  /\ paid = [o \in Order |-> FALSE] /\ admitted = [o \in Order |-> FALSE]
  /\ ticket = [o \in Order |-> FALSE]
  /\ place = [o \in Order |-> 0]
  /\ seen = [o \in Order |-> "none"]
  /\ locked = FALSE /\ batch = {} /\ batchPaid = {}

-----------------------------------------------------------------------------
Operational(o) == kind[o] = "delivery" \/ paid[o]

Queued(o) == place[o] # 0 /\ ~admitted[o]

Waiting == {o \in Order : Queued(o) /\ status[o] \in Live /\ Operational(o)}

Active == {o \in Order : status[o] \in Live /\ Operational(o) /\ ~Queued(o)}

Full == Cardinality(Active) >= Limit

MustQueue == Full \/ Waiting # {}

NextPlace == 1 + Cardinality({o \in Order : place[o] # 0})

InitialStatus == IF AutoAccept THEN "PREPARANDO" ELSE "PENDENTE"

-----------------------------------------------------------------------------
(* Creation: the snapshot is taken by the first statement, the lock and    *)
(* the decision come later, on that snapshot.                              *)
Begin(o) ==
  /\ status[o] = "absent" /\ seen[o] = "none"
  /\ seen' = [seen EXCEPT ![o] = IF MustQueue THEN "queue" ELSE "admit"]
  /\ UNCHANGED <<orders, drain>>

(* Of two concurrent creations that each miss what the other inserts,      *)
(* PostgreSQL aborts the second. It does not abort for a transaction that  *)
(* is not SERIALIZABLE itself.                                             *)
Aborts(o) ==
  seen' = [x \in Order |->
    IF x = o \/ (kind[o] = "delivery" /\ seen[x] = "admit") THEN "none" ELSE seen[x]]

Create(o) ==
  /\ seen[o] # "none" /\ ~locked
  /\ LET queue == seen[o] = "queue" IN
       /\ status' = [status EXCEPT ![o] = IF queue THEN "PENDENTE" ELSE InitialStatus]
       /\ place' = [place EXCEPT ![o] = IF queue THEN NextPlace ELSE 0]
       /\ ticket' = [ticket EXCEPT ![o] =
            ~queue /\ kind[o] = "delivery" /\ Trigger = "NEW_ORDER"]
  /\ Aborts(o)
  /\ UNCHANGED <<kind, paid, admitted, drain>>

(* The transaction is retried, or its process died.                        *)
Retry(o) ==
  /\ seen[o] # "none"
  /\ seen' = [seen EXCEPT ![o] = "none"]
  /\ UNCHANGED <<orders, drain>>

-----------------------------------------------------------------------------
(* Payment. confirmPayment prints unless the order is queued; with the     *)
(* trigger NEW_ORDER only an order that was held back until this payment.  *)
Unpaid(o) == status[o] \notin {"absent", "CANCELADO"} /\ ~paid[o]

Bug_PrintsOnPaymentByTrigger(o) == Trigger = "PAYMENT_CONFIRMED"
PrintsOnPayment(o) == Trigger = "PAYMENT_CONFIRMED" \/ kind[o] # "delivery"

ConfirmPayment(o, queued) ==
  /\ paid' = [paid EXCEPT ![o] = TRUE]
  /\ ticket' = [ticket EXCEPT ![o] = @ \/ (~queued /\ PrintsOnPayment(o))]

(* The administrator received the money of a delivery.                     *)
ConfirmCash(o) ==
  /\ kind[o] = "delivery" /\ Unpaid(o)
  /\ ConfirmPayment(o, Queued(o))
  /\ UNCHANGED <<kind, status, place, admitted, seen, drain>>

Bug_FinalizeUnlocked(o) ==
  /\ kind[o] # "delivery" /\ Unpaid(o)
  /\ IF MustQueue
     THEN /\ place' = [place EXCEPT ![o] = IF @ = 0 THEN NextPlace ELSE @]
          /\ admitted' = [admitted EXCEPT ![o] = FALSE]
          /\ status' = [status EXCEPT ![o] = "PENDENTE"]
          /\ ConfirmPayment(o, TRUE)
     ELSE /\ ConfirmPayment(o, Queued(o))
          /\ UNCHANGED <<place, admitted, status>>
  /\ UNCHANGED <<kind, seen, drain>>
Finalize(o) ==
  /\ kind[o] # "delivery" /\ Unpaid(o) /\ ~locked
  /\ IF MustQueue
     THEN /\ place' = [place EXCEPT ![o] = IF @ = 0 THEN NextPlace ELSE @]
          /\ admitted' = [admitted EXCEPT ![o] = FALSE]
          /\ status' = [status EXCEPT ![o] = "PENDENTE"]
          /\ ConfirmPayment(o, TRUE)
     ELSE /\ ConfirmPayment(o, Queued(o))
          /\ UNCHANGED <<place, admitted, status>>
  /\ UNCHANGED <<kind, seen, drain>>

(* The webhook of Asaas confirms without asking for a place.               *)
ConfirmByWebhook(o) ==
  /\ kind[o] = "asaas" /\ Unpaid(o)
  /\ ConfirmPayment(o, Queued(o))
  /\ UNCHANGED <<kind, status, place, admitted, seen, drain>>

-----------------------------------------------------------------------------
(* The staff: nothing here asks whether the order waits for a place.       *)
NextStatus == [s \in Live |->
  CASE s = "PENDENTE" -> "PREPARANDO" [] s = "PREPARANDO" -> "PRONTO"
    [] s = "PRONTO" -> "ENTREGUE"]

Advance(o) ==
  /\ status[o] \in Live /\ Operational(o)
  /\ status' = [status EXCEPT ![o] = NextStatus[status[o]]]
  /\ UNCHANGED <<kind, paid, place, admitted, ticket, seen, drain>>

Cancel(o) ==
  /\ status[o] \in Live
  /\ status' = [status EXCEPT ![o] = "CANCELADO"]
  /\ UNCHANGED <<kind, paid, place, admitted, ticket, seen, drain>>

-----------------------------------------------------------------------------
(* Admission, after an order ended, was queued or paid, and by the worker. *)
Available == IF Full THEN 0 ELSE Limit - Cardinality(Active)

Bug_CandidatesUnpaid ==
  {o \in Order : Queued(o) /\ status[o] \in Live
     /\ Cardinality({x \in Order : Queued(x) /\ status[x] \in Live
                       /\ place[x] < place[o]}) < Available}
Bug_CandidatesOneMore ==
  {o \in Waiting : Cardinality({x \in Waiting : place[x] < place[o]}) <= Available}
Candidates ==
  {o \in Waiting : Cardinality({x \in Waiting : place[x] < place[o]}) < Available}

ReadCandidates ==
  /\ ~locked /\ locked' = TRUE
  /\ batch' = Candidates
  /\ batchPaid' = {o \in Candidates : paid[o]}
  /\ UNCHANGED <<orders, seen>>

PrintsOnAdmission(o) == Trigger = "NEW_ORDER" \/ o \in batchPaid

Unlock == locked' = FALSE /\ batch' = {} /\ batchPaid' = {}

Admit ==
  /\ locked /\ Unlock
  /\ LET won == batch \cap Waiting IN
       /\ admitted' = [o \in Order |-> admitted[o] \/ o \in won]
       /\ status' = [o \in Order |-> IF o \in won THEN InitialStatus ELSE status[o]]
       /\ ticket' = [o \in Order |-> ticket[o] \/ (o \in won /\ PrintsOnAdmission(o))]
  /\ UNCHANGED <<kind, paid, place, seen>>

(* A ticket could not be created, or the process died.                     *)
RollBack == locked /\ Unlock /\ UNCHANGED <<orders, seen>>

Next ==
  \/ \E o \in Order : Begin(o) \/ Create(o) \/ Retry(o)
  \/ \E o \in Order : ConfirmCash(o) \/ Finalize(o) \/ ConfirmByWebhook(o)
  \/ \E o \in Order : Advance(o) \/ Cancel(o)
  \/ ReadCandidates \/ Admit \/ RollBack

Spec == Init /\ [][Next]_vars

(* The worker drains every restaurant with queued orders over and over,    *)
(* and an admission that is tried again and again does commit.             *)
FairSpec == Spec /\ WF_vars(ReadCandidates) /\ SF_vars(Admit)

-----------------------------------------------------------------------------
(* The webhook of Asaas puts orders into the kitchen without asking for a  *)
(* place, so the limit and the turn are promised to the other restaurants. *)
AtAsaas == \E o \in Order : kind[o] = "asaas"

(* The kitchen never works on more orders than its limit and one: the      *)
(* stale snapshot of a creation can exceed the limit once, as the next     *)
(* creation to be admitted starts after it committed.                      *)
OneBeyondLimit == ~AtAsaas => Cardinality(Active) <= Limit + 1

(* The payments that take a place (queueDigitalOrderBeforePaymentConfir-   *)
(* mation) and the admissions of the queue keep the limit: only a creation *)
(* exceeds it.                                                             *)
OnlyCreationExceeds ==
  [][~AtAsaas /\ Cardinality(Active') > Limit /\ Active' \ Active # {} =>
       \E o \in Order : status[o] = "absent" /\ o \in Active']_vars

(* The limit is what the kitchen can do (security-and-scale-               *)
(* implementation.md:80).                                                  *)
LimitKept == Cardinality(Active) <= Limit

(* An order waiting for a place has no ticket yet, and one the kitchen     *)
(* works on has its ticket, whichever of creation, payment and admission   *)
(* came last (with the trigger NEW_ORDER).                                 *)
TicketFollowsAdmission ==
  /\ \A o \in Waiting : ~ticket[o]
  /\ \A o \in Active : ticket[o]

(* With the trigger PAYMENT_CONFIRMED an order that is paid and admitted   *)
(* has its ticket.                                                         *)
PaidIsPrinted == \A o \in Active : paid[o] => ticket[o]

(* First queued, first admitted: no order is admitted past one that was    *)
(* queued before it and still waits.                                       *)
AdmittedInTurn ==
  [][~AtAsaas => \A o, x \in Order :
       o \in Waiting /\ o \in Active' /\ x \in Waiting' => place[o] < place'[x]]_vars

(* An order whose payment arrives does not take a place in front of the    *)
(* orders already waiting.                                                 *)
PaymentRespectsQueue ==
  [][~AtAsaas => \A o \in Order :
       ~paid[o] /\ paid'[o] /\ o \in Active' \ Active => Waiting = {}]_vars

(* A new order does not take a vacancy before older eligible orders        *)
(* (orderCapacity.ts:76).                                                  *)
NewOrderRespectsQueue ==
  [][\A o \in Order : status[o] = "absent" /\ o \in Active' => Waiting = {}]_vars

(* What the kitchen has prepared is not started again: the status of an    *)
(* order moves only along the transitions of the state machine.            *)
Rank == [s \in {"absent", "ENTREGUE", "CANCELADO"} \cup Live |->
  CASE s = "absent" -> 0 [] s = "PENDENTE" -> 1 [] s = "PREPARANDO" -> 2
    [] s = "PRONTO" -> 3 [] OTHER -> 4]
StatusAdvances == [][\A o \in Order : Rank[status[o]] <= Rank[status'[o]]]_vars

(* An order that waits while the kitchen has room is admitted, unless the  *)
(* room goes to others.                                                    *)
VacancyIsUsed ==
  \A o \in Order : (o \in Waiting /\ ~Full) ~> (o \notin Waiting \/ Full)
=============================================================================
