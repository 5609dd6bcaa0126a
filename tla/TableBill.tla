------------------------------ MODULE TableBill ------------------------------
(***************************************************************************)
(* The shared bill of one table session: orders are billed unit by unit,   *)
(* several participants reserve parts of it in payment intents, and the    *)
(* intents are paid, expire, are cancelled or refunded while the bill is   *)
(* projected onto the items and the orders                                 *)
(* (backend/src/modules/tableAccount, tableSession, orders).               *)
(*                                                                         *)
(* Every handler here is one serializable transaction that first takes the *)
(* advisory lock of the session (lockTablePaymentSession), hence one step. *)
(* What a handler knows of the time is another matter: `now` is read       *)
(* before the lock is granted, or is the time the provider reports, so a   *)
(* handler may take an intent whose deadline has passed for a current one. *)
(* `stale` is the set of those intents, different in every step.           *)
(*                                                                         *)
(* The gateway is left open: an online intent may receive any evidence.    *)
(* TablePaymentGateway models where evidence comes from.                   *)
(* Orders paid one by one (PAY_NOW) do not take part.                      *)
(***************************************************************************)
EXTENDS Integers, FiniteSets, FiniteSetsExt

CONSTANTS
  Intent,        \* payment intents that may be created
  Cash,          \* those in cash; the others are paid online by Pix
  Item,          \* billed units, numbered in the order they were created
  Order,         \* orders of the session
  Participant,
  OrderOf,       \* the order of each item
  OwnerOf,       \* the participant who placed each order
  Price          \* of each item, in cents; a discount may leave nothing of it

ASSUME BillAssumption ==
  /\ Cash \subseteq Intent
  /\ Item \subseteq Nat
  /\ OrderOf \in [Item -> Order]
  /\ \A o \in Order : \E x \in Item : OrderOf[x] = o
  /\ OwnerOf \in [Order -> Participant]
  /\ Price \in [Item -> Nat]

VARIABLES
  status,      \* of each intent; "none" until it is created
  alloc,       \* cents of each item that each intent pays
  due,         \* intents whose expiresAt has passed
  received,    \* cash intents with a STAFF_RECEIVED event
  order,       \* "none", "admitted", "open", "served", "canceled" or "dropped"
  itemStatus,  \* TableBillItem.financialStatus
  paid,        \* Order.paid
  finance,     \* Order.tableFinancialStatus
  blocked,     \* participants barred from ordering until they pay
  session      \* "OPEN" or "CLOSED"

vars == <<status, alloc, due, received, order, itemStatus, paid, finance,
          blocked, session>>

Pending == {"RESERVED", "PROCESSING"}
Committed == Pending \cup {"PAID"}
Terminal == {"FAILED", "EXPIRED", "CANCELED", "REFUNDED"}
IntentStatus == {"none"} \cup Committed \cup Terminal
Financial == {"UNPAID", "RESERVED", "PROCESSING", "PAID"}

TypeOK ==
  /\ status \in [Intent -> IntentStatus]
  /\ alloc \in [Intent -> [Item -> Nat]]
  /\ due \subseteq Intent
  /\ received \subseteq Cash
  /\ order \in [Order -> {"none", "admitted", "open", "served", "canceled", "dropped"}]
  /\ itemStatus \in [Item -> Financial]
  /\ paid \in [Order -> BOOLEAN]
  /\ finance \in [Order -> Financial]
  /\ blocked \subseteq Participant
  /\ session \in {"OPEN", "CLOSED"}

Init ==
  /\ status = [i \in Intent |-> "none"]
  /\ alloc = [i \in Intent |-> [x \in Item |-> 0]]
  /\ due = {} /\ received = {}
  /\ order = [o \in Order |-> "none"]
  /\ itemStatus = [x \in Item |-> "UNPAID"]
  /\ paid = [o \in Order |-> FALSE]
  /\ finance = [o \in Order |-> "UNPAID"]
  /\ blocked = {}
  /\ session = "OPEN"

-----------------------------------------------------------------------------
(* calculateTableBillItemLedger: what each item owes.                      *)

Billed(x) == order[OrderOf[x]] \in {"open", "served"}
ItemsOf(o) == {x \in Item : OrderOf[x] = o}

(* A reservation counts while its deadline lies ahead, and for ever once   *)
(* the staff has taken the cash.                                           *)
(* Operators named Bug_ are defective variants of the definition that      *)
(* follows; the specification never uses them.                             *)
Lapsed(stale) == (due \ stale) \ received

Share(x, I) == MapThenSumSet(LAMBDA i : alloc[i][x], I)
With(s) == {i \in Intent : status[i] = s}
PaidCents(x) == Share(x, With("PAID"))
Available(stale, x) ==
  IF Billed(x)
    THEN Price[x] - Share(x, With("PAID") \cup
                             ((With("RESERVED") \cup With("PROCESSING")) \ Lapsed(stale)))
    ELSE 0

Covered(x) == PaidCents(x) = Price[x]
Holds(i, x) == alloc[i][x] # 0
Held(stale, s, x) == \E i \in With(s) \ Lapsed(stale) : Holds(i, x)
Pledged(stale, x) == \E s \in Pending : Held(stale, s, x)

(* The status shown for a set of items: one item, or all those of an order. *)
Standing(stale, X) ==
  CASE \A x \in X : Covered(x) -> "PAID"
    [] (\E x \in X : ~ Covered(x)) /\ (\E x \in X : Held(stale, "PROCESSING", x))
         -> "PROCESSING"
    [] (\E x \in X : ~ Covered(x)) /\ (\A x \in X : ~ Held(stale, "PROCESSING", x))
       /\ (\E x \in X : Held(stale, "RESERVED", x)) -> "RESERVED"
    [] OTHER -> "UNPAID"

(* projectTableSessionFinancialState, over the state the handler leaves:   *)
(* canceled orders are skipped, their items fall back to UNPAID, and an    *)
(* item without allocations keeps what it had.                             *)
Allocated(x) == \E i \in Intent : Holds(i, x)
Project(stale) ==
  /\ itemStatus' = [x \in Item |->
       CASE ~ Billed(x) -> "UNPAID"
         [] Billed(x) /\ Allocated(x)' -> Standing(stale, {x})'
         [] Billed(x) /\ ~ Allocated(x)' -> itemStatus[x]]
  /\ finance' = [o \in Order |->
       IF order[o] \in {"open", "served"} THEN Standing(stale, ItemsOf(o))' ELSE finance[o]]
  /\ paid' = [o \in Order |->
       IF order[o] \in {"open", "served"} THEN (\A x \in ItemsOf(o) : Covered(x))' ELSE paid[o]]

(* expireTablePaymentReservations, and the status a handler that sweeps    *)
(* first gives to the intent i it is about.                                *)
Bug_SweepReservedOnly(stale) ==
  [i \in Intent |-> IF i \in Lapsed(stale) /\ status[i] = "RESERVED"
                      THEN "EXPIRED" ELSE status[i]]
Sweep(stale) ==
  [i \in Intent |-> IF i \in Lapsed(stale) /\ status[i] \in Pending
                      THEN "EXPIRED" ELSE status[i]]

(* A handler that turns out to do no more than sweep.                      *)
SweepOnly(stale) ==
  /\ status' = Sweep(stale)
  /\ UNCHANGED <<alloc, due, received, order, blocked, session>>
  /\ IF Sweep(stale) = status THEN UNCHANGED <<itemStatus, finance, paid>>
                              ELSE Project(stale)

(* An intent changes status and the bill is projected again.               *)
Becomes(i, from, to, stale) ==
  /\ status[i] \in from
  /\ status' = [status EXCEPT ![i] = to]
  /\ UNCHANGED <<alloc, due, received, order, session>>
  /\ Project(stale)

(* releaseSettledParticipants, in every transaction that makes one PAID.   *)
Settled(p, stale) ==
  \A x \in Item : Billed(x) /\ OwnerOf[OrderOf[x]] = p =>
                   Covered(x) /\ ~ Pledged(stale, x)
Release(stale) == blocked' = {p \in blocked : ~ Settled(p, stale)'}

-----------------------------------------------------------------------------
(* buildTablePaymentPlan and allocateCentsAcrossTableBillItems: the chosen *)
(* items are taken in order and the last one may be cut at a cent.  A plan *)
(* is computed after the sweep, which takes no current intent away.        *)

Eligible(stale) == {x \in Item : Available(stale, x) > 0}
Blockers(stale) == {x \in Item : Billed(x) /\ Pledged(stale, x)}

Whole(stale, sel) ==
  [x \in Item |-> IF x \in sel THEN Available(stale, x) ELSE 0]

Cut(stale) ==
  {[x \in Item |-> CASE x = k.item -> k.cents
                     [] x \in Eligible(stale) /\ x < k.item -> Available(stale, x)
                     [] OTHER -> 0]
     : k \in UNION {[item : {x}, cents : 1 .. Available(stale, x)] : x \in Eligible(stale)}}

SelectedItems(stale) ==
  {Whole(stale, sel) :
     sel \in SUBSET {x \in Eligible(stale) : Available(stale, x) = Price[x] - PaidCents(x)} \ {{}}}

MyItems(stale, p) ==
  LET mine == {x \in Item : OwnerOf[OrderOf[x]] = p}
      sel == Eligible(stale) \cap mine
  IN  IF Blockers(stale) \cap mine = {} /\ sel # {} THEN {Whole(stale, sel)} ELSE {}

(* CUSTOM_AMOUNT cuts the balance anywhere.  EQUAL_SPLIT and FULL take one *)
(* share or all of it, only when nobody else holds a part: their plans are *)
(* among the cuts.                                                         *)
Plans(stale, p) == SelectedItems(stale) \cup MyItems(stale, p) \cup Cut(stale)

-----------------------------------------------------------------------------
Unbilled == UNCHANGED <<itemStatus, paid, finance>>
NoPayment == UNCHANGED <<status, alloc, due, received>> /\ Unbilled

(* orderAccessMiddleware: whether the participant is barred from ordering  *)
(* is read here, before and outside the transaction of CreateOrderService  *)
(* (nobody calls TableParticipantStateService.assertCanCreateOrder).       *)
AdmitOrder(o) ==
  /\ session = "OPEN" /\ order[o] = "none" /\ OwnerOf[o] \notin blocked
  /\ order' = [order EXCEPT ![o] = "admitted"]
  /\ NoPayment /\ UNCHANGED <<blocked, session>>

(* CreateOrderService for a table: the units enter the bill unpaid.        *)
PlaceOrder(o) ==
  /\ session = "OPEN" /\ order[o] = "admitted"
  /\ order' = [order EXCEPT ![o] = "open"]
  /\ NoPayment /\ UNCHANGED <<blocked, session>>

(* ENTREGUE: the order no longer blocks the closing of the table.          *)
ServeOrder(o) ==
  /\ order[o] = "open"
  /\ order' = [order EXCEPT ![o] = "served"]
  /\ NoPayment /\ UNCHANGED <<blocked, session>>

(* CancelOrderWorkflowService.cancelWithoutRefund: refused while a pending *)
(* or paid intent touches the order, expired or not.                       *)
Touches(i, o) == \E x \in ItemsOf(o) : Holds(i, x)
Bug_CancelOrderIgnoresReserved(o) ==
  /\ order[o] = "open"
  /\ \A i \in Intent : status[i] \in {"PROCESSING", "PAID"} => ~ Touches(i, o)
  /\ order' = [order EXCEPT ![o] = "canceled"]
  /\ NoPayment /\ UNCHANGED <<blocked, session>>
CancelOrder(o) ==
  /\ order[o] = "open"
  /\ \A i \in Intent : status[i] \in Committed => ~ Touches(i, o)
  /\ order' = [order EXCEPT ![o] = "canceled"]
  /\ NoPayment /\ UNCHANGED <<blocked, session>>

(* UpdateOrderStatusService, when an administrator sets CANCELADO: neither *)
(* the lock of the session nor the ledger is looked at.  Such an order is  *)
(* "dropped" here, and every reader takes it for canceled.                 *)
DropOrder(o) ==
  /\ order[o] = "open"
  /\ order' = [order EXCEPT ![o] = "dropped"]
  /\ NoPayment /\ UNCHANGED <<blocked, session>>

(* A bill call bars a participant who still owes from ordering.            *)
Owes(p, stale) ==
  \E x \in Item : /\ Billed(x) /\ OwnerOf[OrderOf[x]] = p
                  /\ Available(stale, x) > 0 \/ Pledged(stale, x)
RequestBill(p, stale) ==
  /\ session = "OPEN" /\ Owes(p, stale)
  /\ blocked' = blocked \cup {p}
  /\ NoPayment /\ UNCHANGED <<order, session>>

(* CreateTablePaymentIntentService, the reservation transaction.           *)
Bug_ReserveWithoutSweep(i, p, stale) ==
  /\ session = "OPEN" /\ status[i] = "none"
  /\ \E a \in Plans(stale, p) : alloc' = [alloc EXCEPT ![i] = a]
  /\ status' = [status EXCEPT ![i] = "RESERVED"]
  /\ UNCHANGED <<due, received, order, blocked, session>>
  /\ Project(stale)
Reserve(i, p, stale) ==
  /\ session = "OPEN" /\ status[i] = "none"
  /\ \E a \in Plans(stale, p) : alloc' = [alloc EXCEPT ![i] = a]
  /\ status' = [Sweep(stale) EXCEPT ![i] = "RESERVED"]
  /\ UNCHANGED <<due, received, order, blocked, session>>
  /\ Project(stale)

(* The answer of the provider: the charge exists, or was refused.  Neither *)
(* transaction sweeps, so the intent may be past its deadline.             *)
StartProcessing(i, stale) ==
  /\ i \notin Cash
  /\ Becomes(i, {"RESERVED"}, "PROCESSING", stale)
  /\ UNCHANGED blocked

ProviderRefused(i, stale) ==
  /\ i \notin Cash
  /\ Becomes(i, {"RESERVED"}, "FAILED", stale)
  /\ UNCHANGED blocked

(* ProcessTablePaymentWebhookService: evidence finds its intent only by an *)
(* external id, which is stored with PROCESSING.                           *)
ProviderPaid(i, stale) ==
  /\ i \notin Cash
  /\ Becomes(i, {"PROCESSING"}, "PAID", stale)
  /\ Release(stale)

ProviderGaveUp(i, stale) ==
  /\ i \notin Cash
  /\ \E s \in {"FAILED", "EXPIRED", "CANCELED"} : Becomes(i, {"PROCESSING"}, s, stale)
  /\ UNCHANGED blocked

(* Evidence of a refund, or RefundTablePaymentService once it is confirmed. *)
Bug_RefundWithoutProjection(i, stale) ==
  /\ status[i] = "PAID"
  /\ status' = [status EXCEPT ![i] = "REFUNDED"]
  /\ UNCHANGED <<alloc, due, received, order, session, blocked>> /\ Unbilled
Refund(i, stale) ==
  Becomes(i, {"PAID"}, "REFUNDED", stale) /\ UNCHANGED blocked

(* CancelTablePaymentIntentService, called by the payer.                   *)
CancelIntent(i, stale) ==
  /\ Sweep(stale)[i] \in Pending /\ i \notin received
  /\ status' = [Sweep(stale) EXCEPT ![i] = "CANCELED"]
  /\ UNCHANGED <<alloc, due, received, order, blocked, session>>
  /\ Project(stale)

(* ConfirmManualTablePaymentService: a waiter takes the cash, which stops  *)
(* the deadline; an administrator turns it into a payment.                 *)
StaffReceives(i, stale) ==
  /\ i \in Cash /\ Sweep(stale)[i] \in Pending
  /\ received' = received \cup {i}
  /\ status' = Sweep(stale)
  /\ UNCHANGED <<alloc, due, order, blocked, session>>
  /\ IF Sweep(stale) = status THEN Unbilled ELSE Project(stale)

AdminConfirms(i, stale) ==
  /\ i \in Cash /\ Sweep(stale)[i] \in Pending
  /\ status' = [Sweep(stale) EXCEPT ![i] = "PAID"]
  /\ UNCHANGED <<alloc, due, received, order, session>>
  /\ Project(stale)
  /\ Release(stale)

(* TablePaymentReservationExpirationJob; a refused cancellation, closing   *)
(* or confirmation rolls its sweep back.                                   *)
ExpireJob(stale) == Sweep(stale) # status /\ SweepOnly(stale)

(* CloseTableSessionService and ForceCloseTableSessionService.  The closer *)
(* reads the clock again after the sweep; the forced one does not, and it  *)
(* does not wait for the orders either.                                    *)
Bug_AccountSettledOncePledged(stale) == \A x \in Item : Available(stale, x) = 0
AccountSettled(stale) == \A x \in Item : Billed(x) => Covered(x) /\ ~ Pledged(stale, x)
Close(sweepStale, ledgerStale) ==
  /\ session = "OPEN"
  /\ AccountSettled(ledgerStale)
  /\ session' = "CLOSED"
  /\ status' = Sweep(sweepStale)
  /\ UNCHANGED <<alloc, due, received, order, blocked>>
  /\ IF Sweep(sweepStale) = status THEN Unbilled ELSE Project(sweepStale)

CloseSession(later, stale) ==
  (\A o \in Order : order[o] # "open") /\ Close(stale, later)

ForceClose(stale) == Close(stale, stale)

(* Time: the deadline of a pending intent passes.                          *)
Lapse(i) ==
  /\ status[i] \in Pending /\ i \notin due
  /\ due' = due \cup {i}
  /\ UNCHANGED <<status, alloc, received, order, blocked, session>> /\ Unbilled

IntentStep(i, stale) ==
  \/ StartProcessing(i, stale) \/ ProviderRefused(i, stale)
  \/ ProviderPaid(i, stale) \/ ProviderGaveUp(i, stale)
  \/ Refund(i, stale) \/ CancelIntent(i, stale)
  \/ StaffReceives(i, stale) \/ AdminConfirms(i, stale)

Next ==
  \/ \E o \in Order : \/ AdmitOrder(o) \/ PlaceOrder(o) \/ ServeOrder(o)
                       \/ CancelOrder(o) \/ DropOrder(o)
  \/ \E i \in Intent : Lapse(i)
  \/ \E stale \in SUBSET due :
       \/ \E p \in Participant : RequestBill(p, stale)
       \/ \E i \in Intent, p \in Participant : Reserve(i, p, stale)
       \/ \E i \in Intent : IntentStep(i, stale)
       \/ ExpireJob(stale)
       \/ ForceClose(stale)
       \/ \E later \in SUBSET stale : CloseSession(later, stale)

(* The expiration job is scheduled again and again while workers run.      *)
Spec == Init /\ [][Next]_vars /\ WF_vars(\E stale \in SUBSET due : ExpireJob(stale))

-----------------------------------------------------------------------------
(* No cent of an item is promised twice: what pending and paid intents     *)
(* take of it never exceeds its price, though a plan ignores reservations  *)
(* whose deadline passed and which may still be confirmed.  Otherwise      *)
(* calculateTableBillItemLedger throws and the whole table is stuck.       *)
NoOverAllocation ==
  \A x \in Item : Share(x, {i \in Intent : status[i] \in Committed}) <= Price[x]

(* The cached statuses follow the ledger: an order is flagged paid exactly *)
(* when paid intents cover all its items; an item shown as pledged has a   *)
(* pending intent, and one shown as free has none whose deadline lies      *)
(* ahead.  What costs nothing is never paid and stays UNPAID.              *)
ProjectionFollowsLedger ==
  /\ \A o \in Order : order[o] \in {"open", "served"} /\ (\E x \in ItemsOf(o) : Price[x] > 0) =>
       (paid[o] <=> \A x \in ItemsOf(o) : Covered(x))
  /\ \A x \in Item : Billed(x) =>
       /\ itemStatus[x] = "PAID" <=> Covered(x) /\ Price[x] > 0
       /\ itemStatus[x] \in Pending => \E i \in With(itemStatus[x]) : Holds(i, x)
       /\ itemStatus[x] = "UNPAID" =>
            \A i \in Intent \ due : status[i] \in Pending => ~ Holds(i, x)

(* Money cannot be on its way to a table that was closed, whichever way it *)
(* was closed: an intent that is still pending pays for dropped orders     *)
(* only (CloseTableSessionService, ForceCloseTableSessionService).         *)
ClosedSessionSettled ==
  session = "CLOSED" =>
    \A i \in Intent : status[i] \in Pending =>
      \A x \in Item : Holds(i, x) => order[OrderOf[x]] = "dropped"

(* Cancelling an order and paying for it exclude each other: no pending or *)
(* paid intent holds a part of an item the cancellation workflow canceled, *)
(* from whichever side the race is run (CancelOrderWorkflowService,        *)
(* tablePaymentAllocation).                                                *)
CanceledItemHoldsNoMoney ==
  \A x \in Item : order[OrderOf[x]] = "canceled" =>
    \A i \in Intent : status[i] \in Committed => ~ Holds(i, x)

(* Cash a waiter has taken is never lost to a deadline or to the payer's   *)
(* cancellation: it only becomes a payment (hasStaffCashReceiptEvent).     *)
ReceivedCashNeverExpires ==
  [][\A i \in received : status'[i] # status[i] => status'[i] \in {"PAID", "REFUNDED"}]_vars

(* A failed, expired, canceled or refunded intent never revives: a late    *)
(* answer of the provider finds it terminal.                               *)
TerminalIsFinal ==
  [][\A i \in Intent : status[i] \in Terminal => status'[i] = status[i]]_vars

(* A reservation that is past its deadline does not hold the bill for ever. *)
LapsedIsReleased ==
  \A i \in Intent : (i \in due \ received /\ status[i] \in Pending)
                      ~> (status[i] \notin Pending \/ i \in received)

(* A comment of CancelOrderWorkflowService: no flow may cancel an order    *)
(* that was paid at the table before it is refunded, for "isso retiraria o *)
(* item da contabilizacao sem devolver o valor ao cliente".                *)
NoCancellationStrandsMoney ==
  \A x \in Item : order[OrderOf[x]] \in {"canceled", "dropped"} =>
    \A i \in Intent : status[i] = "PAID" => ~ Holds(i, x)

(* The refusal a barred participant reads, "Voce ja pediu a conta. Aguarde *)
(* a confirmacao do pagamento para fazer novos pedidos"                    *)
(* (orderAccessMiddleware): whoever is barred has something left to pay.   *)
BarredParticipantOwes == \A p \in blocked : Owes(p, due)

(* The same refusal: after the bill was asked for, and before the payment  *)
(* is confirmed, no order of that participant enters the bill.             *)
BarredDoNotOrder ==
  [][\A o \in Order : order[o] = "admitted" /\ order'[o] = "open"
                         => OwnerOf[o] \notin blocked]_vars
=============================================================================
