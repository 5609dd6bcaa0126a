---------------------------- MODULE OrderRefund ----------------------------
(***************************************************************************)
(* Cancelling one order with an online payment: the refund that is claimed,*)
(* asked of the provider, recorded and only then followed by the           *)
(* cancellation (CancelOrderWorkflowService), the refund of money that     *)
(* arrives after the cancellation (ReconcileLateCancelledPaymentService),  *)
(* and the routes that confirm, fail or advance the order meanwhile.       *)
(*                                                                         *)
(* A call is a request, webhook or job in one of these services; it is     *)
(* free to start again when it ended and its request left the network.     *)
(* Conditional updates that repeat every condition read before them are    *)
(* one action with that read.                                              *)
(***************************************************************************)
EXTENDS Integers

CONSTANTS
  Call,      \* concurrent cancellations and reconciliations
  Provider,  \* of "ASAAS", "MERCADO_PAGO" (idempotency keys) and "EFI" (none)
  MaxAsked   \* bound: refund requests of one kind the provider takes as new

ASSUME RefundAssumption ==
  /\ Provider \subseteq {"ASAAS", "MERCADO_PAGO", "EFI"}
  /\ MaxAsked \in Nat \ {0}

VARIABLES
  status, paid, refund,  \* Order.status, paid, refundStatus
  ref,        \* the payment reference: "own", "late_refund_pending", "late_refunded"
  coupon,     \* the redemption of the order: "RESERVED", "USED", "RELEASED"
  restored,   \* history: times the stock of the items was given back
  via,        \* Order.paymentProvider
  charge,     \* the payment at the provider: "open", "received", "closed"
  wire,       \* calls whose refund request is on its way
  asked,      \* refund requests the provider took as new, by kind of call
  returned,   \* refunds the provider completed
  pc, kind,   \* where each call is, and whether it is a cancellation or late
  seenStatus, seenRefund  \* the order the call read first

order == <<status, paid, refund, ref, coupon, restored, via>>
provider == <<charge, wire, asked, returned>>
calls == <<pc, kind, seenStatus, seenRefund>>
vars == <<order, provider, calls>>

Status == {"PENDENTE", "PREPARANDO", "PRONTO", "SAIU_PARA_ENTREGA", "ENTREGUE", "CANCELADO"}
Refund == {"NOT_REQUESTED", "PROCESSING", "SUCCEEDED", "FAILED"}
Kind == {"cancel", "late"}
Phase == {"idle", "claiming", "asking", "posting", "waiting", "answered", "refused",
          "receipt", "finalizing"}

TypeOK ==
  /\ status \in Status /\ paid \in BOOLEAN /\ refund \in Refund
  /\ ref \in {"own", "late_refund_pending", "late_refunded"}
  /\ coupon \in {"RESERVED", "USED", "RELEASED"}
  /\ restored \in Nat /\ via \in Provider
  /\ charge \in {"open", "received", "closed"}
  /\ wire \subseteq Call
  /\ asked \in [Kind -> Nat] /\ returned \in Nat
  /\ pc \in [Call -> Phase] /\ kind \in [Call -> Kind]
  /\ seenStatus \in [Call -> Status] /\ seenRefund \in [Call -> Refund]

Init ==
  /\ status = "PENDENTE" /\ paid = FALSE /\ refund = "NOT_REQUESTED" /\ ref = "own"
  /\ coupon = "RESERVED" /\ restored = 0 /\ via \in Provider
  /\ charge = "open" /\ wire = {} /\ asked = [k \in Kind |-> 0] /\ returned = 0
  /\ pc = [c \in Call |-> "idle"] /\ kind = [c \in Call |-> "cancel"]
  /\ seenStatus = [c \in Call |-> "PENDENTE"]
  /\ seenRefund = [c \in Call |-> "NOT_REQUESTED"]

-----------------------------------------------------------------------------
(* The payment and the other routes of the order.                          *)

Pay ==
  /\ charge = "open" /\ charge' = "received"
  /\ UNCHANGED <<order, wire, asked, returned, calls>>

Close ==
  /\ charge = "open" /\ charge' = "closed"
  /\ UNCHANGED <<order, wire, asked, returned, calls>>

(* confirmPayment and the use of the reward, in one transaction.           *)
MarkPaid ==
  /\ ~paid /\ status # "CANCELADO"
  /\ paid' = TRUE
  /\ coupon' = IF coupon = "RESERVED" THEN "USED" ELSE coupon
  /\ UNCHANGED <<status, refund, ref, restored, via, provider, calls>>

FinalizePayment == charge = "received" /\ MarkPaid

(* The administrator vouches for a payment the provider has not confirmed. *)
ConfirmManually == MarkPaid

Barred == refund \in {"PROCESSING", "SUCCEEDED"}

CancelOrder ==
  /\ status' = "CANCELADO"
  /\ restored' = restored + 1
  /\ coupon' = IF coupon = "RESERVED" THEN "RELEASED" ELSE coupon

CancelUnpaid ==
  /\ ~paid /\ status \notin {"CANCELADO", "ENTREGUE"} /\ ~Barred
  /\ CancelOrder
  /\ UNCHANGED <<paid, refund, ref, via, provider, calls>>

FailPayment ==
  /\ charge = "closed" /\ status = "PENDENTE"
  /\ CancelUnpaid

Transition ==
  {<<"PENDENTE", "PREPARANDO">>, <<"PREPARANDO", "PRONTO">>,
   <<"PRONTO", "SAIU_PARA_ENTREGA">>, <<"PRONTO", "ENTREGUE">>,
   <<"SAIU_PARA_ENTREGA", "ENTREGUE">>}

Advance(to) ==
  /\ paid /\ ~Barred
  /\ <<status, to>> \in Transition
  /\ status' = to
  /\ UNCHANGED <<paid, refund, ref, coupon, restored, via, provider, calls>>

-----------------------------------------------------------------------------
(* A call starts: it reads the order and decides what it will do.          *)

Start(c, k, phase) ==
  /\ pc[c] = "idle" /\ c \notin wire
  /\ pc' = [pc EXCEPT ![c] = phase]
  /\ kind' = [kind EXCEPT ![c] = k]
  /\ seenStatus' = [seenStatus EXCEPT ![c] = status]
  /\ seenRefund' = [seenRefund EXCEPT ![c] = refund]
  /\ UNCHANGED <<order, provider>>

StartCancel(c) ==
  /\ paid /\ status \notin {"CANCELADO", "ENTREGUE"}
  /\ refund \in {"NOT_REQUESTED", "FAILED"}
  /\ Start(c, "cancel", "claiming")

(* refundStatus PROCESSING: reconcileOnly, no claim.                       *)
Bug_StartConsultOnce(c) ==
  /\ paid /\ status \notin {"CANCELADO", "ENTREGUE"} /\ refund = "FAILED"
  /\ Start(c, "cancel", "asking")
StartConsult(c) ==
  /\ paid /\ status \notin {"CANCELADO", "ENTREGUE"} /\ refund = "PROCESSING"
  /\ Start(c, "cancel", "asking")

StartFinalize(c) ==
  /\ paid /\ status \notin {"CANCELADO", "ENTREGUE"} /\ refund = "SUCCEEDED"
  /\ Start(c, "cancel", "finalizing")

(* Money for an order that was cancelled unpaid.  Unless a refund is being *)
(* reconciled, the caller verified that the provider still holds it.       *)
StartLate(c) ==
  /\ charge = "received" /\ returned = 0
  /\ status = "CANCELADO" /\ ~paid
  /\ refund \in {"NOT_REQUESTED", "FAILED"} /\ ref = "own"
  /\ Start(c, "late", "claiming")

StartLateConsult(c) ==
  /\ charge = "received"
  /\ status = "CANCELADO" /\ ~paid
  /\ refund = "PROCESSING" /\ ref = "late_refund_pending"
  /\ Start(c, "late", "asking")

Goto(c, phase) ==
  /\ pc' = [pc EXCEPT ![c] = phase]
  /\ UNCHANGED <<kind, seenStatus, seenRefund>>

Bug_ClaimableAny(c) == status = seenStatus[c] /\ paid
Claimable(c) ==
  /\ status = seenStatus[c] /\ refund = seenRefund[c]
  /\ IF kind[c] = "cancel" THEN paid ELSE ~paid /\ ref = "own"

Claim(c) ==
  /\ pc[c] = "claiming" /\ Claimable(c)
  /\ refund' = "PROCESSING"
  /\ ref' = IF kind[c] = "late" THEN "late_refund_pending" ELSE ref
  /\ Goto(c, "asking")
  /\ UNCHANGED <<status, paid, coupon, restored, via, provider>>

ClaimLost(c) ==
  /\ pc[c] = "claiming" /\ ~Claimable(c)
  /\ Goto(c, IF kind[c] = "cancel" /\ refund = "SUCCEEDED" THEN "finalizing" ELSE "idle")
  /\ UNCHANGED <<order, provider>>

-----------------------------------------------------------------------------
(* RefundOrderPaymentService.                                              *)

Consulting(c) == seenRefund[c] = "PROCESSING"
OnlyVerifies(c) == seenRefund[c] \in {"PROCESSING", "FAILED"}

(* What an error means to the caller: REFUND_PENDING and every error of a  *)
(* consultation leave the row alone.                                       *)
AfterError(c) == IF Consulting(c) THEN "idle" ELSE "refused"

(* Credentials or reference are missing: nothing was sent.                 *)
Unavailable(c) ==
  /\ pc[c] = "asking"
  /\ Goto(c, AfterError(c))
  /\ UNCHANGED <<order, provider>>

Send(c) ==
  /\ wire' = wire \cup {c}
  /\ Goto(c, "waiting")
  /\ UNCHANGED <<order, charge, asked, returned>>

AskDirectly(c) ==
  /\ via # "ASAAS"
  /\ pc[c] = "asking" /\ ~Consulting(c)
  /\ Send(c)

ConsultNothing(c) ==
  /\ via # "ASAAS"
  /\ pc[c] = "asking" /\ Consulting(c)
  /\ Goto(c, "idle")
  /\ UNCHANGED <<order, provider>>

AskedInAll == asked["cancel"] + asked["late"]

(* The first reading of the payment at Asaas, when it succeeds.            *)
ReadPayment(c) ==
  /\ via = "ASAAS" /\ pc[c] = "asking"
  /\ Goto(c, IF returned > 0 THEN "receipt"
             ELSE IF OnlyVerifies(c) \/ AskedInAll > 0 \/ charge # "received" THEN "idle"
             ELSE "posting")
  /\ UNCHANGED <<order, provider>>

PostRefund(c) == pc[c] = "posting" /\ Send(c)

(* The request arrives; with a key seen before it repeats its answer.      *)
Taken(k) ==
  IF charge # "received" THEN asked
  ELSE IF via = "MERCADO_PAGO" THEN [asked EXCEPT ![k] = 1]
  ELSE [asked EXCEPT ![k] = asked[k] + 1]

Arrive(c, heard) ==
  /\ c \in wire /\ asked[kind[c]] < MaxAsked
  /\ wire' = wire \ {c}
  /\ asked' = Taken(kind[c])
  /\ returned' = IF via = "ASAAS" THEN returned
                 ELSE asked'["cancel"] + asked'["late"]
  /\ heard => pc[c] = "waiting" /\ charge = "received"
  /\ Goto(c, IF ~heard THEN pc[c]
             ELSE IF via = "ASAAS" THEN "answered" ELSE "receipt")
  /\ UNCHANGED <<order, charge>>

Lose(c) ==
  /\ c \in wire
  /\ wire' = wire \ {c}
  /\ UNCHANGED <<order, charge, asked, returned, calls>>

(* A refund at Asaas takes its time.                                       *)
Complete ==
  /\ returned < AskedInAll
  /\ returned' = returned + 1
  /\ UNCHANGED <<order, charge, wire, asked, calls>>

(* No answer, or a negative one.                                           *)
Bug_SilenceIsRefusal(c) == "refused"
AfterSilence(c) == IF via = "ASAAS" THEN "idle" ELSE "refused"

GiveUp(c) ==
  /\ pc[c] = "waiting"
  /\ Goto(c, AfterSilence(c))
  /\ UNCHANGED <<order, provider>>

Bug_ReadAgainTrusts(c) ==
  /\ pc[c] = "answered"
  /\ Goto(c, "receipt")
  /\ UNCHANGED <<order, provider>>
ReadAgain(c) ==
  /\ pc[c] = "answered"
  /\ Goto(c, IF returned > 0 THEN "receipt" ELSE "idle")
  /\ UNCHANGED <<order, provider>>

-----------------------------------------------------------------------------
(* Recording the outcome.                                                  *)

Mine(c) ==
  /\ refund = "PROCESSING"
  /\ IF kind[c] = "cancel" THEN paid ELSE ref = "late_refund_pending"

RecordFailed(c) ==
  /\ pc[c] = "refused"
  /\ IF Mine(c)
       THEN /\ refund' = "FAILED"
            /\ ref' = IF kind[c] = "late" THEN "own" ELSE ref
       ELSE UNCHANGED <<refund, ref>>
  /\ Goto(c, "idle")
  /\ UNCHANGED <<status, paid, coupon, restored, via, provider>>

RecordSucceeded(c) ==
  /\ pc[c] = "receipt"
  /\ IF Mine(c)
       THEN /\ refund' = "SUCCEEDED"
            /\ ref' = IF kind[c] = "late" THEN "late_refunded" ELSE ref
       ELSE UNCHANGED <<refund, ref>>
  /\ Goto(c, IF kind[c] = "cancel" /\ refund' = "SUCCEEDED" THEN "finalizing" ELSE "idle")
  /\ UNCHANGED <<status, paid, coupon, restored, via, provider>>

Finishable == refund = "SUCCEEDED" /\ status \notin {"CANCELADO", "ENTREGUE"}

Finalize(c) ==
  /\ pc[c] = "finalizing"
  /\ IF Finishable THEN CancelOrder ELSE UNCHANGED <<status, restored, coupon>>
  /\ Goto(c, "idle")
  /\ UNCHANGED <<paid, refund, ref, via, provider>>

(* The process or its connection dies between two steps.                   *)
Die(c) ==
  /\ pc[c] # "idle"
  /\ Goto(c, "idle")
  /\ UNCHANGED <<order, provider>>

Begin(c) ==
  \/ StartCancel(c) \/ StartConsult(c) \/ StartFinalize(c)
  \/ StartLate(c) \/ StartLateConsult(c)

Network(c) == Arrive(c, TRUE) \/ Arrive(c, FALSE) \/ Lose(c)

Proceed(c) ==
  \/ Claim(c) \/ ClaimLost(c)
  \/ Unavailable(c) \/ AskDirectly(c) \/ ConsultNothing(c)
  \/ ReadPayment(c) \/ PostRefund(c)
  \/ GiveUp(c) \/ ReadAgain(c)
  \/ RecordFailed(c) \/ RecordSucceeded(c) \/ Finalize(c)
  \/ Die(c)

Next ==
  \/ Pay \/ Close
  \/ FinalizePayment \/ ConfirmManually
  \/ CancelUnpaid \/ FailPayment
  \/ \E to \in Status : Advance(to)
  \/ Complete
  \/ \E c \in Call : Begin(c) \/ Network(c) \/ Proceed(c)

Spec == Init /\ [][Next]_vars

-----------------------------------------------------------------------------
(* Every call goes on or dies (its requests have timeouts) and every       *)
(* request arrives or is lost.  Asaas announces a refund until the         *)
(* announcement is processed and "Consultar estorno" can be repeated:      *)
(* consultations keep starting, and not every one of them fails or dies.   *)
Fairness ==
  /\ WF_vars(Complete)
  /\ \A c \in Call :
       /\ WF_vars(Proceed(c)) /\ WF_vars(Network(c))
       /\ SF_vars(StartConsult(c) \/ StartLateConsult(c) \/ StartFinalize(c))
       /\ SF_vars(ReadPayment(c)) /\ SF_vars(RecordSucceeded(c)) /\ SF_vars(Finalize(c))

FairSpec == Spec /\ Fairness

-----------------------------------------------------------------------------
(* At most one refund request of the order is ever taken by the provider   *)
(* as new, however many cancellations, retries after an ambiguous answer,  *)
(* webhooks and late payments there are (claim by refundStatus,            *)
(* verifyExistingRefund, stable idempotency key).  Efi gets no key.          *)
OneRefund == via # "EFI" => AskedInAll <= 1

(* A paid order is cancelled only after its money went back, and the row   *)
(* says SUCCEEDED only when it did: finalizeSucceededRefund runs after     *)
(* persistRefundSucceeded, which needs a receipt.                          *)
CancelledIsReturned ==
  /\ status = "CANCELADO" /\ paid => refund = "SUCCEEDED"
  /\ refund = "SUCCEEDED" => returned > 0

(* The stock of the items is given back exactly once, by whichever of the  *)
(* cancellations, expirations and finalizations comes first.               *)
RestockedOnce == restored = IF status = "CANCELADO" THEN 1 ELSE 0

(* Once a refund request may have left, the kitchen and the courier never  *)
(* move the order again; it can only become cancelled.  So at Asaas, where *)
(* an ambiguous answer leaves the row in processing.                       *)
KitchenStops ==
  [][via = "ASAAS" /\ status' \notin {status, "CANCELADO"} =>
       wire = {} /\ AskedInAll = 0]_vars

(* After the financial success is recorded, a repetition only concludes    *)
(* the cancellation: no request is sent and no route changes the row back. *)
SuccessIsFinal ==
  [][refund = "SUCCEEDED" => wire' \subseteq wire /\ refund' = refund]_vars

(* A refund that reached the provider ends in a cancelled order: late      *)
(* answers, dead processes and failing consultations only delay it, where  *)
(* the refund can be consulted.                                            *)
RequestReachesOrder ==
  via = "ASAAS" /\ AskedInAll > 0 ~> (refund = "SUCCEEDED" /\ status = "CANCELADO")

(* An order whose refund is concluded is not delivered: the message of     *)
(* UpdateOrderStatusService, "Pedido com estorno em processamento ou       *)
(* concluido nao pode ser entregue".                                       *)
DeliveredIsKept == status = "ENTREGUE" => returned = 0

(* Consulting again concludes a refund in processing: the message of       *)
(* RefundOrderPaymentService, "Consulte novamente para conciliar".         *)
ConsultingConcludes ==
  refund = "PROCESSING" /\ charge = "received" ~> refund # "PROCESSING"
=============================================================================
