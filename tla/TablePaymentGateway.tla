------------------------- MODULE TablePaymentGateway -------------------------
(***************************************************************************)
(* One Pix payment intent of a table and its charge at the gateway         *)
(* (backend/src/modules/tableAccount: CreateTablePaymentIntentService,     *)
(* ProcessTablePaymentWebhookService, CancelTablePaymentIntentService,     *)
(* RefundTablePaymentService, the two Reconcile services and               *)
(* tablePaymentRemoteOperation).                                           *)
(*                                                                         *)
(* Requests and webhook deliveries are handled by workers, and everything  *)
(* between two awaits of a handler is one step: a transaction under the    *)
(* lock of the session, or a call of the gateway.  The charge may move     *)
(* between any two of them.  A worker may crash anywhere.  TableBill has   *)
(* the bill the intent pays.                                               *)
(***************************************************************************)
EXTENDS Naturals, FiniteSets

CONSTANTS
  Worker,      \* handlers that may run at once, on any replica
  MaxCrashes   \* bound: handlers that die or fail before they finish

ASSUME GatewayAssumption == MaxCrashes \in Nat

VARIABLES
  status,    \* TablePaymentIntent.status; "none" before it is reserved
  ext,       \* whether providerExternalId, and the Pix code with it, is stored
  charge,    \* the charge at the gateway
  notify,    \* webhooks to be delivered until a handler answers 200
  seen,      \* recorded events REFUNDED, by their source (see Process)
  claim,     \* the durable claim of each remote operation
  w,         \* what each worker is doing
  sent,      \* history: refunds sent to the gateway
  crashes

vars == <<status, ext, charge, notify, seen, claim, w, sent, crashes>>

Pending == {"RESERVED", "PROCESSING"}
Dead == {"FAILED", "EXPIRED", "CANCELED"}
IntentStatus == {"none", "PAID", "REFUNDED"} \cup Pending \cup Dead
ChargeStatus == {"none", "PENDING", "PAID", "REFUNDED"} \cup Dead
Source == {"none", "create", "webhook", "reconcile", "cancel", "refund"}
Op == {"cancel", "refund"}
Stage == {"idle", "asked", "created", "refused", "process", "claim", "act", "query",
          "record", "finalize"}

Idle == [at |-> "idle", src |-> "none", op |-> "none", saw |-> "none", note |-> "none"]

TypeOK ==
  /\ status \in IntentStatus
  /\ ext \in BOOLEAN
  /\ charge \in ChargeStatus
  /\ notify \subseteq ChargeStatus
  /\ seen \subseteq Source
  /\ claim \in [Op -> {"none", "PENDING", "CONFIRMED"}]
  /\ w \in [Worker -> [at : Stage, src : Source, op : Op \cup {"none"},
                       saw : ChargeStatus \cup {"error"}, note : ChargeStatus]]
  /\ sent \in Nat
  /\ crashes \in 0 .. MaxCrashes

Init ==
  /\ status = "none" /\ ext = FALSE
  /\ charge = "none" /\ notify = {}
  /\ seen = {} /\ claim = [o \in Op |-> "none"]
  /\ w = [h \in Worker |-> Idle]
  /\ sent = 0 /\ crashes = 0

Books == <<status, ext, seen, claim>>
Gateway == <<charge, notify, sent>>

At(h, stage) == w[h].at = stage
Begin(h, stage, src, op, saw, note) ==
  w' = [w EXCEPT ![h] = [at |-> stage, src |-> src, op |-> op, saw |-> saw, note |-> note]]
Goto(h, stage, op, saw) == Begin(h, stage, w[h].src, op, saw, w[h].note)
Finish(h) == w' = [w EXCEPT ![h] = Idle]

(* A handler that ends answers its webhook with 200.                       *)
Acknowledge(h) ==
  notify' = IF w[h].src = "webhook" THEN notify \ {w[h].note} ELSE notify
End(h) == Finish(h) /\ Acknowledge(h)

-----------------------------------------------------------------------------
(* CreateTablePaymentIntentService.  A replay of the same key finds the    *)
(* intent RESERVED without an external id and asks the gateway again,      *)
(* which answers with the same charge.                                     *)
Ask(h) ==
  /\ At(h, "idle")
  /\ status = "none" \/ (status = "RESERVED" /\ ~ ext)
  /\ status' = "RESERVED"
  /\ Begin(h, "asked", "create", "none", "none", "none")
  /\ UNCHANGED <<ext, seen, claim, Gateway, crashes>>

(* createPix: external, idempotent by X-Idempotency-Key.                   *)
Create(h) ==
  /\ At(h, "asked")
  /\ charge' = IF charge = "none" THEN "PENDING" ELSE charge
  /\ Goto(h, "created", "none", charge')
  /\ UNCHANGED <<Books, notify, sent, crashes>>

(* No provider is configured, or it answers 4xx.                           *)
Refuse(h) ==
  /\ At(h, "asked")
  /\ Goto(h, "refused", "none", "none")
  /\ UNCHANGED <<Books, Gateway, crashes>>

(* Any other error is ambiguous and leaves the reservation to a replay.    *)
Unclear(h) ==
  /\ w[h].at \in {"asked", "created"}
  /\ Finish(h)
  /\ UNCHANGED <<Books, Gateway, crashes>>

(* The answer is stored only while the intent is still RESERVED.           *)
StoreAnswer(h) ==
  /\ At(h, "created")
  /\ status' = IF status = "RESERVED" THEN "PROCESSING" ELSE status
  /\ ext' = (ext \/ status = "RESERVED")
  /\ IF w[h].saw = "PENDING" THEN Finish(h) ELSE Goto(h, "process", "none", w[h].saw)
  /\ UNCHANGED <<seen, claim, Gateway, crashes>>

StoreRefusal(h) ==
  /\ At(h, "refused")
  /\ status' = IF status = "RESERVED" THEN "FAILED" ELSE status
  /\ Finish(h)
  /\ UNCHANGED <<ext, seen, claim, Gateway, crashes>>

-----------------------------------------------------------------------------
(* ReconcileTableOrderWebhookService: a webhook only says that something   *)
(* changed; the handler reads the charge and processes what it saw later.  *)
(* One about an unknown external id is answered 200 and forgotten.         *)
Webhook(h) ==
  \E n \in notify :
    /\ At(h, "idle")
    /\ IF ext
         THEN Begin(h, "process", "webhook", "none", charge, n) /\ UNCHANGED notify
         ELSE notify' = notify \ {n} /\ UNCHANGED w
    /\ UNCHANGED <<Books, charge, sent, crashes>>

(* ReconcileTablePaymentService, called by the participant.                *)
Reconcile(h) ==
  /\ At(h, "idle") /\ ext
  /\ Begin(h, "process", "reconcile", "none", charge, "none")
  /\ UNCHANGED <<Books, Gateway, crashes>>

(* Operators named Bug_ are defective variants of the definition that      *)
(* follows; the specification never uses them.                             *)

(* resolveTablePaymentProviderTransition: the status a provider event      *)
(* leads to.                                                               *)
Bug_TransitionPaysPending(from, saw) ==
  CASE from \in Pending /\ saw \in {"PENDING", "PAID"} -> "PAID"
    [] from \in Pending /\ saw \in Dead -> saw
    [] from = "PAID" /\ saw = "REFUNDED" -> "REFUNDED"
    [] OTHER -> from
Bug_TransitionRevives(from, saw) ==
  CASE from \in Pending \cup Dead /\ saw = "PAID" -> "PAID"
    [] from \in Pending /\ saw \in Dead -> saw
    [] from = "PAID" /\ saw = "REFUNDED" -> "REFUNDED"
    [] OTHER -> from
Transition(from, saw) ==
  CASE from \in Pending /\ saw = "PAID" -> "PAID"
    [] from \in Pending /\ saw \in Dead -> saw
    [] from = "PAID" /\ saw = "REFUNDED" -> "REFUNDED"
    [] OTHER -> from

Bug_NeverLate(from, saw) == FALSE
Late(from, saw) == from \in Dead /\ saw \in {"PAID", "REFUNDED"}

(* ProcessTablePaymentWebhookService.executeValidated up to its commit.    *)
(* An event is recorded under its source and status, even one that changes *)
(* nothing, and a duplicate changes nothing.  This matters for REFUNDED    *)
(* alone, which does nothing to a pending intent and something to a paid   *)
(* one: any other status that does nothing once never will.  A duplicate   *)
(* of a late payment still leads to its refund.                            *)
Process(h) ==
  LET saw == w[h].saw
      duplicate == saw = "REFUNDED" /\ w[h].src \in seen
  IN  /\ At(h, "process")
      /\ seen' = IF ext /\ saw = "REFUNDED" THEN seen \cup {w[h].src} ELSE seen
      /\ status' = IF ext /\ ~ duplicate THEN Transition(status, saw) ELSE status
      /\ IF ext /\ Late(status, saw)
           THEN Goto(h, "claim", "refund", "none") /\ UNCHANGED notify
           ELSE End(h)
      /\ UNCHANGED <<ext, claim, charge, sent, crashes>>

-----------------------------------------------------------------------------
(* CancelTablePaymentIntentService: the intent is canceled here first; a   *)
(* repeated cancellation only looks at the gateway again.                  *)
Cancel(h) ==
  /\ At(h, "idle") /\ status \in Pending \cup {"CANCELED"}
  /\ status' = "CANCELED"
  /\ Begin(h, "claim", "cancel", "cancel", "none", "none")
  /\ UNCHANGED <<ext, seen, claim, Gateway, crashes>>

(* RefundTablePaymentService, before and after the remote operation.       *)
Refund(h) ==
  /\ At(h, "idle") /\ status = "PAID"
  /\ Begin(h, "claim", "refund", "refund", "none", "none")
  /\ UNCHANGED <<Books, Gateway, crashes>>

Finalize(h) ==
  /\ At(h, "finalize")
  /\ status' = IF status = "PAID" THEN "REFUNDED" ELSE status
  /\ Finish(h)
  /\ UNCHANGED <<ext, seen, claim, Gateway, crashes>>

-----------------------------------------------------------------------------
(* executeTablePaymentRemoteOperation.  The first caller claims and acts;  *)
(* whoever finds a claim only looks.                                       *)
Bug_ClaimTwice(h) ==
  LET op == w[h].op
  IN  /\ At(h, "claim")
      /\ claim' = [claim EXCEPT ![op] = "PENDING"]
      /\ Goto(h, "act", op, "none")
      /\ UNCHANGED <<status, ext, seen, Gateway, crashes>>
Claim(h) ==
  LET op == w[h].op
  IN  /\ At(h, "claim")
      /\ claim' = [claim EXCEPT ![op] = IF @ = "none" THEN "PENDING" ELSE @]
      /\ CASE claim[op] = "none" -> Goto(h, "act", op, "none") /\ UNCHANGED notify
           [] claim[op] = "PENDING" -> Goto(h, "query", op, "none") /\ UNCHANGED notify
           [] claim[op] = "CONFIRMED" ->
                IF w[h].src = "refund" THEN Goto(h, "finalize", op, "none") /\ UNCHANGED notify
                                       ELSE End(h)
      /\ UNCHANGED <<status, ext, seen, charge, sent, crashes>>

(* mutateDirectTablePayment: it looks, acts if there is something to undo  *)
(* and looks again.  An intent without external id fails before any call.  *)
Undo(op) == IF op = "refund" THEN "REFUNDED" ELSE "CANCELED"
Undoable(op) == charge = (IF op = "refund" THEN "PAID" ELSE "PENDING")
Act(h) ==
  LET op == w[h].op
  IN  /\ At(h, "act")
      /\ \/ /\ ext /\ Undoable(op)
            /\ charge' = Undo(op) /\ notify' = notify \cup {Undo(op)}
         \/ UNCHANGED <<charge, notify>>
      /\ sent' = IF op = "refund" /\ ext /\ Undoable(op) THEN sent + 1 ELSE sent
      /\ \E answer \in {"error"} \cup (IF ext THEN {charge'} ELSE {}) :
           Goto(h, "record", op, answer)
      /\ UNCHANGED <<Books, crashes>>

(* A repetition: getPayment, which may fail.                               *)
Query(h) ==
  /\ At(h, "query")
  /\ \E answer \in {"error"} \cup (IF ext THEN {charge} ELSE {}) :
       Goto(h, "record", w[h].op, answer)
  /\ UNCHANGED <<Books, Gateway, crashes>>

Bug_ConfirmedByAnyAnswer(op, saw) == saw # "error"
Confirmed(op, saw) ==
  saw \in (IF op = "refund" THEN {"REFUNDED"} ELSE Dead \cup {"REFUNDED"})

(* The outcome is recorded; a cancellation that finds the charge paid goes *)
(* on to process that, a refund that is confirmed to the books.            *)
Record(h) ==
  LET op == w[h].op
      ok == Confirmed(op, w[h].saw)
  IN  /\ At(h, "record")
      /\ claim' = [claim EXCEPT ![op] = IF ok THEN "CONFIRMED" ELSE @]
      /\ CASE op = "cancel" /\ w[h].saw = "PAID" ->
                Goto(h, "process", "none", "PAID") /\ UNCHANGED notify
           [] op = "refund" /\ ok /\ w[h].src = "refund" ->
                Goto(h, "finalize", op, "none") /\ UNCHANGED notify
           [] OTHER -> End(h)
      /\ UNCHANGED <<status, ext, seen, charge, sent, crashes>>

-----------------------------------------------------------------------------
(* TablePaymentReservationExpirationJob, or the sweep of another handler.  *)
Expire ==
  /\ status \in Pending
  /\ status' = "EXPIRED"
  /\ UNCHANGED <<ext, seen, claim, w, Gateway, crashes>>

(* The payer, who has the Pix code once it is stored, late or not.         *)
Pay ==
  /\ ext /\ charge = "PENDING"
  /\ charge' = "PAID" /\ notify' = notify \cup {"PAID"}
  /\ UNCHANGED <<Books, w, sent, crashes>>

(* The charge lapses or is refused; the restaurant refunds it in the       *)
(* gateway's own dashboard, or the payer's bank charges it back.           *)
GatewayMoves ==
  \E s \in Dead \cup {"REFUNDED"} :
    /\ charge = (IF s = "REFUNDED" THEN "PAID" ELSE "PENDING")
    /\ charge' = s /\ notify' = notify \cup {s}
    /\ UNCHANGED <<Books, w, sent, crashes>>

(* A worker dies, or a query or a transaction of its fails.  The gateway   *)
(* delivers the webhook again.                                             *)
Crash(h) ==
  /\ ~ At(h, "idle") /\ crashes < MaxCrashes
  /\ crashes' = crashes + 1
  /\ Finish(h)
  /\ UNCHANGED <<Books, Gateway>>

Continue(h) ==
  \/ StoreAnswer(h) \/ StoreRefusal(h) \/ Process(h)
  \/ Claim(h) \/ Act(h) \/ Query(h) \/ Record(h) \/ Finalize(h)

Next ==
  \/ \E h \in Worker :
       \/ Ask(h) \/ Create(h) \/ Refuse(h) \/ Unclear(h)
       \/ Webhook(h) \/ Reconcile(h) \/ Cancel(h) \/ Refund(h)
       \/ Continue(h)
       \/ Crash(h)
  \/ Expire \/ Pay \/ GatewayMoves

(* Handlers run to their end unless they crash, an idle replica serves a   *)
(* webhook that keeps being delivered, and an unanswered call times out.   *)
Fairness ==
  /\ \A h \in Worker : WF_vars(Continue(h)) /\ WF_vars(Create(h) \/ Refuse(h) \/ Unclear(h))
  /\ \A h \in Worker : SF_vars(Webhook(h))

Spec == Init /\ [][Next]_vars /\ Fairness

-----------------------------------------------------------------------------
(* The books never show money the gateway does not have: a paid intent was *)
(* paid, a refunded one was refunded, whatever evidence arrived in between *)
(* and in whatever order (ProcessTablePaymentWebhookService).              *)
BooksAreBacked ==
  /\ status = "PAID" => charge \in {"PAID", "REFUNDED"}
  /\ status = "REFUNDED" => charge = "REFUNDED"

(* What is recorded as confirmed is final at the gateway: the money of a   *)
(* confirmed refund is back, and after a confirmed cancellation none can   *)
(* arrive any more (executeTablePaymentRemoteOperation).                   *)
ClaimsAreTrue ==
  /\ claim["refund"] = "CONFIRMED" => charge = "REFUNDED"
  /\ claim["cancel"] = "CONFIRMED" => charge \in Dead \cup {"REFUNDED"}

(* "Repeticoes apenas conciliam": over crashes, repeated requests, the     *)
(* administrator and the automatic refund of a late payment, at most one   *)
(* refund is sent (the comment of executeTablePaymentRemoteOperation).     *)
RefundSentOnce == sent <= 1

(* Money that reaches the gateway is accounted for: the intent becomes     *)
(* paid, or a refund is claimed, which flags it for manual review until it *)
(* is confirmed, or the money has gone back.                               *)
MoneyIsAccountedFor ==
  charge = "PAID" ~> \/ status \in {"PAID", "REFUNDED"}
                     \/ claim["refund"] # "none"
                     \/ charge = "REFUNDED"

Bill ==
  CASE status \in {"none"} \cup Pending -> "open"
    [] status = "PAID" -> "settled"
    [] status = "REFUNDED" -> "returned"
    [] OTHER -> "void"
Money ==
  CASE charge = "PAID" -> "held"
    [] charge = "REFUNDED" -> "back"
    [] OTHER -> "none"
Promise == INSTANCE PaymentPromise WITH bill <- Bill, money <- Money

(* The intent and its charge keep the promise of PaymentPromise: a settled *)
(* bill is never reopened but for money that went back, and a bill that    *)
(* was given up is never settled (resolveTablePaymentProviderTransition).  *)
KeepsPromise == Promise!Spec

(* DB-05 of the recovery test plan: out of order events of two workers do  *)
(* not set a payment back.  Once a webhook has told that the charge was    *)
(* refunded, the intent is not taken for paid.                             *)
RefundNewsIsKept == "webhook" \in seen => status # "PAID"
=============================================================================
