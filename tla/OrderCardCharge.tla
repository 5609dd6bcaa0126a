-------------------------- MODULE OrderCardCharge --------------------------
(***************************************************************************)
(* The card charges of one order at Mercado Pago: the attempt that is      *)
(* written before the gateway is asked, the answer that may be lost, the   *)
(* retry that a customer may start once the previous charge is known to be *)
(* dead, the polls, webhooks and the expiration job that learn what became *)
(* of a charge, and the refund of money that arrives for a cancelled       *)
(* order.                                                                  *)
(*                                                                         *)
(* Attempt a has one provider order, found by its own reference, so a row  *)
(* without providerOrderId is searched and one with it is read: the same   *)
(* step here.  A call is a request, a webhook or a job at work on the      *)
(* order; it is free to start again when it ended.                         *)
(***************************************************************************)
EXTENDS Integers, FiniteSets

CONSTANTS
  Call,        \* concurrent requests, webhooks and jobs
  MaxAttempt,  \* bound: attempts of the order
  Dies,        \* whether a process may die between two steps
  Cancels,     \* whether the gateway may report a charge as cancelled
  UnsafeChallenge  \* whether it may ask for a challenge without a safe address

ASSUME OrderCardChargeAssumption ==
  /\ MaxAttempt \in Nat \ {0}
  /\ Dies \in BOOLEAN /\ Cancels \in BOOLEAN /\ UnsafeChallenge \in BOOLEAN

VARIABLES
  orderStatus, paid, refund,  \* Order.status, paid, refundStatus
  session,    \* Order.cardCheckoutSessionId: its prefix and the attempt it names
  row,        \* OrderPaymentAttempt.status of each attempt
  unsafe,     \* history: attempts failed with missing_3ds_challenge_url
  past,       \* the thirty minutes of the online payment are over
  remote,     \* the provider order of each attempt
  wire,       \* attempts whose request is on its way to the gateway
  pc, kind,   \* where each call is, and which route it runs
  at,         \* the attempt a call works on
  news,       \* what a call was told of the charge
  old         \* the session a call read

order == <<orderStatus, paid, refund, session>>
rows == <<row, unsafe>>
gateway == <<remote, wire>>
calls == <<pc, kind, at, news, old>>
cardVars == <<order, rows, past, gateway, calls>>

Attempt == 1..MaxAttempt
Active == {"PENDING", "PROCESSING", "APPROVED"}
RowStatus == Active \cup
  {"none", "DECLINED", "FAILED", "CANCELED", "EXPIRED", "REFUNDED"}
Remote == {"none", "refused", "open", "processed", "failed", "expired", "cancelled", "refunded"}
Unlinked == <<"none", 0>>
MpOrder(a) == <<"mp_order", a>>
LatePending(a) == <<"late_refund_pending", a>>
LateRefunded(a) == <<"late_refunded", a>>
Session == {Unlinked} \cup {MpOrder(a) : a \in Attempt}
             \cup {LatePending(a) : a \in Attempt} \cup {LateRefunded(a) : a \in Attempt}
Kind == {"none", "checkout", "retry", "poll", "job", "webhook", "consult"}
Phase == {"idle", "charging", "waiting", "recording", "linking", "finalizing", "late",
          "refunding", "consulting", "receipt", "polling", "searching", "binding", "reading",
          "applying", "marking", "expiring", "failing", "notified", "hooking"}

(* The rows and columns have the values of the schema, and a call that     *)
(* does nothing remembers nothing.                                         *)
CardTypeOK ==
  /\ orderStatus \in {"PENDENTE", "CANCELADO"} /\ paid \in BOOLEAN
  /\ refund \in {"NOT_REQUESTED", "PROCESSING", "SUCCEEDED", "FAILED"}
  /\ session \in Session
  /\ row \in [Attempt -> RowStatus] /\ unsafe \subseteq Attempt
  /\ past \in BOOLEAN
  /\ remote \in [Attempt -> Remote] /\ wire \subseteq Attempt
  /\ pc \in [Call -> Phase] /\ kind \in [Call -> Kind]
  /\ at \in [Call -> 0..MaxAttempt]
  /\ news \in [Call -> Remote \cup {"unknown", "unsafe"}]
  /\ old \in [Call -> Session]
  /\ \A c \in Call : pc[c] = "idle" <=> kind[c] = "none"

CardInit ==
  /\ orderStatus = "PENDENTE" /\ paid = FALSE /\ refund = "NOT_REQUESTED"
  /\ session = Unlinked
  /\ row = [a \in Attempt |-> "none"] /\ unsafe = {}
  /\ past = FALSE
  /\ remote = [a \in Attempt |-> "none"] /\ wire = {}
  /\ pc = [c \in Call |-> "idle"] /\ kind = [c \in Call |-> "none"]
  /\ at = [c \in Call |-> 0] /\ news = [c \in Call |-> "none"]
  /\ old = [c \in Call |-> Unlinked]

Written == {a \in Attempt : row[a] # "none"}
Latest == Cardinality(Written)
ActiveRow(a) == a \in Attempt /\ row[a] \in Active
Barred == refund \in {"PROCESSING", "SUCCEEDED"}

BeginCall(c, k, phase, a, s) ==
  /\ pc[c] = "idle"
  /\ pc' = [pc EXCEPT ![c] = phase]
  /\ kind' = [kind EXCEPT ![c] = k]
  /\ at' = [at EXCEPT ![c] = a]
  /\ old' = [old EXCEPT ![c] = s]
  /\ UNCHANGED news

(* A call goes on to a phase having been told n; idle forgets everything.  *)
Proceed(c, phase, n) ==
  /\ pc' = [pc EXCEPT ![c] = phase]
  /\ IF phase = "idle"
     THEN /\ kind' = [kind EXCEPT ![c] = "none"] /\ at' = [at EXCEPT ![c] = 0]
          /\ news' = [news EXCEPT ![c] = "none"] /\ old' = [old EXCEPT ![c] = Unlinked]
     ELSE /\ news' = [news EXCEPT ![c] = n] /\ UNCHANGED <<kind, at, old>>

-----------------------------------------------------------------------------
(* An attempt is written, then its charge is asked of the gateway.         *)

Write(c, k) ==
  /\ Latest < MaxAttempt
  /\ row' = [row EXCEPT ![Latest + 1] = "PENDING"]
  /\ BeginCall(c, k, "charging", Latest + 1, Unlinked)
  /\ UNCHANGED <<orderStatus, paid, refund, unsafe, past, gateway>>

(* The request that created the order, which nothing repeats.              *)
Checkout(c) ==
  /\ Latest = 0
  /\ Write(c, "checkout")
  /\ UNCHANGED session

(* claimCardRetry, under the lock of the order.                            *)
Bug_RetryWhilePending(c) ==
  /\ ~paid /\ orderStatus # "CANCELADO" /\ ~Barred /\ ~past
  /\ Latest # 0 /\ \A a \in Attempt : row[a] \notin {"PENDING", "APPROVED"}
  /\ Write(c, "retry")
  /\ session' = Unlinked
Retry(c) ==
  /\ ~paid /\ orderStatus # "CANCELADO" /\ ~Barred /\ ~past
  /\ Latest # 0 /\ \A a \in Attempt : ~ActiveRow(a)
  /\ Write(c, "retry")
  /\ session' = Unlinked

Send(c) ==
  /\ pc[c] = "charging"
  /\ wire' = wire \cup {at[c]}
  /\ Proceed(c, "waiting", "none")
  /\ UNCHANGED <<order, rows, past, remote>>

(* The answer, which progress made since may have overtaken: an order that *)
(* was open when it was sent may have asked for a challenge whose address  *)
(* is missing or not of Mercado Pago.                                      *)
Early == {"open"} \cup (IF UnsafeChallenge THEN {"unsafe"} ELSE {})

Answered(c) ==
  /\ pc[c] = "waiting" /\ at[c] \notin wire /\ remote[at[c]] # "none"
  /\ \E n \in {remote[at[c]]} \cup (IF remote[at[c]] = "refused" THEN {} ELSE Early) :
       Proceed(c, "recording", n)
  /\ UNCHANGED <<order, rows, past, gateway>>

(* A timeout, a lost or malformed answer, a 5xx.                           *)
Unanswered(c) ==
  /\ pc[c] = "waiting"
  /\ Proceed(c, "recording", "unknown")
  /\ UNCHANGED <<order, rows, past, gateway>>

(* A challenge that is not safe is reported as a rejected request.         *)
Outcome(n) ==
  CASE n = "processed" -> "APPROVED"
    [] n = "failed" -> "DECLINED"
    [] n \in {"refused", "unsafe"} -> "FAILED"
    [] OTHER -> "PROCESSING"

(* The row is updated whatever became of it meanwhile.                     *)
RecordOutcome(c) ==
  /\ pc[c] = "recording"
  /\ row' = [row EXCEPT ![at[c]] = Outcome(news[c])]
  /\ unsafe' = IF news[c] = "unsafe" THEN unsafe \cup {at[c]} ELSE unsafe
  /\ Proceed(c, IF news[c] \in {"failed", "refused", "unsafe", "unknown"} THEN "idle" ELSE "linking",
             news[c])
  /\ UNCHANGED <<order, past, gateway>>

Bug_AfterLinkAlways(c) == "finalizing"
AfterLink(c) == IF news[c] = "processed" THEN "finalizing" ELSE "idle"

Link(c) ==
  /\ pc[c] = "linking"
  /\ session' = MpOrder(at[c])
  /\ Proceed(c, AfterLink(c), news[c])
  /\ UNCHANGED <<orderStatus, paid, refund, rows, past, gateway>>

(* The checkout carries on without the session, the retry doubts all.      *)
LinkFails(c) ==
  /\ pc[c] = "linking"
  /\ IF kind[c] = "retry" THEN Proceed(c, "recording", "unknown")
                          ELSE Proceed(c, AfterLink(c), news[c])
  /\ UNCHANGED <<order, rows, past, gateway>>

-----------------------------------------------------------------------------
(* FinalizeOrderCardPaymentService and, for a cancelled order,             *)
(* ReconcileLateCancelledPaymentService.                                   *)

Finished(c) == Proceed(c, IF kind[c] \in {"poll", "job"} THEN "applying" ELSE "idle", news[c])
Thrown(c) == IF kind[c] = "retry" THEN Proceed(c, "recording", "unknown")
                                  ELSE Proceed(c, "idle", "none")

FinalizePayment(c) ==
  /\ pc[c] = "finalizing"
  /\ IF orderStatus = "CANCELADO" /\ ~paid
     THEN Proceed(c, "late", news[c]) /\ UNCHANGED paid
     ELSE Finished(c) /\ paid' = TRUE
  /\ UNCHANGED <<orderStatus, refund, session, rows, past, gateway>>

LateDone(c) ==
  /\ pc[c] = "late" /\ session = LateRefunded(at[c])
  /\ Finished(c)
  /\ UNCHANGED <<order, rows, past, gateway>>

(* refundStatus PROCESSING under its own mark: only consult.               *)
LateConsult(c) ==
  /\ pc[c] = "late" /\ refund = "PROCESSING" /\ session = LatePending(at[c])
  /\ Proceed(c, "consulting", news[c])
  /\ UNCHANGED <<order, rows, past, gateway>>

LateClaimable(a) == ~Barred /\ session \in {Unlinked, MpOrder(a)}

LateClaim(c) ==
  /\ pc[c] = "late" /\ LateClaimable(at[c])
  /\ session' = LatePending(at[c]) /\ refund' = "PROCESSING"
  /\ pc' = [pc EXCEPT ![c] = "refunding"]
  /\ old' = [old EXCEPT ![c] = session]
  /\ UNCHANGED <<orderStatus, paid, rows, past, gateway, kind, at, news>>

LateRefused(c) ==
  /\ pc[c] = "late" /\ ~LateClaimable(at[c])
  /\ session # LateRefunded(at[c])
  /\ ~(refund = "PROCESSING" /\ session = LatePending(at[c]))
  /\ Thrown(c)
  /\ UNCHANGED <<order, rows, past, gateway>>

RefundMade(c) ==
  /\ pc[c] = "refunding"
  /\ remote' = [remote EXCEPT ![at[c]] = "refunded"]
  /\ Proceed(c, "receipt", news[c])
  /\ UNCHANGED <<order, rows, past, wire>>

(* An error, made or not: the session comes back if the mark is there.     *)
RefundFails(c) ==
  /\ pc[c] = "refunding"
  /\ \E r \in {remote[at[c]], "refunded"} : remote' = [remote EXCEPT ![at[c]] = r]
  /\ IF refund = "PROCESSING" /\ session = LatePending(at[c])
     THEN refund' = "FAILED" /\ session' = old[c]
     ELSE UNCHANGED <<refund, session>>
  /\ Thrown(c)
  /\ UNCHANGED <<orderStatus, paid, rows, past, wire>>

ConsultRefund(c) ==
  /\ pc[c] = "consulting"
  /\ IF remote[at[c]] = "refunded" THEN Proceed(c, "receipt", news[c]) ELSE Thrown(c)
  /\ UNCHANGED <<order, rows, past, gateway>>

Persist(c) ==
  /\ pc[c] = "receipt"
  /\ IF refund = "PROCESSING" /\ session = LatePending(at[c])
     THEN refund' = "SUCCEEDED" /\ session' = LateRefunded(at[c]) /\ Finished(c)
     ELSE /\ UNCHANGED <<refund, session>>
          /\ IF refund = "SUCCEEDED" THEN Finished(c) ELSE Thrown(c)
  /\ UNCHANGED <<orderStatus, paid, rows, past, gateway>>

(* "Consultar estorno" of the panel: it wants the mark.                    *)
Consult(c) ==
  /\ orderStatus = "CANCELADO" /\ ~paid /\ refund = "PROCESSING"
  /\ \E a \in Attempt :
       session = LatePending(a) /\ BeginCall(c, "consult", "late", a, session)
  /\ UNCHANGED <<order, rows, past, gateway>>

-----------------------------------------------------------------------------
(* GetOrderCardPaymentStatusService: the order is read, then its latest    *)
(* attempt, then the gateway.  A job at a cancelled order does nothing a   *)
(* poll does not.                                                          *)

PollOrder(c, k) ==
  /\ ~paid
  /\ \/ orderStatus = "PENDENTE"
     \/ /\ orderStatus = "CANCELADO" /\ session = Unlinked
        /\ \E a \in Attempt : ActiveRow(a)
  /\ k = "job" => past
  /\ BeginCall(c, IF orderStatus = "CANCELADO" THEN "poll" ELSE k, "polling", 0, session)
  /\ UNCHANGED <<order, rows, past, gateway>>

(* Where the job goes on: CANCELED is not its business.                    *)
AfterPoll(c, s) == IF kind[c] = "job" /\ s # "CANCELED" THEN "marking" ELSE "idle"

Bug_WhereReadingAny(s) == IF s = Unlinked THEN "idle" ELSE "reading"
(* The reference of another attempt is not valid for the latest one.       *)
WhereReading(s) == IF s = MpOrder(Latest) THEN "reading" ELSE "idle"

PollAttempt(c) ==
  /\ pc[c] = "polling"
  /\ LET next == IF old[c] # Unlinked THEN WhereReading(old[c])
                 ELSE IF ActiveRow(Latest) THEN "searching"
                 ELSE AfterPoll(c, IF Latest = 0 THEN "none" ELSE row[Latest])
     IN  /\ pc' = [pc EXCEPT ![c] = next]
         /\ at' = [at EXCEPT ![c] = IF next = "idle" THEN 0 ELSE Latest]
         /\ kind' = [kind EXCEPT ![c] = IF next = "idle" THEN "none" ELSE @]
         /\ old' = [old EXCEPT ![c] = IF next = "idle" THEN Unlinked ELSE @]
  /\ UNCHANGED <<order, rows, past, gateway, news>>

(* The search fails, comes too early or is ambiguous; the reading fails.   *)
PollFails(c) ==
  /\ pc[c] \in {"searching", "reading"}
  /\ Proceed(c, "idle", "none")
  /\ UNCHANGED <<order, rows, past, gateway>>

(* A failed or empty search never authorizes a new charge or expiration.   *)
Search(c) ==
  /\ pc[c] = "searching"
  /\ IF remote[at[c]] \in {"none", "refused"}
     THEN Proceed(c, "idle", "none") ELSE Proceed(c, "binding", remote[at[c]])
  /\ UNCHANGED <<order, rows, past, gateway>>

Weigh(c, n) == Proceed(c, IF n = "processed" THEN "finalizing" ELSE "applying", n)

(* bindRecoveredProviderOrder, under the lock of the order.                *)
Bind(c) ==
  /\ pc[c] = "binding"
  /\ IF /\ session \in {Unlinked, MpOrder(at[c])}
        /\ Latest = at[c] /\ ActiveRow(at[c])
     THEN session' = MpOrder(at[c]) /\ Weigh(c, news[c])
     ELSE UNCHANGED session /\ Proceed(c, "idle", "none")
  /\ UNCHANGED <<orderStatus, paid, refund, rows, past, gateway>>

Read(c) ==
  /\ pc[c] = "reading"
  /\ Weigh(c, remote[old[c][2]])
  /\ UNCHANGED <<order, rows, past, gateway>>

Reconciled(n) ==
  CASE n = "processed" -> "APPROVED"
    [] n = "failed" -> "DECLINED"
    [] n = "cancelled" -> "CANCELED"
    [] n = "expired" -> "EXPIRED"
    [] n = "refunded" -> "REFUNDED"
    [] OTHER -> "PROCESSING"

Apply(c) ==
  /\ pc[c] = "applying"
  /\ row' = [row EXCEPT ![at[c]] = Reconciled(news[c])]
  /\ Proceed(c, IF news[c] = "processed" THEN "idle" ELSE AfterPoll(c, row'[at[c]]), news[c])
  /\ UNCHANGED <<order, unsafe, past, gateway>>

-----------------------------------------------------------------------------
(* The expiration job, after its poll, and FailPendingOrderPaymentService. *)

Mark(c) ==
  /\ pc[c] = "marking"
  /\ LET expires == Latest # 0 /\ row[Latest] \in {"PENDING", "PROCESSING"}
     IN  pc' = [pc EXCEPT ![c] = IF expires THEN "expiring" ELSE "failing"]
  /\ at' = [at EXCEPT ![c] = Latest]
  /\ UNCHANGED <<order, rows, past, gateway, kind, news, old>>

ExpireAttempt(c) ==
  /\ pc[c] = "expiring"
  /\ row' = [row EXCEPT ![at[c]] = "EXPIRED"]
  /\ Proceed(c, "failing", "none")
  /\ UNCHANGED <<order, unsafe, past, gateway>>

FailOrder(c) ==
  /\ pc[c] = "failing"
  /\ orderStatus' = IF ~paid /\ ~Barred THEN "CANCELADO" ELSE orderStatus
  /\ Proceed(c, "idle", "none")
  /\ UNCHANGED <<paid, refund, session, rows, past, gateway>>

-----------------------------------------------------------------------------
(* The webhook of an order of the gateway, found by the session.           *)

HookFind(c) ==
  /\ \E a \in Attempt :
       /\ session = MpOrder(a) /\ remote[a] # "open"
       /\ BeginCall(c, "webhook", "notified", a, session)
  /\ UNCHANGED <<order, rows, past, gateway>>

HookGet(c) ==
  /\ pc[c] = "notified"
  /\ LET n == remote[at[c]]
     IN  IF n = "processed"
         THEN Proceed(c, "hooking", n) /\ UNCHANGED row
         ELSE /\ Proceed(c, "idle", n)
              /\ row' = IF Latest = at[c]
                        THEN [row EXCEPT ![at[c]] = Reconciled(n)] ELSE row
  /\ UNCHANGED <<order, unsafe, past, gateway>>

(* setCardCheckoutSessionId, whatever the session became.                  *)
HookLink(c) ==
  /\ pc[c] = "hooking"
  /\ session' = MpOrder(at[c])
  /\ Proceed(c, "finalizing", news[c])
  /\ UNCHANGED <<orderStatus, paid, refund, rows, past, gateway>>

-----------------------------------------------------------------------------
(* The gateway, time, the customer and the machine.                        *)

Take(a) ==
  /\ a \in wire /\ wire' = wire \ {a}
  /\ \E r \in {"open", "processed", "failed", "refused"} : remote' = [remote EXCEPT ![a] = r]
  /\ UNCHANGED <<order, rows, past, calls>>

Drop(a) ==
  /\ a \in wire /\ wire' = wire \ {a}
  /\ UNCHANGED <<order, rows, past, remote, calls>>

(* The customer answers the challenge, or does not.                        *)
Conclude(a) ==
  /\ remote[a] = "open"
  /\ \E r \in {"processed", "failed", "expired"} \cup (IF Cancels THEN {"cancelled"} ELSE {}) :
       remote' = [remote EXCEPT ![a] = r]
  /\ UNCHANGED <<order, rows, past, wire, calls>>

(* The customer or the restaurant cancels the unpaid order.                *)
CancelUnpaid ==
  /\ orderStatus = "PENDENTE" /\ ~paid /\ ~Barred
  /\ orderStatus' = "CANCELADO"
  /\ UNCHANGED <<paid, refund, session, rows, past, gateway, calls>>

Lapse ==
  /\ ~past /\ past' = TRUE
  /\ UNCHANGED <<order, rows, gateway, calls>>

Die(c) ==
  /\ Dies /\ pc[c] # "idle"
  /\ Proceed(c, "idle", "none")
  /\ UNCHANGED <<order, rows, past, gateway>>

Step(c) ==
  \/ Send(c) \/ Answered(c) \/ Unanswered(c) \/ RecordOutcome(c) \/ Link(c) \/ LinkFails(c)
  \/ FinalizePayment(c) \/ LateDone(c) \/ LateConsult(c) \/ LateClaim(c) \/ LateRefused(c)
  \/ RefundMade(c) \/ RefundFails(c) \/ ConsultRefund(c) \/ Persist(c)
  \/ PollAttempt(c) \/ PollFails(c) \/ Search(c) \/ Bind(c) \/ Read(c) \/ Apply(c)
  \/ Mark(c) \/ ExpireAttempt(c) \/ FailOrder(c)
  \/ HookGet(c) \/ HookLink(c)

CardNext ==
  \/ \E c \in Call : Checkout(c) \/ Retry(c) \/ PollOrder(c, "poll") \/ PollOrder(c, "job")
                       \/ HookFind(c) \/ Consult(c) \/ Step(c) \/ Die(c)
  \/ \E a \in Attempt : Take(a) \/ Drop(a) \/ Conclude(a)
  \/ CancelUnpaid \/ Lapse

CardSpec == CardInit /\ [][CardNext]_cardVars

(* Time passes, a call that runs ends, a request arrives or is lost, the    *)
(* job runs every                                                          *)
(* minute and Mercado Pago repeats a webhook until it is accepted; a       *)
(* reading, a search or a refund that keeps being tried once succeeds.     *)
CardFairness ==
  /\ \A c \in Call :
       /\ WF_cardVars(Step(c))
       /\ SF_cardVars(PollOrder(c, "job")) /\ SF_cardVars(HookFind(c)) /\ SF_cardVars(Consult(c))
       /\ SF_cardVars(Search(c)) /\ SF_cardVars(RefundMade(c))
       /\ SF_cardVars(kind[c] = "job" /\ Read(c))
  /\ \A a \in Attempt : WF_cardVars(Take(a) \/ Drop(a))
  /\ WF_cardVars(Lapse)
FairCardSpec == CardSpec /\ CardFairness
-----------------------------------------------------------------------------
(* Properties.                                                             *)

TakenOrLive ==
  {a \in Attempt : \/ a \in wire \/ remote[a] \in {"open", "processed", "refunded"}
                   \/ \E c \in Call : pc[c] = "charging" /\ at[c] = a}

(* At most one charge of an order has taken the customer's money or still  *)
(* can: the durable attempt blocks new charges (claimCardRetry).  It does  *)
(* not when the gateway asked for a challenge without a safe address.      *)
OneChargeAtRisk == Cardinality(TakenOrLive) <= 1

(* Retries, lost answers, polls that read an older charge and the          *)
(* expiration job open no second charge beside one that has taken the      *)
(* customer's money or still can, unless the earlier one was given up, and *)
(* its row failed, for want of a safe challenge address.                   *)
OneChargeOrUnsafe == \A a, b \in TakenOrLive : a < b => a \in unsafe

(* A row that lets the customer try again speaks of a charge that is dead  *)
(* at the gateway, although rows are written by four routes that read the  *)
(* gateway at different times, one of them through a session that may name *)
(* the previous attempt.  The only other such row is the FAILED one of a   *)
(* challenge without a safe address.                                       *)
DeclinedIsDead ==
  \A a \in Attempt : row[a] \in {"DECLINED", "FAILED", "CANCELED"} =>
    \/ a \notin wire /\ remote[a] \notin {"open", "processed"}
    \/ row[a] = "FAILED" /\ a \in unsafe

(* A paid order has its money at the gateway: nobody confirms an order on  *)
(* the word of a charge that is open, and no late refund returns the money *)
(* of an order that a confirmation won.                                    *)
PaidIsHeld == paid => \E a \in Attempt : remote[a] = "processed"

(* A late refund in progress can be consulted: the order carries the mark  *)
(* that the panel and the reconciliation look for.                         *)
MarkIsKept ==
  refund = "PROCESSING" => \E a \in Attempt : session = LatePending(a)

(* What was known of a charge is not unlearned: a final row stays final.   *)
FinalStaysFinal ==
  [][\A a \in Attempt :
       row[a] \in {"DECLINED", "FAILED", "CANCELED", "EXPIRED", "REFUNDED"} =>
         row'[a] \notin {"PENDING", "PROCESSING"}]_cardVars

Unknown == \E a \in Attempt : ActiveRow(a) /\ remote[a] \in {"none", "refused"}

(* When the payment window is over the order ends paid or cancelled, and   *)
(* gives back its stock and reward, unless a charge stays unknown for ever:*)
(* the expiration job concludes every other order.                         *)
OrderConcludes ==
  <>[]~Unknown => (past ~> (paid \/ orderStatus = "CANCELADO"))

(* Money that was taken ends as a paid order or goes back to the customer, *)
(* whether the answer was lost, the window lapsed or the order was         *)
(* cancelled before the charge was known.                                  *)
MoneyIsSettled ==
  \A a \in Attempt : remote[a] = "processed" ~> (paid \/ remote[a] = "refunded")

=============================================================================
