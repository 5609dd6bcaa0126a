----------------------- MODULE PaymentGatewayProofs -----------------------
(***************************************************************************)
(* What holds of the payments at a gateway: first of an online payment of  *)
(* a table, then of the card charges of an order.                          *)
(*                                                                         *)
(* The payment and its charge, for any number of concurrent handlers and   *)
(* any number of crashes.                                                  *)
(*                                                                         *)
(* The argument: a charge only moves forward (ChargeLaw), so whatever a    *)
(* handler saw stays true however late it is used (Truth); the first claim *)
(* of an operation is taken once, so at most one handler is ever about to  *)
(* send a refund (RefundInHand).                                           *)
(***************************************************************************)
EXTENDS TablePaymentGateway, OrderCardCharge, FiniteSetTheorems, TLAPS

USE GatewayAssumption DEF GatewayAssumption
USE DEF Pending, Dead, IntentStatus, ChargeStatus, Source, Op, Stage

ChargeLaw ==
  \/ charge' = charge
  \/ charge = "none" /\ charge' = "PENDING"
  \/ charge = "PENDING" /\ charge' \in {"PAID"} \cup Dead
  \/ charge = "PAID" /\ charge' = "REFUNDED"

ClaimLaw == \A o \in Op : claim[o] # "none" => claim'[o] # "none"

Truth(s) ==
  /\ s = "PAID" => charge \in {"PAID", "REFUNDED"}
  /\ s = "REFUNDED" => charge = "REFUNDED"
  /\ s \in Dead => charge = s

(* What is true of a handler wherever it is.                               *)
Good(h) ==
  /\ Truth(w[h].saw)
  /\ w[h].at \in {"claim", "act", "query", "record"} =>
       w[h].op \in Op /\ (w[h].src = "refund" => w[h].op = "refund")
  /\ w[h].at \in {"act", "query", "record"} => claim[w[h].op] # "none"
  /\ w[h].at = "finalize" => charge = "REFUNDED"

Acting(h) == w[h].at = "act" /\ w[h].op = "refund"

RefundInHand ==
  /\ sent \in {0, 1}
  /\ sent = 1 => claim["refund"] # "none"
  /\ \A h \in Worker : Acting(h) => sent = 0
  /\ \A h, g \in Worker : Acting(h) /\ Acting(g) => h = g

IInv ==
  /\ TypeOK
  /\ BooksAreBacked
  /\ ClaimsAreTrue
  /\ \A h \in Worker : Good(h)
  /\ RefundInHand

-----------------------------------------------------------------------------
(* A handler that ends is idle.                                            *)
LEMMA FinishMoves ==
  ASSUME TypeOK, NEW h \in Worker, Finish(h)
  PROVE  /\ w' \in [Worker -> [at : Stage, src : Source, op : Op \cup {"none"},
                               saw : ChargeStatus \cup {"error"}, note : ChargeStatus]]
         /\ w'[h] = Idle
         /\ \A g \in Worker \ {h} : w'[g] = w[g]
BY DEF TypeOK, Finish, Idle

(* What was seen of a charge stays true of it.                             *)
LEMMA TruthIsStable ==
  ASSUME TypeOK, ChargeLaw, NEW s, Truth(s)
  PROVE  Truth(s)'
BY DEF TypeOK, ChargeLaw, Truth

(* A handler that does not move is not disturbed by the others.            *)
LEMMA GoodIsStable ==
  ASSUME TypeOK, ChargeLaw, ClaimLaw, NEW g \in Worker, Good(g), w'[g] = w[g]
  PROVE  Good(g)'
<1>1. Truth(w[g].saw)'
  BY TruthIsStable DEF Good, Truth, TypeOK, ChargeLaw
<1>2. charge = "REFUNDED" => charge' = "REFUNDED"
  BY DEF ChargeLaw
<1> QED BY <1>1, <1>2 DEF Good, ClaimLaw, Truth

(* Books and claims that are not written stay true while the charge moves. *)
LEMMA StandsStill ==
  ASSUME TypeOK, BooksAreBacked, ClaimsAreTrue, ChargeLaw
  PROVE  /\ status' = status => BooksAreBacked'
         /\ claim' = claim => ClaimsAreTrue'
BY DEF TypeOK, BooksAreBacked, ClaimsAreTrue, ChargeLaw

(* A step of a handler that neither sends a refund nor gets ready to.      *)
LEMMA NoRefundInHand ==
  ASSUME RefundInHand, ClaimLaw, NEW h \in Worker, ~ Acting(h)', sent' = sent,
         \A g \in Worker \ {h} : w'[g] = w[g]
  PROVE  RefundInHand'
<1>1. \A g \in Worker : Acting(g)' => Acting(g)
  BY DEF Acting
<1>2. (sent \in {0, 1})' /\ (sent = 1 => claim["refund"] # "none")'
  BY DEF RefundInHand, ClaimLaw
<1>3. (\A g \in Worker : Acting(g) => sent = 0)'
  BY <1>1 DEF RefundInHand
<1>4. (\A f, g \in Worker : Acting(f) /\ Acting(g) => f = g)'
  BY <1>1 DEF RefundInHand
<1> QED BY <1>2, <1>3, <1>4 DEF RefundInHand

(* A step of the world outside: no handler moves, no refund is sent.       *)
LEMMA OutsideStep ==
  ASSUME IInv, ChargeLaw, UNCHANGED <<w, claim, sent>>, TypeOK', BooksAreBacked'
  PROVE  IInv'
<1>1. ClaimLaw
  BY DEF ClaimLaw
<1>2. \A g \in Worker : Good(g)'
  <2> TAKE g \in Worker
  <2> QED BY <1>1, GoodIsStable DEF IInv
<1>3. RefundInHand'
  BY DEF IInv, RefundInHand, Acting
<1>4. ClaimsAreTrue'
  BY StandsStill DEF IInv
<1> QED BY <1>2, <1>3, <1>4 DEF IInv

(* A step of a handler, put together from what it does.                    *)
LEMMA HandlerStep ==
  ASSUME IInv, ChargeLaw, ClaimLaw, NEW h \in Worker,
         \A g \in Worker \ {h} : w'[g] = w[g],
         TypeOK', BooksAreBacked', ClaimsAreTrue', Good(h)', RefundInHand'
  PROVE  IInv'
<1>1. \A g \in Worker : Good(g)'
  <2> TAKE g \in Worker
  <2>1. CASE g = h
    BY <2>1
  <2>2. CASE g # h
    BY <2>2, GoodIsStable DEF IInv
  <2> QED BY <2>1, <2>2
<1> QED BY <1>1 DEF IInv

-----------------------------------------------------------------------------
(* A reservation is made or replayed.                                      *)
LEMMA AskStep ==
  ASSUME IInv, NEW h \in Worker, Ask(h)
  PROVE  IInv'
<1>t. TypeOK
  BY DEF IInv
<1>w. w[h].src \in Source /\ w[h].saw \in ChargeStatus \cup {"error"} /\ w[h].note \in ChargeStatus
  BY <1>t DEF TypeOK
<1>m. /\ \A g \in Worker \ {h} : w'[g] = w[g]
      /\ w'[h] = [at |-> "asked", src |-> "create", op |-> "none", saw |-> "none", note |-> "none"]
      /\ w' \in [Worker -> [at : Stage, src : Source, op : Op \cup {"none"},
                          saw : ChargeStatus \cup {"error"}, note : ChargeStatus]]
  BY <1>t, <1>w DEF TypeOK, Begin, Ask
<1>1. TypeOK'
  BY <1>t, <1>m DEF TypeOK, Ask, Books, Gateway
<1>2. ChargeLaw /\ ClaimLaw
  BY DEF IInv, TypeOK, Ask, Books, Gateway, ChargeLaw, ClaimLaw
<1>3. BooksAreBacked'
  BY DEF Ask, BooksAreBacked
<1>4. ClaimsAreTrue'
  BY StandsStill, <1>2 DEF IInv, Ask, Books
<1>5. Good(h)' /\ ~ Acting(h)'
  BY <1>m, <1>1, <1>2 DEF IInv, Good, Truth, Acting, Ask
<1>6. RefundInHand'
  BY <1>m, <1>1, <1>2, <1>5, NoRefundInHand DEF IInv, Ask, Books, Gateway
<1> QED BY <1>m, <1>1, <1>2, <1>3, <1>4, <1>5, <1>6, HandlerStep

(* The charge is created, or found as it is.                               *)
LEMMA CreateStep ==
  ASSUME IInv, NEW h \in Worker, Create(h)
  PROVE  IInv'
<1>t. TypeOK
  BY DEF IInv
<1>w. w[h].src \in Source /\ w[h].saw \in ChargeStatus \cup {"error"} /\ w[h].note \in ChargeStatus
  BY <1>t DEF TypeOK
<1>m. /\ \A g \in Worker \ {h} : w'[g] = w[g]
      /\ w'[h] = [at |-> "created", src |-> w[h].src, op |-> "none", saw |-> charge', note |-> w[h].note]
      /\ w' \in [Worker -> [at : Stage, src : Source, op : Op \cup {"none"},
                          saw : ChargeStatus \cup {"error"}, note : ChargeStatus]]
  BY <1>t, <1>w DEF TypeOK, Begin, Goto, Create
<1>1. TypeOK'
  BY <1>t, <1>m DEF TypeOK, Create, Books, Gateway
<1>2. ChargeLaw /\ ClaimLaw
  BY DEF IInv, TypeOK, Create, Books, Gateway, ChargeLaw, ClaimLaw
<1>3. BooksAreBacked'
  BY StandsStill, <1>2 DEF IInv, Create, Books
<1>4. ClaimsAreTrue'
  BY StandsStill, <1>2 DEF IInv, Create, Books
<1>5. Good(h)' /\ ~ Acting(h)'
  BY <1>m, <1>1, <1>2 DEF IInv, Good, Truth, Acting, Create
<1>6. RefundInHand'
  BY <1>m, <1>1, <1>2, <1>5, NoRefundInHand DEF IInv, Create, Books, Gateway
<1> QED BY <1>m, <1>1, <1>2, <1>3, <1>4, <1>5, <1>6, HandlerStep

(* The gateway refuses.                                                    *)
LEMMA RefuseStep ==
  ASSUME IInv, NEW h \in Worker, Refuse(h)
  PROVE  IInv'
<1>t. TypeOK
  BY DEF IInv
<1>w. w[h].src \in Source /\ w[h].saw \in ChargeStatus \cup {"error"} /\ w[h].note \in ChargeStatus
  BY <1>t DEF TypeOK
<1>m. /\ \A g \in Worker \ {h} : w'[g] = w[g]
      /\ w'[h] = [at |-> "refused", src |-> w[h].src, op |-> "none", saw |-> "none", note |-> w[h].note]
      /\ w' \in [Worker -> [at : Stage, src : Source, op : Op \cup {"none"},
                          saw : ChargeStatus \cup {"error"}, note : ChargeStatus]]
  BY <1>t, <1>w DEF TypeOK, Begin, Goto, Refuse
<1>1. TypeOK'
  BY <1>t, <1>m DEF TypeOK, Refuse, Books, Gateway
<1>2. ChargeLaw /\ ClaimLaw
  BY DEF IInv, TypeOK, Refuse, Books, Gateway, ChargeLaw, ClaimLaw
<1>3. BooksAreBacked'
  BY StandsStill, <1>2 DEF IInv, Refuse, Books
<1>4. ClaimsAreTrue'
  BY StandsStill, <1>2 DEF IInv, Refuse, Books
<1>5. Good(h)' /\ ~ Acting(h)'
  BY <1>m, <1>1, <1>2 DEF IInv, Good, Truth, Acting, Refuse
<1>6. RefundInHand'
  BY <1>m, <1>1, <1>2, <1>5, NoRefundInHand DEF IInv, Refuse, Books, Gateway
<1> QED BY <1>m, <1>1, <1>2, <1>3, <1>4, <1>5, <1>6, HandlerStep

(* The answer is unclear.                                                  *)
LEMMA UnclearStep ==
  ASSUME IInv, NEW h \in Worker, Unclear(h)
  PROVE  IInv'
<1>t. TypeOK
  BY DEF IInv
<1>w. w[h].src \in Source /\ w[h].saw \in ChargeStatus \cup {"error"} /\ w[h].note \in ChargeStatus
  BY <1>t DEF TypeOK
<1>m. /\ \A g \in Worker \ {h} : w'[g] = w[g]
      /\ w'[h] = Idle
      /\ w' \in [Worker -> [at : Stage, src : Source, op : Op \cup {"none"},
                          saw : ChargeStatus \cup {"error"}, note : ChargeStatus]]
  BY <1>t, <1>w, FinishMoves DEF Unclear
<1>1. TypeOK'
  BY <1>t, <1>m DEF TypeOK, Unclear, Books, Gateway
<1>2. ChargeLaw /\ ClaimLaw
  BY DEF IInv, TypeOK, Unclear, Books, Gateway, ChargeLaw, ClaimLaw
<1>3. BooksAreBacked'
  BY StandsStill, <1>2 DEF IInv, Unclear, Books
<1>4. ClaimsAreTrue'
  BY StandsStill, <1>2 DEF IInv, Unclear, Books
<1>5. Good(h)' /\ ~ Acting(h)'
  BY <1>m, <1>1, <1>2 DEF IInv, Good, Truth, Acting, Unclear, Idle
<1>6. RefundInHand'
  BY <1>m, <1>1, <1>2, <1>5, NoRefundInHand DEF IInv, Unclear, Books, Gateway
<1> QED BY <1>m, <1>1, <1>2, <1>3, <1>4, <1>5, <1>6, HandlerStep

(* The reservation is freed.                                               *)
LEMMA StoreRefusalStep ==
  ASSUME IInv, NEW h \in Worker, StoreRefusal(h)
  PROVE  IInv'
<1>t. TypeOK
  BY DEF IInv
<1>w. w[h].src \in Source /\ w[h].saw \in ChargeStatus \cup {"error"} /\ w[h].note \in ChargeStatus
  BY <1>t DEF TypeOK
<1>m. /\ \A g \in Worker \ {h} : w'[g] = w[g]
      /\ w'[h] = Idle
      /\ w' \in [Worker -> [at : Stage, src : Source, op : Op \cup {"none"},
                          saw : ChargeStatus \cup {"error"}, note : ChargeStatus]]
  BY <1>t, <1>w, FinishMoves DEF StoreRefusal
<1>1. TypeOK'
  BY <1>t, <1>m DEF TypeOK, StoreRefusal, Books, Gateway
<1>2. ChargeLaw /\ ClaimLaw
  BY DEF IInv, TypeOK, StoreRefusal, Books, Gateway, ChargeLaw, ClaimLaw
<1>3. BooksAreBacked'
  BY DEF IInv, BooksAreBacked, StoreRefusal, Gateway
<1>4. ClaimsAreTrue'
  BY StandsStill, <1>2 DEF IInv, StoreRefusal, Books
<1>5. Good(h)' /\ ~ Acting(h)'
  BY <1>m, <1>1, <1>2 DEF IInv, Good, Truth, Acting, StoreRefusal, Idle
<1>6. RefundInHand'
  BY <1>m, <1>1, <1>2, <1>5, NoRefundInHand DEF IInv, StoreRefusal, Books, Gateway
<1> QED BY <1>m, <1>1, <1>2, <1>3, <1>4, <1>5, <1>6, HandlerStep

(* The participant has the charge read.                                    *)
LEMMA ReconcileStep ==
  ASSUME IInv, NEW h \in Worker, Reconcile(h)
  PROVE  IInv'
<1>t. TypeOK
  BY DEF IInv
<1>w. w[h].src \in Source /\ w[h].saw \in ChargeStatus \cup {"error"} /\ w[h].note \in ChargeStatus
  BY <1>t DEF TypeOK
<1>m. /\ \A g \in Worker \ {h} : w'[g] = w[g]
      /\ w'[h] = [at |-> "process", src |-> "reconcile", op |-> "none", saw |-> charge, note |-> "none"]
      /\ w' \in [Worker -> [at : Stage, src : Source, op : Op \cup {"none"},
                          saw : ChargeStatus \cup {"error"}, note : ChargeStatus]]
  BY <1>t, <1>w DEF TypeOK, Begin, Reconcile
<1>1. TypeOK'
  BY <1>t, <1>m DEF TypeOK, Reconcile, Books, Gateway
<1>2. ChargeLaw /\ ClaimLaw
  BY DEF IInv, TypeOK, Reconcile, Books, Gateway, ChargeLaw, ClaimLaw
<1>3. BooksAreBacked'
  BY StandsStill, <1>2 DEF IInv, Reconcile, Books
<1>4. ClaimsAreTrue'
  BY StandsStill, <1>2 DEF IInv, Reconcile, Books
<1>5. Good(h)' /\ ~ Acting(h)'
  BY <1>m, <1>1, <1>2 DEF IInv, Good, Truth, Acting, Reconcile, TypeOK, Gateway, Books
<1>6. RefundInHand'
  BY <1>m, <1>1, <1>2, <1>5, NoRefundInHand DEF IInv, Reconcile, Books, Gateway
<1> QED BY <1>m, <1>1, <1>2, <1>3, <1>4, <1>5, <1>6, HandlerStep

(* The intent is canceled here.                                            *)
LEMMA CancelStep ==
  ASSUME IInv, NEW h \in Worker, Cancel(h)
  PROVE  IInv'
<1>t. TypeOK
  BY DEF IInv
<1>w. w[h].src \in Source /\ w[h].saw \in ChargeStatus \cup {"error"} /\ w[h].note \in ChargeStatus
  BY <1>t DEF TypeOK
<1>m. /\ \A g \in Worker \ {h} : w'[g] = w[g]
      /\ w'[h] = [at |-> "claim", src |-> "cancel", op |-> "cancel", saw |-> "none", note |-> "none"]
      /\ w' \in [Worker -> [at : Stage, src : Source, op : Op \cup {"none"},
                          saw : ChargeStatus \cup {"error"}, note : ChargeStatus]]
  BY <1>t, <1>w DEF TypeOK, Begin, Cancel
<1>1. TypeOK'
  BY <1>t, <1>m DEF TypeOK, Cancel, Books, Gateway
<1>2. ChargeLaw /\ ClaimLaw
  BY DEF IInv, TypeOK, Cancel, Books, Gateway, ChargeLaw, ClaimLaw
<1>3. BooksAreBacked'
  BY DEF IInv, BooksAreBacked, Cancel, Gateway
<1>4. ClaimsAreTrue'
  BY StandsStill, <1>2 DEF IInv, Cancel, Books
<1>5. Good(h)' /\ ~ Acting(h)'
  BY <1>m, <1>1, <1>2 DEF IInv, Good, Truth, Acting, Cancel
<1>6. RefundInHand'
  BY <1>m, <1>1, <1>2, <1>5, NoRefundInHand DEF IInv, Cancel, Books, Gateway
<1> QED BY <1>m, <1>1, <1>2, <1>3, <1>4, <1>5, <1>6, HandlerStep

(* The administrator asks for a refund.                                    *)
LEMMA RefundStep ==
  ASSUME IInv, NEW h \in Worker, Refund(h)
  PROVE  IInv'
<1>t. TypeOK
  BY DEF IInv
<1>w. w[h].src \in Source /\ w[h].saw \in ChargeStatus \cup {"error"} /\ w[h].note \in ChargeStatus
  BY <1>t DEF TypeOK
<1>m. /\ \A g \in Worker \ {h} : w'[g] = w[g]
      /\ w'[h] = [at |-> "claim", src |-> "refund", op |-> "refund", saw |-> "none", note |-> "none"]
      /\ w' \in [Worker -> [at : Stage, src : Source, op : Op \cup {"none"},
                          saw : ChargeStatus \cup {"error"}, note : ChargeStatus]]
  BY <1>t, <1>w DEF TypeOK, Begin, Refund
<1>1. TypeOK'
  BY <1>t, <1>m DEF TypeOK, Refund, Books, Gateway
<1>2. ChargeLaw /\ ClaimLaw
  BY DEF IInv, TypeOK, Refund, Books, Gateway, ChargeLaw, ClaimLaw
<1>3. BooksAreBacked'
  BY StandsStill, <1>2 DEF IInv, Refund, Books
<1>4. ClaimsAreTrue'
  BY StandsStill, <1>2 DEF IInv, Refund, Books
<1>5. Good(h)' /\ ~ Acting(h)'
  BY <1>m, <1>1, <1>2 DEF IInv, Good, Truth, Acting, Refund
<1>6. RefundInHand'
  BY <1>m, <1>1, <1>2, <1>5, NoRefundInHand DEF IInv, Refund, Books, Gateway
<1> QED BY <1>m, <1>1, <1>2, <1>3, <1>4, <1>5, <1>6, HandlerStep

(* A confirmed refund reaches the books.                                   *)
LEMMA FinalizeStep ==
  ASSUME IInv, NEW h \in Worker, Finalize(h)
  PROVE  IInv'
<1>t. TypeOK
  BY DEF IInv
<1>w. w[h].src \in Source /\ w[h].saw \in ChargeStatus \cup {"error"} /\ w[h].note \in ChargeStatus
  BY <1>t DEF TypeOK
<1>m. /\ \A g \in Worker \ {h} : w'[g] = w[g]
      /\ w'[h] = Idle
      /\ w' \in [Worker -> [at : Stage, src : Source, op : Op \cup {"none"},
                          saw : ChargeStatus \cup {"error"}, note : ChargeStatus]]
  BY <1>t, <1>w, FinishMoves DEF Finalize
<1>1. TypeOK'
  BY <1>t, <1>m DEF TypeOK, Finalize, Books, Gateway
<1>2. ChargeLaw /\ ClaimLaw
  BY DEF IInv, TypeOK, Finalize, Books, Gateway, ChargeLaw, ClaimLaw
<1>3. BooksAreBacked'
  BY <1>t DEF IInv, Good, At, TypeOK, BooksAreBacked, Finalize, Gateway
<1>4. ClaimsAreTrue'
  BY StandsStill, <1>2 DEF IInv, Finalize, Books
<1>5. Good(h)' /\ ~ Acting(h)'
  BY <1>m, <1>1, <1>2 DEF IInv, Good, Truth, Acting, Finalize, Idle
<1>6. RefundInHand'
  BY <1>m, <1>1, <1>2, <1>5, NoRefundInHand DEF IInv, Finalize, Books, Gateway
<1> QED BY <1>m, <1>1, <1>2, <1>3, <1>4, <1>5, <1>6, HandlerStep

(* A handler dies.                                                         *)
LEMMA CrashStep ==
  ASSUME IInv, NEW h \in Worker, Crash(h)
  PROVE  IInv'
<1>t. TypeOK
  BY DEF IInv
<1>w. w[h].src \in Source /\ w[h].saw \in ChargeStatus \cup {"error"} /\ w[h].note \in ChargeStatus
  BY <1>t DEF TypeOK
<1>m. /\ \A g \in Worker \ {h} : w'[g] = w[g]
      /\ w'[h] = Idle
      /\ w' \in [Worker -> [at : Stage, src : Source, op : Op \cup {"none"},
                          saw : ChargeStatus \cup {"error"}, note : ChargeStatus]]
  BY <1>t, <1>w, FinishMoves DEF Crash
<1>1. TypeOK'
  BY <1>t, <1>m DEF TypeOK, Crash, Books, Gateway
<1>2. ChargeLaw /\ ClaimLaw
  BY DEF IInv, TypeOK, Crash, Books, Gateway, ChargeLaw, ClaimLaw
<1>3. BooksAreBacked'
  BY StandsStill, <1>2 DEF IInv, Crash, Books
<1>4. ClaimsAreTrue'
  BY StandsStill, <1>2 DEF IInv, Crash, Books
<1>5. Good(h)' /\ ~ Acting(h)'
  BY <1>m, <1>1, <1>2 DEF IInv, Good, Truth, Acting, Crash, Idle
<1>6. RefundInHand'
  BY <1>m, <1>1, <1>2, <1>5, NoRefundInHand DEF IInv, Crash, Books, Gateway
<1> QED BY <1>m, <1>1, <1>2, <1>3, <1>4, <1>5, <1>6, HandlerStep

(* The answer of the gateway is stored, and processed if it says more.     *)
LEMMA StoreAnswerStep ==
  ASSUME IInv, NEW h \in Worker, StoreAnswer(h)
  PROVE  IInv'
<1>t. TypeOK
  BY DEF IInv
<1>w. w[h].src \in Source /\ w[h].saw \in ChargeStatus \cup {"error"} /\ w[h].note \in ChargeStatus
  BY <1>t DEF TypeOK
<1>m. /\ \A g \in Worker \ {h} : w'[g] = w[g]
      /\ w'[h] = IF w[h].saw = "PENDING" THEN Idle
                 ELSE [at |-> "process", src |-> w[h].src, op |-> "none",
                       saw |-> w[h].saw, note |-> w[h].note]
      /\ w' \in [Worker -> [at : Stage, src : Source, op : Op \cup {"none"},
                          saw : ChargeStatus \cup {"error"}, note : ChargeStatus]]
  <2>1. CASE w[h].saw = "PENDING"
    BY <1>t, <2>1, FinishMoves DEF StoreAnswer
  <2>2. CASE w[h].saw # "PENDING"
    BY <1>t, <1>w, <2>2 DEF TypeOK, Begin, Goto, StoreAnswer
  <2> QED BY <2>1, <2>2
<1>1. TypeOK'
  BY <1>t, <1>m DEF TypeOK, StoreAnswer, Gateway
<1>2. ChargeLaw /\ ClaimLaw
  BY DEF StoreAnswer, Gateway, ChargeLaw, ClaimLaw
<1>3. BooksAreBacked'
  BY <1>t DEF IInv, TypeOK, BooksAreBacked, StoreAnswer, Gateway
<1>4. ClaimsAreTrue'
  BY <1>2, StandsStill DEF IInv, StoreAnswer
<1>5. Good(h)' /\ ~ Acting(h)'
  BY <1>m, <1>2 DEF IInv, Good, Truth, Acting, Idle, StoreAnswer, Gateway
<1>6. RefundInHand'
  BY <1>m, <1>2, <1>5, NoRefundInHand DEF IInv, StoreAnswer, Gateway
<1> QED BY <1>m, <1>1, <1>2, <1>3, <1>4, <1>5, <1>6, HandlerStep

(* A webhook about a known charge has it read; any other is forgotten.     *)
LEMMA WebhookStep ==
  ASSUME IInv, NEW h \in Worker, Webhook(h)
  PROVE  IInv'
<1>t. TypeOK
  BY DEF IInv
<1>w. w[h].src \in Source /\ w[h].saw \in ChargeStatus \cup {"error"} /\ w[h].note \in ChargeStatus
  BY <1>t DEF TypeOK
<1>2. ChargeLaw /\ ClaimLaw
  BY DEF Webhook, Books, ChargeLaw, ClaimLaw
<1>3. BooksAreBacked' /\ ClaimsAreTrue'
  BY <1>2, StandsStill DEF IInv, Webhook, Books
<1>4. CASE ext
  <2> PICK n \in notify : Begin(h, "process", "webhook", "none", charge, n) /\ UNCHANGED notify
    BY <1>4 DEF Webhook
  <2>m. /\ \A g \in Worker \ {h} : w'[g] = w[g]
        /\ w'[h] = [at |-> "process", src |-> "webhook", op |-> "none",
                    saw |-> charge, note |-> n]
        /\ w' \in [Worker -> [at : Stage, src : Source, op : Op \cup {"none"},
                            saw : ChargeStatus \cup {"error"}, note : ChargeStatus]]
    BY <1>t DEF TypeOK, Begin
  <2>1. TypeOK'
    BY <1>t, <2>m DEF TypeOK, Webhook, Books
  <2>2. Good(h)' /\ ~ Acting(h)'
    BY <2>m, <1>2 DEF Good, Truth, Acting, Webhook, Books
  <2>3. RefundInHand'
    BY <2>m, <1>2, <2>2, NoRefundInHand DEF IInv, Webhook
  <2> QED BY <2>m, <1>2, <1>3, <2>1, <2>2, <2>3, HandlerStep
<1>5. CASE ~ ext
  <2>1. UNCHANGED <<w, Books, charge, sent, crashes>> /\ notify' \subseteq notify
    BY <1>5 DEF Webhook, Books
  <2>2. TypeOK'
    BY <1>t, <2>1 DEF TypeOK, Books
  <2> QED BY <1>2, <1>3, <2>1, <2>2, OutsideStep DEF Books
<1> QED BY <1>4, <1>5

(* What a handler saw is processed: it settles or voids the intent, which  *)
(* is backed because what was seen is still true, or a refund follows.     *)
LEMMA ProcessStep ==
  ASSUME IInv, NEW h \in Worker, Process(h)
  PROVE  IInv'
<1>t. TypeOK
  BY DEF IInv
<1>w. w[h].src \in Source /\ w[h].saw \in ChargeStatus \cup {"error"} /\ w[h].note \in ChargeStatus
  BY <1>t DEF TypeOK
<1>m. /\ \A g \in Worker \ {h} : w'[g] = w[g]
      /\ \/ w'[h] = Idle
         \/ w'[h] = [at |-> "claim", src |-> w[h].src, op |-> "refund",
                     saw |-> "none", note |-> w[h].note]
      /\ w' \in [Worker -> [at : Stage, src : Source, op : Op \cup {"none"},
                          saw : ChargeStatus \cup {"error"}, note : ChargeStatus]]
      /\ notify' \subseteq notify
  <2>1. CASE ext /\ Late(status, w[h].saw)
    BY <1>t, <1>w, <2>1 DEF TypeOK, Begin, Goto, Process
  <2>2. CASE ~ (ext /\ Late(status, w[h].saw))
    BY <1>t, <2>2, FinishMoves DEF Process, End, Acknowledge
  <2> QED BY <2>1, <2>2
<1>s. status' \in {status, Transition(status, w[h].saw)}
  BY DEF Process
<1>1. TypeOK'
  <2>1. status' \in IntentStatus
    BY <1>t, <1>s DEF TypeOK, Transition
  <2>2. seen' \subseteq Source
    BY <1>t, <1>w DEF TypeOK, Process
  <2> QED BY <1>t, <1>m, <2>1, <2>2 DEF TypeOK, Process
<1>2. ChargeLaw /\ ClaimLaw
  BY DEF Process, ChargeLaw, ClaimLaw
<1>3. BooksAreBacked'
  <2>1. Truth(w[h].saw) /\ BooksAreBacked /\ charge' = charge
    BY DEF IInv, Good, Process
  <2>2. status' = status \/ (status' = "PAID" /\ w[h].saw = "PAID")
          \/ (status' = "REFUNDED" /\ w[h].saw = "REFUNDED") \/ status' \in Dead
    BY <1>t, <1>s DEF TypeOK, Transition
  <2> QED BY <2>1, <2>2 DEF Truth, BooksAreBacked
<1>4. ClaimsAreTrue'
  BY <1>2, StandsStill DEF IInv, Process
<1>5. Good(h)' /\ ~ Acting(h)'
  BY <1>m DEF Good, Truth, Acting, Idle
<1>6. RefundInHand'
  BY <1>m, <1>2, <1>5, NoRefundInHand DEF IInv, Process
<1> QED BY <1>m, <1>1, <1>2, <1>3, <1>4, <1>5, <1>6, HandlerStep

(* The first claim of an operation lets its handler act.  Nobody was about *)
(* to send a refund, and none had been sent, if it is claimed only now.    *)
LEMMA ClaimStep ==
  ASSUME IInv, NEW h \in Worker, Claim(h)
  PROVE  IInv'
<1>t. TypeOK
  BY DEF IInv
<1>w. w[h].src \in Source /\ w[h].saw \in ChargeStatus \cup {"error"} /\ w[h].note \in ChargeStatus
  BY <1>t DEF TypeOK
<1>o. /\ w[h].op \in Op /\ (w[h].src = "refund" => w[h].op = "refund")
      /\ claim[w[h].op] \in {"none", "PENDING", "CONFIRMED"}
      /\ claim' = [claim EXCEPT ![w[h].op] = IF @ = "none" THEN "PENDING" ELSE @]
      /\ claim' \in [Op -> {"none", "PENDING", "CONFIRMED"}]
  BY <1>t DEF IInv, Good, TypeOK, At, Claim
<1>m. /\ \A g \in Worker \ {h} : w'[g] = w[g]
      /\ \/ w'[h] = Idle
         \/ /\ w'[h].op = w[h].op /\ w'[h].src = w[h].src /\ w'[h].saw = "none"
            /\ \/ w'[h].at = "act" /\ claim[w[h].op] = "none"
               \/ w'[h].at = "query"
               \/ /\ w'[h].at = "finalize" /\ claim[w[h].op] = "CONFIRMED"
                  /\ w[h].src = "refund"
      /\ w' \in [Worker -> [at : Stage, src : Source, op : Op \cup {"none"},
                          saw : ChargeStatus \cup {"error"}, note : ChargeStatus]]
      /\ notify' \subseteq notify
  <2>1. CASE claim[w[h].op] = "none"
    BY <1>t, <1>w, <1>o, <2>1 DEF TypeOK, Begin, Goto, Claim
  <2>2. CASE claim[w[h].op] = "PENDING"
    BY <1>t, <1>w, <1>o, <2>2 DEF TypeOK, Begin, Goto, Claim
  <2>3. CASE claim[w[h].op] = "CONFIRMED" /\ w[h].src = "refund"
    BY <1>t, <1>w, <1>o, <2>3 DEF TypeOK, Begin, Goto, Claim
  <2>4. CASE claim[w[h].op] = "CONFIRMED" /\ w[h].src # "refund"
    BY <1>t, <2>4, FinishMoves DEF Claim, End, Acknowledge
  <2> QED BY <1>o, <2>1, <2>2, <2>3, <2>4
<1>1. TypeOK'
  BY <1>t, <1>m, <1>o DEF TypeOK, Claim
<1>2. ChargeLaw /\ ClaimLaw
  BY <1>t, <1>o DEF TypeOK, Claim, ChargeLaw, ClaimLaw
<1>3. BooksAreBacked'
  BY <1>2, StandsStill DEF IInv, Claim
<1>4. ClaimsAreTrue'
  BY <1>t, <1>o DEF IInv, TypeOK, ClaimsAreTrue, Claim
<1>5. Good(h)'
  <2>1. claim'[w[h].op] # "none"
    BY <1>t, <1>o DEF TypeOK
  <2>2. w'[h].at = "finalize" => charge' = "REFUNDED"
    BY <1>m, <1>o DEF IInv, ClaimsAreTrue, Claim, Idle
  <2> QED BY <1>m, <1>o, <2>1, <2>2 DEF Good, Truth, Idle
<1>6. RefundInHand'
  <2>1. CASE ~ Acting(h)'
    BY <1>m, <1>2, <2>1, NoRefundInHand DEF IInv, Claim
  <2>2. CASE Acting(h)'
    <3>1. claim["refund"] = "none"
      BY <1>m, <2>2 DEF Acting, Idle
    <3>2. sent' = 0 /\ \A g \in Worker : ~ Acting(g)
      BY <3>1 DEF IInv, RefundInHand, Good, Acting, Claim
    <3>3. \A g \in Worker \ {h} : ~ Acting(g)'
      BY <3>2, <1>m DEF Acting
    <3> QED BY <3>2, <3>3 DEF RefundInHand
  <2> QED BY <2>1, <2>2
<1> QED BY <1>m, <1>1, <1>2, <1>3, <1>4, <1>5, <1>6, HandlerStep

(* The gateway is asked to undo the charge.  A refund is sent by the only  *)
(* handler that has it in hand, and nothing had been sent before.          *)
LEMMA ActStep ==
  ASSUME IInv, NEW h \in Worker, Act(h)
  PROVE  IInv'
<1>t. TypeOK
  BY DEF IInv
<1>w. w[h].src \in Source /\ w[h].saw \in ChargeStatus \cup {"error"} /\ w[h].note \in ChargeStatus
  BY <1>t DEF TypeOK
<1>o. /\ w[h].op \in Op /\ (w[h].src = "refund" => w[h].op = "refund")
      /\ claim[w[h].op] # "none"
  BY DEF IInv, Good, At, Act
<1>c. /\ ChargeLaw /\ charge' \in ChargeStatus
      /\ notify' \subseteq ChargeStatus
  BY <1>t, <1>o DEF TypeOK, Act, ChargeLaw, Undo, Undoable
<1>m. /\ \A g \in Worker \ {h} : w'[g] = w[g]
      /\ w'[h].at = "record" /\ w'[h].op = w[h].op /\ w'[h].src = w[h].src
      /\ w'[h].saw \in {"error", charge'}
      /\ w' \in [Worker -> [at : Stage, src : Source, op : Op \cup {"none"},
                          saw : ChargeStatus \cup {"error"}, note : ChargeStatus]]
  <2> PICK answer \in {"error", charge'} : Goto(h, "record", w[h].op, answer)
    BY DEF Act
  <2> QED BY <1>t, <1>w, <1>o, <1>c DEF TypeOK, Begin, Goto
<1>s. /\ sent' \in {sent, sent + 1}
      /\ sent' # sent => Acting(h)
  BY <1>t DEF TypeOK, Act, Acting, At
<1>1. TypeOK'
  BY <1>t, <1>m, <1>c, <1>s DEF TypeOK, Act, Books
<1>2. ClaimLaw
  BY DEF Act, Books, ClaimLaw
<1>3. BooksAreBacked' /\ ClaimsAreTrue'
  BY <1>t, <1>c, StandsStill DEF IInv, Act, Books
<1>5. Good(h)' /\ ~ Acting(h)'
  BY <1>m, <1>o DEF Good, Truth, Acting, Act, Books
<1>6. RefundInHand'
  <2>1. CASE sent' = sent
    BY <1>m, <1>2, <1>5, <2>1, NoRefundInHand DEF IInv
  <2>2. CASE sent' # sent
    <3>1. Acting(h) /\ sent = 0 /\ sent' = 1 /\ \A g \in Worker \ {h} : ~ Acting(g)
      BY <1>s, <2>2 DEF IInv, RefundInHand
    <3>2. \A g \in Worker : ~ Acting(g)'
      BY <1>m, <1>5, <3>1 DEF Acting
    <3>3. claim'["refund"] # "none"
      BY <1>o, <3>1 DEF Acting, Act, Books
    <3> QED BY <3>1, <3>2, <3>3 DEF RefundInHand
  <2> QED BY <2>1, <2>2
<1> QED BY <1>m, <1>c, <1>1, <1>2, <1>3, <1>5, <1>6, HandlerStep

(* A repeated operation only looks at the charge.                          *)
LEMMA QueryStep ==
  ASSUME IInv, NEW h \in Worker, Query(h)
  PROVE  IInv'
<1>t. TypeOK
  BY DEF IInv
<1>w. w[h].src \in Source /\ w[h].saw \in ChargeStatus \cup {"error"} /\ w[h].note \in ChargeStatus
  BY <1>t DEF TypeOK
<1>o. /\ w[h].op \in Op /\ (w[h].src = "refund" => w[h].op = "refund")
      /\ claim[w[h].op] # "none"
  BY DEF IInv, Good, At, Query
<1>m. /\ \A g \in Worker \ {h} : w'[g] = w[g]
      /\ w'[h].at = "record" /\ w'[h].op = w[h].op /\ w'[h].src = w[h].src
      /\ w'[h].saw \in {"error", charge}
      /\ w' \in [Worker -> [at : Stage, src : Source, op : Op \cup {"none"},
                          saw : ChargeStatus \cup {"error"}, note : ChargeStatus]]
  <2> PICK answer \in {"error", charge} : Goto(h, "record", w[h].op, answer)
    BY DEF Query
  <2> QED BY <1>t, <1>w, <1>o DEF TypeOK, Begin, Goto
<1>1. TypeOK'
  BY <1>t, <1>m DEF TypeOK, Query, Books, Gateway
<1>2. ChargeLaw /\ ClaimLaw
  BY DEF Query, Books, Gateway, ChargeLaw, ClaimLaw
<1>3. BooksAreBacked' /\ ClaimsAreTrue'
  BY <1>t, <1>2, StandsStill DEF IInv, Query, Books
<1>5. Good(h)' /\ ~ Acting(h)'
  BY <1>m, <1>o DEF Good, Truth, Acting, Query, Books, Gateway
<1>6. RefundInHand'
  BY <1>m, <1>2, <1>5, NoRefundInHand DEF IInv, Query, Gateway
<1> QED BY <1>m, <1>1, <1>2, <1>3, <1>5, <1>6, HandlerStep

(* What the operation came to is recorded.                                 *)
LEMMA RecordStep ==
  ASSUME IInv, NEW h \in Worker, Record(h)
  PROVE  IInv'
<1>t. TypeOK
  BY DEF IInv
<1>w. w[h].src \in Source /\ w[h].saw \in ChargeStatus \cup {"error"} /\ w[h].note \in ChargeStatus
  BY <1>t DEF TypeOK
<1>o. /\ w[h].op \in Op /\ (w[h].src = "refund" => w[h].op = "refund")
      /\ Truth(w[h].saw)
      /\ claim' = [claim EXCEPT ![w[h].op] =
                     IF Confirmed(w[h].op, w[h].saw) THEN "CONFIRMED" ELSE @]
      /\ claim' \in [Op -> {"none", "PENDING", "CONFIRMED"}]
      /\ charge' = charge
  BY <1>t DEF IInv, Good, TypeOK, At, Record
<1>m. /\ \A g \in Worker \ {h} : w'[g] = w[g]
      /\ \/ w'[h] = Idle
         \/ /\ w'[h].at = "process" /\ w'[h].saw = "PAID" /\ w[h].saw = "PAID"
         \/ /\ w'[h].at = "finalize" /\ w'[h].saw = "none"
            /\ w[h].op = "refund" /\ Confirmed(w[h].op, w[h].saw)
      /\ w' \in [Worker -> [at : Stage, src : Source, op : Op \cup {"none"},
                          saw : ChargeStatus \cup {"error"}, note : ChargeStatus]]
      /\ notify' \subseteq notify
  <2> DEFINE Paid == w[h].op = "cancel" /\ w[h].saw = "PAID"
             Done == /\ w[h].op = "refund" /\ Confirmed(w[h].op, w[h].saw)
                     /\ w[h].src = "refund"
  <2>1. CASE Paid
    BY <1>t, <1>w, <2>1 DEF TypeOK, Begin, Goto, Record
  <2>2. CASE Done
    BY <1>t, <1>w, <1>o, <2>2 DEF TypeOK, Begin, Goto, Record
  <2>3. CASE ~ Paid /\ ~ Done
    <3>1. End(h)
      BY <2>3 DEF Record
    <3> QED BY <1>t, <3>1, FinishMoves DEF End, Acknowledge
  <2> QED BY <2>1, <2>2, <2>3
<1>1. TypeOK'
  BY <1>t, <1>m, <1>o DEF TypeOK, Record
<1>2. ChargeLaw /\ ClaimLaw
  BY <1>t, <1>o DEF TypeOK, ChargeLaw, ClaimLaw
<1>3. BooksAreBacked'
  BY <1>t, <1>2, StandsStill DEF IInv, Record
<1>4. ClaimsAreTrue'
  BY <1>t, <1>o DEF IInv, TypeOK, ClaimsAreTrue, Confirmed, Truth
<1>5. Good(h)' /\ ~ Acting(h)'
  BY <1>m, <1>o DEF Good, Truth, Acting, Idle, Confirmed
<1>6. RefundInHand'
  BY <1>m, <1>2, <1>5, NoRefundInHand DEF IInv, Record
<1> QED BY <1>m, <1>1, <1>2, <1>3, <1>4, <1>5, <1>6, HandlerStep

(* The reservation lapses, and the charge moves by itself.                 *)
LEMMA WorldStep ==
  ASSUME IInv, Expire \/ Pay \/ GatewayMoves
  PROVE  IInv'
<1>t. TypeOK
  BY DEF IInv
<1>1. UNCHANGED <<w, claim, sent>>
  BY DEF Expire, Pay, GatewayMoves, Books, Gateway
<1>2. ChargeLaw /\ TypeOK'
  BY <1>t DEF TypeOK, ChargeLaw, Expire, Pay, GatewayMoves, Books, Gateway
<1>3. BooksAreBacked'
  BY <1>t DEF IInv, TypeOK, BooksAreBacked, Expire, Pay, GatewayMoves, Books, Gateway
<1> QED BY <1>1, <1>2, <1>3, OutsideStep

-----------------------------------------------------------------------------
LEMMA InitIInv == Init => IInv
<1> SUFFICES ASSUME Init PROVE IInv
  OBVIOUS
<1>1. TypeOK
  <2>1. w \in [Worker -> [at : Stage, src : Source, op : Op \cup {"none"},
                         saw : ChargeStatus \cup {"error"}, note : ChargeStatus]]
    BY DEF Init, Idle
  <2>2. claim \in [Op -> {"none", "PENDING", "CONFIRMED"}]
    BY DEF Init
  <2>3. ext \in BOOLEAN
    BY DEF Init
  <2> QED BY <2>1, <2>2, <2>3 DEF Init, TypeOK
<1>2. BooksAreBacked /\ ClaimsAreTrue
  BY DEF Init, BooksAreBacked, ClaimsAreTrue
<1>3. \A h \in Worker : Good(h) /\ ~ Acting(h)
  BY DEF Init, Good, Truth, Acting, Idle
<1>4. RefundInHand
  BY <1>3 DEF Init, RefundInHand
<1> QED BY <1>1, <1>2, <1>3, <1>4 DEF IInv

LEMMA NextIInv == IInv /\ [Next]_vars => IInv'
<1> SUFFICES ASSUME IInv, [Next]_vars PROVE IInv'
  OBVIOUS
<1>1. ASSUME NEW h \in Worker,
             \/ Ask(h) \/ Create(h) \/ Refuse(h) \/ Unclear(h)
             \/ Webhook(h) \/ Reconcile(h) \/ Cancel(h) \/ Refund(h) \/ Crash(h)
      PROVE  IInv'
  BY <1>1, AskStep, CreateStep, RefuseStep, UnclearStep, WebhookStep, ReconcileStep,
     CancelStep, RefundStep, CrashStep
<1>2. ASSUME NEW h \in Worker, Continue(h)
      PROVE  IInv'
  BY <1>2, StoreAnswerStep, StoreRefusalStep, ProcessStep, ClaimStep, ActStep, QueryStep,
     RecordStep, FinalizeStep DEF Continue
<1>3. CASE Expire \/ Pay \/ GatewayMoves
  BY <1>3, WorldStep
<1>4. CASE UNCHANGED vars
  <2>1. TypeOK' /\ BooksAreBacked' /\ ChargeLaw
    BY <1>4 DEF IInv, TypeOK, BooksAreBacked, ChargeLaw, vars
  <2> QED BY <1>4, <2>1, OutsideStep DEF vars
<1> QED BY <1>1, <1>2, <1>3, <1>4 DEF Next

(* The inductive invariant: what handlers saw is still true, what they     *)
(* claimed is claimed, and one of them at most has the refund in hand      *)
(* (executeTablePaymentRemoteOperation, whose claim is taken under the     *)
(* lock of the session).                                                   *)
THEOREM Invariance == Spec => []IInv
<1> QED BY InitIInv, NextIInv, PTL DEF Spec

(* Every value stays in its type, whatever the handlers do.                *)
THEOREM TypeCorrect == Spec => []TypeOK
<1>1. IInv => TypeOK
  BY DEF IInv
<1> QED BY <1>1, Invariance, PTL

(* For any number of handlers and crashes, and any order of the events, a  *)
(* paid intent was paid and a refunded one was refunded                    *)
(* (ProcessTablePaymentWebhookService).                                    *)
THEOREM BooksSafety == Spec => []BooksAreBacked
<1>1. IInv => BooksAreBacked
  BY DEF IInv
<1> QED BY <1>1, Invariance, PTL

(* A confirmed operation is final at the gateway                           *)
(* (executeTablePaymentRemoteOperation).                                   *)
THEOREM ClaimsSafety == Spec => []ClaimsAreTrue
<1>1. IInv => ClaimsAreTrue
  BY DEF IInv
<1> QED BY <1>1, Invariance, PTL

(* At most one refund is ever sent for an intent, by however many handlers *)
(* that ask for one and however many of them die                           *)
(* (executeTablePaymentRemoteOperation).                                   *)
THEOREM RefundOnceSafety == Spec => []RefundSentOnce
<1>1. IInv => RefundSentOnce
  BY DEF IInv, RefundInHand, RefundSentOnce
<1> QED BY <1>1, Invariance, PTL

-----------------------------------------------------------------------------
StatusLaw ==
  \/ status' = status
  \/ status \in {"none"} \cup Pending /\ status' \in Pending
  \/ status \in Pending /\ status' = "PAID" /\ charge \in {"PAID", "REFUNDED"}
  \/ status \in Pending \cup {"CANCELED"} /\ status' \in Dead
  \/ status = "PAID" /\ status' = "REFUNDED" /\ charge = "REFUNDED"

(* A step moves the charge or the books, never both, and the books follow  *)
(* the charge.                                                             *)
LEMMA OneThingMoves ==
  ASSUME IInv, [Next]_vars
  PROVE  (status' = status /\ ChargeLaw) \/ (charge' = charge /\ StatusLaw)
<1>t. TypeOK
  BY DEF IInv
<1>1. ASSUME NEW h \in Worker,
             \/ Ask(h) \/ Create(h) \/ Refuse(h) \/ Unclear(h)
             \/ Webhook(h) \/ Reconcile(h) \/ Cancel(h) \/ Refund(h) \/ Crash(h)
      PROVE  (status' = status /\ ChargeLaw) \/ (charge' = charge /\ StatusLaw)
  BY <1>t, <1>1 DEF TypeOK, Ask, Create, Refuse, Unclear, Webhook, Reconcile, Cancel, Refund,
     Crash, Books, Gateway, ChargeLaw, StatusLaw
<1>2. ASSUME NEW h \in Worker, Process(h)
      PROVE  charge' = charge /\ StatusLaw
  <2>1. Truth(w[h].saw) /\ charge' = charge /\ status' \in {status, Transition(status, w[h].saw)}
    BY <1>2 DEF IInv, Good, Process
  <2> QED BY <1>t, <2>1 DEF TypeOK, Truth, Transition, StatusLaw
<1>3. ASSUME NEW h \in Worker, Finalize(h)
      PROVE  charge' = charge /\ StatusLaw
  BY <1>t, <1>3 DEF IInv, Good, At, Finalize, Gateway, TypeOK, StatusLaw
<1>4. ASSUME NEW h \in Worker, Act(h)
      PROVE  status' = status /\ ChargeLaw
  <2>1. w[h].op \in Op
    BY <1>4 DEF IInv, Good, At, Act
  <2> QED BY <1>t, <1>4, <2>1 DEF TypeOK, Act, Undo, Undoable, Books, ChargeLaw
<1>5. ASSUME NEW h \in Worker,
             StoreAnswer(h) \/ StoreRefusal(h) \/ Claim(h) \/ Query(h) \/ Record(h)
      PROVE  charge' = charge /\ StatusLaw
  BY <1>t, <1>5 DEF TypeOK, StoreAnswer, StoreRefusal, Claim, Query, Record, Books, Gateway,
     StatusLaw
<1>6. CASE Expire \/ Pay \/ GatewayMoves
  BY <1>t, <1>6 DEF TypeOK, Expire, Pay, GatewayMoves, Books, Gateway, ChargeLaw, StatusLaw
<1>7. CASE UNCHANGED vars
  BY <1>7 DEF vars, StatusLaw
<1>8. ASSUME NEW h \in Worker, Continue(h)
      PROVE  (status' = status /\ ChargeLaw) \/ (charge' = charge /\ StatusLaw)
  BY <1>2, <1>3, <1>4, <1>5, <1>8 DEF Continue
<1> QED BY <1>1, <1>6, <1>7, <1>8 DEF Next

(* The intent and its charge implement the promise made to the people at   *)
(* the table and to the restaurant (resolveTablePaymentProviderTransition):*)
(* the initial states map to its initial state and every step to a step of *)
(* it or to none.                                                          *)
THEOREM PromiseKept == Spec => KeepsPromise
<1>1. Init => Promise!Init
  BY DEF Init, Promise!Init, Bill, Money
<1>2. IInv /\ [Next]_vars => [Promise!Next]_<<Bill, Money>>
  <2> SUFFICES ASSUME IInv, [Next]_vars
               PROVE  Promise!Next \/ UNCHANGED <<Bill, Money>>
    OBVIOUS
  <2>t. status \in IntentStatus /\ charge \in ChargeStatus
    BY DEF IInv, TypeOK
  <2>1. CASE status' = status /\ ChargeLaw
    <3>1. Bill' = Bill
      BY <2>1 DEF Bill
    <3>2. \/ Money' = Money
          \/ Money = "none" /\ Money' = "held"
          \/ Money = "held" /\ Money' = "back"
      BY <2>1 DEF Money, ChargeLaw
    <3> QED BY <3>1, <3>2 DEF Promise!Next, Promise!Pay, Promise!GiveBack
  <2>2. CASE charge' = charge /\ StatusLaw
    <3>1. Money' = Money
      BY <2>2 DEF Money
    <3>2. \/ Bill' = Bill
          \/ Bill = "open" /\ Money # "none" /\ Bill' = "settled"
          \/ Bill = "settled" /\ Money = "back" /\ Bill' = "returned"
          \/ Bill = "open" /\ Bill' = "void"
      BY <2>2, <2>t DEF Bill, Money, StatusLaw
    <3> QED BY <3>1, <3>2 DEF Promise!Next, Promise!Settle, Promise!Return, Promise!GiveUp
  <2> QED BY <2>1, <2>2, OneThingMoves
<1> QED BY <1>1, <1>2, Invariance, PTL DEF Spec, KeepsPromise, Promise!Spec

-----------------------------------------------------------------------------
(***************************************************************************)
(* The card charges of an order, for any number of calls and of attempts.  *)
(*                                                                         *)
(* CardInv has three parts. What a call was told of a charge is still true *)
(* or has become more, since a charge that is dead stays so and money that *)
(* was taken stays taken or returned (CallOK). No two calls ask for one    *)
(* attempt (OneAsks). And every attempt but the latest is dead, or was     *)
(* given up for want of a safe challenge address, because a retry is only  *)
(* written, before the window is over, when every row is final and what a  *)
(* final row says is so, that one case apart (OrderBooks). The mark of a   *)
(* late refund stands on an order that is cancelled and unpaid for ever    *)
(* (Lost), which is why no confirmation can win against it.                *)
(***************************************************************************)

DeadCharge == {"refused", "failed", "expired", "cancelled"}
Taken == {"processed", "refunded"}

(* The order can only end cancelled: it is so and unpaid for ever.         *)
Lost == orderStatus = "CANCELADO" /\ ~paid

(* What was told of an attempt is still true, or has become more.          *)
StillTrue(a, n) ==
  /\ n \in DeadCharge => remote[a] = n
  /\ n = "processed" => remote[a] \in Taken
  /\ n = "refunded" => remote[a] = "refunded"
  /\ n \in {"open", "unsafe"} => remote[a] \notin {"none", "refused"}

(* A call past its reading works on an attempt that was written ...        *)
AtWork(c) ==
  /\ pc[c] \notin {"idle", "polling", "marking", "failing"} => at[c] \in Attempt
  /\ at[c] \in Attempt => row[at[c]] # "none"
  /\ pc[c] = "reading" => old[c] = MpOrder(at[c])
  /\ pc[c] = "charging" => remote[at[c]] = "none" /\ at[c] \notin wire

(* ... has been told the truth, and confirms only what was processed ...   *)
Told(c) ==
  /\ pc[c] \in {"idle", "polling"} => news[c] = "none"
  /\ pc[c] \in {"hooking", "finalizing"} => news[c] = "processed"
  /\ pc[c] \notin {"marking", "expiring", "failing"} => StillTrue(at[c], news[c])

(* ... returns money only when the order cannot be paid any more, and only *)
(* the job, after the window, expires what it knows nothing of.            *)
Allowed(c) ==
  /\ pc[c] \in {"late", "refunding", "consulting", "receipt"} =>
       Lost /\ remote[at[c]] \in Taken
  /\ pc[c] = "refunding" => old[c] \in {Unlinked, MpOrder(at[c])}
  /\ kind[c] = "job" \/ pc[c] \in {"marking", "expiring", "failing"} => past

(* All that is known of a call.                                            *)
CallOK(c) == AtWork(c) /\ Told(c) /\ Allowed(c)

(* No two calls ask for the same attempt.                                  *)
OneAsks == \A c, d \in Call : c # d /\ pc[c] = "charging" /\ pc[d] = "charging" => at[c] # at[d]

(* The attempts are written in turn, and asked for after that.             *)
InTurn == \E n \in 0 .. MaxAttempt : Written = 1 .. n
AskedOnce ==
  \A a \in Attempt : a \in wire \/ row[a] = "none" =>
    remote[a] = "none" /\ (row[a] = "none" => a \notin wire)

(* Money is returned, or marked to be, only of an order that is lost, and  *)
(* the session names an attempt that was written.                          *)
LateMoney ==
  /\ ~ (orderStatus = "CANCELADO" /\ paid)
  /\ \A a \in Attempt :
       /\ remote[a] = "refunded" => Lost
       /\ session = LatePending(a) => Lost /\ remote[a] \in Taken
       /\ session = MpOrder(a) => row[a] # "none"

(* What a final row says is so.                                            *)
RowTruth(a) ==
  /\ row[a] = "DECLINED" => remote[a] = "failed"
  /\ row[a] = "FAILED" => remote[a] = "refused" \/ a \in unsafe
  /\ row[a] = "CANCELED" => remote[a] = "cancelled"
  /\ row[a] = "EXPIRED" => past \/ remote[a] = "expired"
  /\ row[a] = "REFUNDED" => remote[a] = "refunded"
Rows == \A a \in Attempt : RowTruth(a)

(* Every attempt but the latest is dead, or asked for a challenge without  *)
(* a safe address.                                                         *)
Before ==
  \A a, b \in Attempt : a < b /\ row[b] # "none" => remote[a] \in DeadCharge \/ a \in unsafe

(* All that is known of the order and its charges.                         *)
OrderBooks == InTurn /\ AskedOnce /\ LateMoney /\ Rows /\ Before /\ PaidIsHeld

CardInv == CardTypeOK /\ (\A c \in Call : CallOK(c)) /\ OneAsks /\ OrderBooks

USE OrderCardChargeAssumption DEF OrderCardChargeAssumption, rows

-----------------------------------------------------------------------------
News == Remote \cup {"unknown", "unsafe"}
OrderTypes ==
  /\ orderStatus \in {"PENDENTE", "CANCELADO"} /\ paid \in BOOLEAN
  /\ refund \in {"NOT_REQUESTED", "PROCESSING", "SUCCEEDED", "FAILED"}
  /\ session \in Session
  /\ row \in [Attempt -> RowStatus] /\ unsafe \subseteq Attempt
  /\ past \in BOOLEAN
  /\ remote \in [Attempt -> Remote] /\ wire \subseteq Attempt
CallTypes ==
  /\ pc \in [Call -> Phase] /\ kind \in [Call -> Kind]
  /\ at \in [Call -> 0..MaxAttempt] /\ news \in [Call -> News] /\ old \in [Call -> Session]
  /\ \A c \in Call : pc[c] = "idle" <=> kind[c] = "none"

LEMMA Types == CardTypeOK <=> OrderTypes /\ CallTypes
  BY DEF CardTypeOK, OrderTypes, CallTypes, News

(* Only c changes.                                                         *)
Others(c) ==
  \A d \in Call : d # c =>
    /\ pc'[d] = pc[d] /\ kind'[d] = kind[d] /\ at'[d] = at[d]
    /\ news'[d] = news[d] /\ old'[d] = old[d]

(* A call that goes on, and one that begins, column by column.             *)
LEMMA ProceedFacts ==
  ASSUME CallTypes, NEW c \in Call, pc[c] # "idle",
         NEW phase \in Phase, NEW n \in News, Proceed(c, phase, n)
  PROVE  /\ CallTypes' /\ Others(c) /\ pc'[c] = phase
         /\ phase = "idle" => at'[c] = 0 /\ news'[c] = "none" /\ kind'[c] = "none"
         /\ phase # "idle" => /\ at'[c] = at[c] /\ news'[c] = n /\ kind'[c] = kind[c]
                              /\ old'[c] = old[c]
<1> USE DEF CallTypes, Proceed, Others
<1>1. CASE phase = "idle"
  <2>1. "none" \in Kind /\ "none" \in News /\ Unlinked \in Session /\ 0 \in 0 .. MaxAttempt
    BY DEF Kind, News, Remote, Session
  <2> QED
    BY <1>1, <2>1
<1>2. CASE phase # "idle"
  BY <1>2
<1> QED
  BY <1>1, <1>2

LEMMA BeginFacts ==
  ASSUME CallTypes, NEW c \in Call, NEW k \in Kind \ {"none"}, NEW phase \in Phase \ {"idle"},
         NEW a \in 0 .. MaxAttempt, NEW s \in Session, BeginCall(c, k, phase, a, s)
  PROVE  /\ CallTypes' /\ Others(c) /\ pc[c] = "idle"
         /\ pc'[c] = phase /\ at'[c] = a /\ kind'[c] = k /\ old'[c] = s /\ news'[c] = news[c]
  BY DEF CallTypes, BeginCall, Others

(* Nothing that is known is lost.                                          *)
Lasting ==
  /\ Lost => Lost'
  /\ past => past'
  /\ \A a \in Attempt :
       /\ row[a] # "none" => row'[a] # "none"
       /\ remote[a] \in DeadCharge => remote'[a] = remote[a]
       /\ remote[a] \in Taken => remote'[a] \in Taken
       /\ remote[a] = "refunded" => remote'[a] = "refunded"
       /\ remote[a] \notin {"none", "refused"} => remote'[a] \notin {"none", "refused"}

(* ... so what is right of a call stays right while it waits.              *)
LEMMA StillOK ==
  ASSUME CardTypeOK, Lasting, NEW d \in Call, CallOK(d),
         pc'[d] = pc[d], kind'[d] = kind[d], at'[d] = at[d], news'[d] = news[d], old'[d] = old[d],
         pc[d] = "charging" => remote'[at[d]] = "none" /\ at[d] \notin wire'
  PROVE  CallOK(d)'
<1>1. AtWork(d)'
  BY DEF CallOK, AtWork, Lasting, MpOrder
<1>2. Told(d)'
  <2>1. pc[d] \notin {"marking", "expiring", "failing"} => StillTrue(at[d], news[d])'
    <3>1. CASE at[d] \in Attempt
      BY <3>1 DEF CallOK, Told, StillTrue, Lasting
    <3>2. CASE at[d] \notin Attempt
      BY <3>2 DEF CallOK, Told, AtWork, StillTrue, DeadCharge
    <3> QED
      BY <3>1, <3>2
  <2> QED
    BY <2>1 DEF CallOK, Told, StillTrue
<1>3. Allowed(d)'
  BY DEF CallOK, Allowed, AtWork, Lasting
<1> QED
  BY <1>1, <1>2, <1>3 DEF CallOK

Same == UNCHANGED <<order, rows, past, gateway>>

(* A step that only moves a call leaves the order, its rows and the        *)
(* gateway sound.                                                          *)
LEMMA SameBooks ==
  ASSUME CardInv, Same PROVE OrderBooks' /\ OrderTypes' /\ Lasting
<1>1. UNCHANGED <<orderStatus, paid, refund, session, rows, past, remote, wire>>
  BY DEF Same, order, gateway
<1>2. OrderTypes'
  BY <1>1, Types DEF CardInv, OrderTypes
<1>3. Lasting
  BY <1>1 DEF Lasting, Lost
<1>4. OrderBooks'
  BY <1>1 DEF CardInv, OrderBooks, InTurn, Written, AskedOnce, LateMoney, Lost, Rows, RowTruth, Before, PaidIsHeld
<1> QED
  BY <1>2, <1>3, <1>4

-----------------------------------------------------------------------------
(* What a step of call c leaves to be true.                                *)
Untouched(c) ==
  \A d \in Call : d # c /\ pc[d] = "charging" => remote'[at[d]] = "none" /\ at[d] \notin wire'
Kept(c) == OrderBooks' /\ OrderTypes' /\ Lasting /\ Untouched(c)
Moved(c) == Kept(c) /\ Others(c) /\ CallTypes' /\ pc'[c] # "charging" /\ CallOK(c)'

(* A call that ends, and one that goes on with what it was told.           *)
LEMMA Resting ==
  ASSUME CardInv, NEW c \in Call, pc[c] # "idle", NEW n \in News, Proceed(c, "idle", n), Kept(c)
  PROVE  Moved(c)
<1>1. "idle" \in Phase
  BY DEF Phase
<1>2. /\ CallTypes' /\ Others(c) /\ pc'[c] = "idle"
      /\ at'[c] = 0 /\ news'[c] = "none" /\ kind'[c] = "none"
  BY <1>1, Types, ProceedFacts DEF CardInv
<1>3. CallOK(c)'
  BY <1>2 DEF CallOK, AtWork, Told, Allowed, StillTrue, DeadCharge, Attempt
<1> QED
  BY <1>2, <1>3 DEF Moved

LEMMA Onward ==
  ASSUME CardInv, NEW c \in Call, pc[c] # "idle", NEW phase \in Phase, NEW n \in News,
         phase \notin {"idle", "polling", "reading", "charging", "refunding"},
         Proceed(c, phase, n), Kept(c), at[c] \in Attempt, StillTrue(at[c], n),
         phase \in {"hooking", "finalizing"} => n = "processed",
         phase \in {"late", "consulting", "receipt"} => Lost /\ remote[at[c]] \in Taken,
         phase \in {"marking", "expiring", "failing"} => past
  PROVE  Moved(c)
<1>1. /\ CallTypes' /\ Others(c) /\ pc'[c] = phase
      /\ at'[c] = at[c] /\ news'[c] = n /\ kind'[c] = kind[c] /\ old'[c] = old[c]
  BY Types, ProceedFacts DEF CardInv
<1>2. AtWork(c)'
  BY <1>1 DEF CardInv, CallOK, AtWork, Kept, Lasting
<1>3. Told(c)'
  BY <1>1 DEF Told, StillTrue, Kept, Lasting
<1>4. Allowed(c)'
  BY <1>1 DEF CardInv, CallOK, Allowed, Kept, Lasting
<1> QED
  BY <1>1, <1>2, <1>3, <1>4 DEF Moved, CallOK

(* What is so of the latest attempt.                                       *)
LEMMA LatestIs ==
  ASSUME InTurn
  PROVE  /\ Latest \in 0 .. MaxAttempt
         /\ \A a \in Attempt : row[a] # "none" <=> a <= Latest
<1>1. PICK n \in 0 .. MaxAttempt : Written = 1 .. n
  BY DEF InTurn
<1>2. Cardinality(1 .. n) = IF 1 > n THEN 0 ELSE n - 1 + 1
  BY FS_Interval
<1>3. Latest = n
  BY <1>1, <1>2 DEF Latest
<1> QED
  BY <1>1, <1>3 DEF Written, Attempt

(* A step that changes nothing but calls.                                  *)
LEMMA KeptSame ==
  ASSUME CardInv, Same, NEW c \in Call PROVE Kept(c)
<1>1. UNCHANGED <<remote, wire>>
  BY DEF Same, gateway
<1>2. Untouched(c)
  BY <1>1 DEF Untouched, CardInv, CallOK, AtWork
<1> QED
  BY <1>2, SameBooks DEF Kept

(* A row that is written again stays sound if what it says is so.          *)
LEMMA KeptRow ==
  ASSUME CardInv, NEW c \in Call, NEW a \in Attempt, row[a] # "none",
         NEW s \in RowStatus \ {"none"}, row' = [row EXCEPT ![a] = s],
         unsafe \subseteq unsafe', unsafe' \subseteq Attempt,
         UNCHANGED <<order, past, gateway>>, \A b \in Attempt : b = a => RowTruth(b)'
  PROVE  Kept(c)
<1>1. UNCHANGED <<orderStatus, paid, refund, session, past, remote, wire>>
  BY DEF order, gateway
<1>2. row \in [Attempt -> RowStatus]
  BY Types DEF CardInv, OrderTypes
<1>3. OrderTypes'
  BY <1>1, <1>2, Types DEF CardInv, OrderTypes
<1>4. row'[a] = s /\ \A b \in Attempt \ {a} : row'[b] = row[b]
  BY <1>2
<1>5. Lasting
  BY <1>1, <1>4 DEF Lasting, Lost
<1>6. Untouched(c)
  BY <1>1 DEF Untouched, CardInv, CallOK, AtWork
<1>7. Written' = Written
  BY <1>4 DEF Written
<1>8. InTurn'
  BY <1>7 DEF InTurn, CardInv, OrderBooks
<1>9. AskedOnce' /\ LateMoney' /\ Before' /\ PaidIsHeld'
  BY <1>1, <1>4 DEF CardInv, OrderBooks, AskedOnce, LateMoney, Lost, Before, PaidIsHeld
<1>10. Rows'
  <2> SUFFICES ASSUME NEW b \in Attempt, b # a PROVE RowTruth(b)'
    BY DEF Rows
  <2> QED
    BY <1>1, <1>4 DEF CardInv, OrderBooks, Rows, RowTruth
<1> QED
  BY <1>3, <1>5, <1>6, <1>8, <1>9, <1>10 DEF Kept, OrderBooks

(* The session may name an attempt that was written; the mark of a late    *)
(* refund, one that took money the order has lost.                         *)
LEMMA KeptSession ==
  ASSUME CardInv, NEW c \in Call, session' \in Session,
         \A a \in Attempt : session' = LatePending(a) => Lost /\ remote[a] \in Taken,
         \A a \in Attempt : session' = MpOrder(a) => row[a] # "none",
         refund' \in {"NOT_REQUESTED", "PROCESSING", "SUCCEEDED", "FAILED"},
         UNCHANGED <<orderStatus, paid, rows, past, gateway>>
  PROVE  Kept(c)
<1>1. UNCHANGED <<orderStatus, paid, rows, past, remote, wire>>
  BY DEF gateway
<1>2. OrderTypes'
  BY <1>1, Types DEF CardInv, OrderTypes
<1>3. Lasting
  BY <1>1 DEF Lasting, Lost
<1>4. Untouched(c)
  BY <1>1 DEF Untouched, CardInv, CallOK, AtWork
<1>5. OrderBooks'
  BY <1>1 DEF CardInv, OrderBooks, InTurn, Written, AskedOnce, LateMoney, Lost, Rows, RowTruth, Before, PaidIsHeld
<1> QED
  BY <1>2, <1>3, <1>4, <1>5 DEF Kept

(* A refund is made of money the order has lost.                           *)
LEMMA KeptRefund ==
  ASSUME CardInv, NEW c \in Call, NEW a \in Attempt, Lost, remote[a] \in Taken,
         NEW r \in {remote[a], "refunded"}, remote' = [remote EXCEPT ![a] = r],
         session' = session \/ session' \in {Unlinked, MpOrder(a)},
         refund' \in {"NOT_REQUESTED", "PROCESSING", "SUCCEEDED", "FAILED"},
         UNCHANGED <<orderStatus, paid, rows, past, wire>>
  PROVE  Kept(c)
<1>1. OrderTypes
  BY Types DEF CardInv
<1>2. r \in Taken /\ r \in Remote
  BY DEF Taken, Remote
<1>3. remote'[a] = r /\ \A b \in Attempt \ {a} : remote'[b] = remote[b]
  BY <1>1 DEF OrderTypes
<1>4. session' \in Session
  BY <1>1 DEF OrderTypes, Session
<1>5. OrderTypes'
  BY <1>1, <1>2, <1>4 DEF OrderTypes
<1>6. Lasting
  BY <1>2, <1>3 DEF Lasting, Lost, Taken, DeadCharge
<1>7. Untouched(c)
  BY <1>3 DEF Untouched, CardInv, CallOK, AtWork, Taken
<1>8. row[a] # "none" /\ a \notin wire
  BY DEF CardInv, OrderBooks, AskedOnce, Taken
<1>9. InTurn' /\ AskedOnce'
  BY <1>3, <1>8 DEF CardInv, OrderBooks, InTurn, Written, AskedOnce
<1>10. LateMoney'
  BY <1>2, <1>3, <1>8 DEF CardInv, OrderBooks, LateMoney, Lost, MpOrder, LatePending, Unlinked
<1>11. Rows' /\ Before'
  BY <1>2, <1>3 DEF CardInv, OrderBooks, Rows, RowTruth, Before, Taken, DeadCharge
<1>12. PaidIsHeld'
  BY DEF Lost, PaidIsHeld
<1> QED
  BY <1>5, <1>6, <1>7, <1>9, <1>10, <1>11, <1>12 DEF Kept, OrderBooks

-----------------------------------------------------------------------------
(* The steps of a call, one lemma for each kind.                           *)

Unread(c) ==
  \/ Answered(c) \/ Unanswered(c) \/ LinkFails(c) \/ LateDone(c) \/ LateConsult(c)
  \/ LateRefused(c) \/ ConsultRefund(c) \/ PollFails(c) \/ Search(c) \/ Read(c) \/ Die(c)

LEMMA PhaseNames ==
  {"idle", "recording", "linking", "finalizing", "late", "consulting", "receipt", "waiting",
   "refunding", "polling", "searching", "reading", "binding", "applying", "marking", "expiring",
   "failing", "hooking", "notified", "charging"} \subseteq Phase
  /\ {"none", "unknown", "open", "unsafe"} \subseteq News /\ Remote \subseteq News
  BY DEF Phase, News, Remote

(* An error, and an end.                                                   *)
LEMMA ThrownMoves ==
  ASSUME CardInv, NEW c \in Call, Thrown(c), Kept(c),
         pc[c] \notin {"idle", "polling", "marking", "failing"}
  PROVE  Moved(c)
<1>1. at[c] \in Attempt
  BY DEF CardInv, CallOK, AtWork
<1>2. CASE kind[c] = "retry"
  <2>1. StillTrue(at[c], "unknown")
    BY DEF StillTrue, DeadCharge
  <2>2. Proceed(c, "recording", "unknown")
    BY <1>2 DEF Thrown
  <2> QED
    BY <1>1, <2>1, <2>2, Onward, PhaseNames
<1>3. CASE kind[c] # "retry"
  BY <1>3, Resting, PhaseNames DEF Thrown
<1> QED
  BY <1>2, <1>3

LEMMA FinishedMoves ==
  ASSUME CardInv, NEW c \in Call, Finished(c), Kept(c),
         pc[c] \notin {"idle", "polling", "marking", "failing", "expiring"}
  PROVE  Moved(c)
<1>1. at[c] \in Attempt /\ StillTrue(at[c], news[c]) /\ news[c] \in News
  BY Types DEF CardInv, CallOK, AtWork, Told, CallTypes
<1>3. CASE kind[c] \in {"poll", "job"}
  <2>1. Proceed(c, "applying", news[c])
    BY <1>3 DEF Finished
  <2> QED
    BY <1>1, <2>1, Onward, PhaseNames
<1>4. CASE kind[c] \notin {"poll", "job"}
  <2>1. Proceed(c, "idle", news[c])
    BY <1>4 DEF Finished
  <2> QED
    BY <1>1, <2>1, Resting, PhaseNames
<1> QED
  BY <1>3, <1>4

(* The steps that read, and leave what they read as it is.                 *)
LEMMA UnreadMoves ==
  ASSUME CardInv, NEW c \in Call, Unread(c) PROVE Moved(c)
<1>0. OrderTypes /\ CallTypes /\ CallOK(c) /\ OrderBooks
  BY Types DEF CardInv
<1>1. Same
  BY DEF Unread, Same, Answered, Unanswered, LinkFails, LateDone, LateConsult, LateRefused,
         ConsultRefund, PollFails, Search, Read, Die
<1>2. Kept(c)
  BY <1>1, KeptSame
<1>4. CASE Answered(c)
  <2>1. at[c] \in Attempt /\ pc[c] = "waiting"
    BY <1>0, <1>4 DEF CallOK, AtWork, Answered
  <2>2. PICK n \in {remote[at[c]]} \cup (IF remote[at[c]] = "refused" THEN {} ELSE Early) :
           Proceed(c, "recording", n)
    BY <1>4 DEF Answered
  <2>3. n \in News
    BY <1>0, <2>1, PhaseNames DEF OrderTypes, Early
  <2>4. StillTrue(at[c], n)
    BY <1>4, <2>1 DEF Answered, Early, StillTrue, DeadCharge, Taken
  <2> QED
    BY <1>2, <2>1, <2>2, <2>3, <2>4, Onward, PhaseNames
<1>5. CASE Unanswered(c)
  <2>1. at[c] \in Attempt /\ pc[c] = "waiting" /\ Proceed(c, "recording", "unknown")
    BY <1>0, <1>5 DEF CallOK, AtWork, Unanswered
  <2>2. StillTrue(at[c], "unknown")
    BY DEF StillTrue, DeadCharge
  <2> QED
    BY <1>2, <2>1, <2>2, Onward, PhaseNames
<1>6. CASE LinkFails(c)
  <2>1. at[c] \in Attempt /\ pc[c] = "linking" /\ StillTrue(at[c], news[c]) /\ news[c] \in News
    BY <1>0, <1>6 DEF CallOK, AtWork, Told, LinkFails, CallTypes
  <2>2. StillTrue(at[c], "unknown")
    BY DEF StillTrue, DeadCharge
  <2>3. \/ Proceed(c, "recording", "unknown")
        \/ Proceed(c, "finalizing", news[c]) /\ news[c] = "processed"
        \/ Proceed(c, "idle", news[c])
    BY <1>6 DEF LinkFails, AfterLink
  <2>4. CASE Proceed(c, "recording", "unknown")
    BY <1>2, <2>1, <2>2, <2>4, Onward, PhaseNames
  <2>5. CASE Proceed(c, "finalizing", news[c]) /\ news[c] = "processed"
    BY <1>2, <2>1, <2>5, Onward, PhaseNames
  <2>6. CASE Proceed(c, "idle", news[c])
    BY <1>2, <2>1, <2>6, Resting, PhaseNames
  <2> QED
    BY <2>3, <2>4, <2>5, <2>6
<1>7. CASE LateDone(c)
  BY <1>2, <1>7, FinishedMoves DEF LateDone
<1>8. CASE LateConsult(c)
  <2>1. /\ at[c] \in Attempt /\ pc[c] = "late" /\ StillTrue(at[c], news[c]) /\ news[c] \in News
        /\ Lost /\ remote[at[c]] \in Taken /\ Proceed(c, "consulting", news[c])
    BY <1>0, <1>8 DEF CallOK, AtWork, Told, Allowed, LateConsult, CallTypes
  <2> QED
    BY <1>2, <2>1, Onward, PhaseNames
<1>9. CASE LateRefused(c)
  BY <1>2, <1>9, ThrownMoves DEF LateRefused
<1>10. CASE ConsultRefund(c)
  <2>1. /\ at[c] \in Attempt /\ pc[c] = "consulting" /\ StillTrue(at[c], news[c]) /\ news[c] \in News
        /\ Lost /\ remote[at[c]] \in Taken
    BY <1>0, <1>10 DEF CallOK, AtWork, Told, Allowed, ConsultRefund, CallTypes
  <2>2. CASE Proceed(c, "receipt", news[c])
    BY <1>2, <2>1, <2>2, Onward, PhaseNames
  <2>3. CASE Thrown(c)
    BY <1>2, <2>1, <2>3, ThrownMoves
  <2> QED
    BY <1>10, <2>2, <2>3 DEF ConsultRefund
<1>11. CASE PollFails(c)
  BY <1>2, <1>11, Resting, PhaseNames DEF PollFails
<1>12. CASE Search(c)
  <2>1. at[c] \in Attempt /\ pc[c] = "searching" /\ remote[at[c]] \in News
    BY <1>0, <1>12, PhaseNames DEF CallOK, AtWork, Search, OrderTypes
  <2>2. CASE Proceed(c, "idle", "none")
    BY <1>2, <2>1, <2>2, Resting, PhaseNames
  <2>3. CASE Proceed(c, "binding", remote[at[c]])
    <3>1. StillTrue(at[c], remote[at[c]])
      BY DEF StillTrue, DeadCharge, Taken
    <3> QED
      BY <1>2, <2>1, <2>3, <3>1, Onward, PhaseNames
  <2> QED
    BY <1>12, <2>2, <2>3 DEF Search
<1>13. CASE Read(c)
  <2>1. /\ at[c] \in Attempt /\ pc[c] = "reading" /\ remote[at[c]] \in News
        /\ old[c][2] = at[c] /\ Weigh(c, remote[at[c]])
    BY <1>0, <1>13, PhaseNames DEF CallOK, AtWork, Read, OrderTypes, MpOrder
  <2>2. StillTrue(at[c], remote[at[c]])
    BY DEF StillTrue, DeadCharge, Taken
  <2>3. CASE remote[at[c]] = "processed"
    <3>1. Proceed(c, "finalizing", remote[at[c]])
      BY <2>1, <2>3 DEF Weigh
    <3> QED
      BY <1>2, <2>1, <2>2, <2>3, <3>1, Onward, PhaseNames
  <2>4. CASE remote[at[c]] # "processed"
    <3>1. Proceed(c, "applying", remote[at[c]])
      BY <2>1, <2>4 DEF Weigh
    <3> QED
      BY <1>2, <2>1, <2>2, <2>4, <3>1, Onward, PhaseNames
  <2> QED
    BY <2>3, <2>4
<1>14. CASE Die(c)
  BY <1>2, <1>14, Resting, PhaseNames DEF Die
<1> QED
  BY <1>4, <1>5, <1>6, <1>7, <1>8, <1>9, <1>10, <1>11, <1>12, <1>13, <1>14 DEF Unread

(* The steps that write the row of an attempt.                             *)
LEMMA RowMoves ==
  ASSUME CardInv, NEW c \in Call,
         RecordOutcome(c) \/ Apply(c) \/ ExpireAttempt(c) \/ HookGet(c)
  PROVE  Moved(c)
<1>1. OrderTypes /\ CallTypes /\ CallOK(c) /\ OrderBooks /\ InTurn
  BY Types DEF CardInv, OrderBooks
<1>2. /\ at[c] \in Attempt /\ row[at[c]] # "none" /\ pc[c] # "idle"
      /\ news[c] \in News /\ remote[at[c]] \in News /\ UNCHANGED <<order, past, gateway>>
      /\ pc[c] # "expiring" => StillTrue(at[c], news[c])
  BY <1>1, PhaseNames
  DEF CallOK, AtWork, Told, CallTypes, OrderTypes, RecordOutcome, Apply, ExpireAttempt, HookGet
<1>3. UNCHANGED <<remote, past>> /\ row \in [Attempt -> RowStatus]
  BY <1>1, <1>2 DEF gateway, OrderTypes
<1>4. unsafe \subseteq unsafe' /\ unsafe' \subseteq Attempt
  BY <1>1, <1>2 DEF OrderTypes, RecordOutcome, Apply, ExpireAttempt, HookGet
<1>5. \A n \in News : /\ Outcome(n) \in RowStatus \ {"none"}
                      /\ Reconciled(n) \in RowStatus \ {"none"}
  BY DEF Outcome, Reconciled, RowStatus, Active
<1>6. CASE RecordOutcome(c)
  <2>1. row' = [row EXCEPT ![at[c]] = Outcome(news[c])] /\ StillTrue(at[c], news[c])
    BY <1>2, <1>6 DEF RecordOutcome
  <2>2. news[c] = "unsafe" => at[c] \in unsafe'
    BY <1>6 DEF RecordOutcome
  <2>3. \A a \in Attempt : a = at[c] => RowTruth(a)'
    BY <1>3, <2>1, <2>2 DEF RowTruth, StillTrue, Outcome, DeadCharge
  <2>4. Kept(c)
    BY <1>2, <1>4, <1>5, <2>1, <2>3, KeptRow
  <2>5. Proceed(c, "idle", news[c]) \/ Proceed(c, "linking", news[c])
    BY <1>6 DEF RecordOutcome
  <2>6. CASE Proceed(c, "idle", news[c])
    BY <1>2, <2>4, <2>6, Resting, PhaseNames
  <2>7. CASE Proceed(c, "linking", news[c])
    BY <1>2, <2>1, <2>4, <2>7, Onward, PhaseNames
  <2> QED
    BY <2>5, <2>6, <2>7
<1>7. CASE Apply(c)
  <2>1. row' = [row EXCEPT ![at[c]] = Reconciled(news[c])] /\ StillTrue(at[c], news[c])
    BY <1>2, <1>7 DEF Apply
  <2>2. \A a \in Attempt : a = at[c] => RowTruth(a)'
    BY <1>3, <2>1 DEF RowTruth, StillTrue, Reconciled, DeadCharge
  <2>3. Kept(c)
    BY <1>2, <1>4, <1>5, <2>1, <2>2, KeptRow
  <2>4. \/ Proceed(c, "idle", news[c])
        \/ Proceed(c, "marking", news[c]) /\ kind[c] = "job"
    BY <1>7 DEF Apply, AfterPoll
  <2>5. CASE Proceed(c, "idle", news[c])
    BY <1>2, <2>3, <2>5, Resting, PhaseNames
  <2>6. CASE Proceed(c, "marking", news[c]) /\ kind[c] = "job"
    <3>1. past
      BY <1>1, <2>6 DEF CallOK, Allowed
    <3> QED
      BY <1>2, <2>1, <2>3, <2>6, <3>1, Onward, PhaseNames
  <2> QED
    BY <2>4, <2>5, <2>6
<1>8. CASE ExpireAttempt(c)
  <2>1. /\ row' = [row EXCEPT ![at[c]] = "EXPIRED"] /\ past
        /\ Proceed(c, "failing", "none")
    BY <1>1, <1>8 DEF ExpireAttempt, CallOK, Allowed
  <2>2. "EXPIRED" \in RowStatus \ {"none"}
    BY DEF RowStatus
  <2>3. \A a \in Attempt : a = at[c] => RowTruth(a)'
    BY <1>2, <1>3, <2>1 DEF RowTruth
  <2>4. Kept(c)
    BY <1>2, <1>4, <2>1, <2>2, <2>3, KeptRow
  <2>5. StillTrue(at[c], "none")
    BY DEF StillTrue, DeadCharge
  <2> QED
    BY <1>2, <2>1, <2>4, <2>5, Onward, PhaseNames
<1>9. CASE HookGet(c)
  <2> DEFINE n == remote[at[c]]
  <2>1. CASE n = "processed"
    <3>1. Same /\ Proceed(c, "hooking", n)
      BY <1>9, <2>1 DEF HookGet, Same
    <3>2. StillTrue(at[c], n)
      BY DEF StillTrue, DeadCharge, Taken
    <3> QED
      BY <1>2, <2>1, <3>1, <3>2, KeptSame, Onward, PhaseNames
  <2>2. CASE n # "processed"
    <3>1. /\ Proceed(c, "idle", n)
          /\ row' = IF Latest = at[c] THEN [row EXCEPT ![at[c]] = Reconciled(n)] ELSE row
          /\ unsafe' = unsafe
      BY <1>9, <2>2 DEF HookGet
    <3>2. CASE Latest # at[c]
      BY <1>2, <3>1, <3>2, KeptSame, Resting, PhaseNames DEF Same
    <3>3. CASE Latest = at[c]
      <4>1. row' = [row EXCEPT ![at[c]] = Reconciled(n)]
        BY <3>1, <3>3
      <4>2. \A a \in Attempt : a = at[c] => RowTruth(a)'
        BY <1>3, <2>2, <4>1 DEF RowTruth, Reconciled
      <4>3. Kept(c)
        BY <1>2, <1>4, <1>5, <4>1, <4>2, KeptRow
      <4> QED
        BY <1>2, <3>1, <4>3, Resting, PhaseNames
    <3> QED
      BY <3>2, <3>3
  <2> QED
    BY <2>1, <2>2
<1> QED
  BY <1>6, <1>7, <1>8, <1>9

(* The steps that write the session of the order and its refund.           *)
LEMMA SessionMoves ==
  ASSUME CardInv, NEW c \in Call, Link(c) \/ HookLink(c) \/ Bind(c) \/ LateClaim(c) \/ Persist(c)
  PROVE  Moved(c)
<1>1. OrderTypes /\ CallTypes /\ CallOK(c) /\ OrderBooks /\ LateMoney
  BY Types DEF CardInv, OrderBooks
<1>2. /\ at[c] \in Attempt /\ row[at[c]] # "none" /\ pc[c] # "idle"
      /\ news[c] \in News /\ StillTrue(at[c], news[c])
      /\ UNCHANGED <<orderStatus, paid, rows, past, gateway>>
  BY <1>1 DEF CallOK, AtWork, Told, CallTypes, Link, HookLink, Bind, LateClaim, Persist
<1>3. /\ MpOrder(at[c]) \in Session /\ LatePending(at[c]) \in Session
      /\ LateRefunded(at[c]) \in Session
  BY <1>2 DEF Session
<1>4. ASSUME session' = MpOrder(at[c]), UNCHANGED refund PROVE Kept(c)
  <2>1. \A a \in Attempt : session' = LatePending(a) => Lost /\ remote[a] \in Taken
    BY <1>4 DEF MpOrder, LatePending
  <2>2. \A a \in Attempt : session' = MpOrder(a) => row[a] # "none"
    BY <1>2, <1>4 DEF MpOrder
  <2> QED
    BY <1>1, <1>2, <1>3, <1>4, <2>1, <2>2, KeptSession DEF OrderTypes
<1>5. CASE Link(c)
  <2>1. session' = MpOrder(at[c]) /\ UNCHANGED refund /\ pc[c] = "linking"
    BY <1>5 DEF Link
  <2>2. \/ Proceed(c, "finalizing", news[c]) /\ news[c] = "processed"
        \/ Proceed(c, "idle", news[c])
    BY <1>5 DEF Link, AfterLink
  <2>3. CASE Proceed(c, "finalizing", news[c]) /\ news[c] = "processed"
    BY <1>2, <1>4, <2>1, <2>3, Onward, PhaseNames
  <2>4. CASE Proceed(c, "idle", news[c])
    BY <1>2, <1>4, <2>1, <2>4, Resting, PhaseNames
  <2> QED
    BY <2>2, <2>3, <2>4
<1>6. CASE HookLink(c)
  <2>1. /\ session' = MpOrder(at[c]) /\ UNCHANGED refund
        /\ Proceed(c, "finalizing", news[c]) /\ news[c] = "processed"
    BY <1>1, <1>6 DEF HookLink, CallOK, Told
  <2> QED
    BY <1>2, <1>4, <2>1, Onward, PhaseNames
<1>7. CASE Bind(c)
  <2>1. CASE session' = MpOrder(at[c]) /\ Weigh(c, news[c])
    <3>1. UNCHANGED refund
      BY <1>7 DEF Bind
    <3>2. \/ Proceed(c, "finalizing", news[c]) /\ news[c] = "processed"
          \/ Proceed(c, "applying", news[c])
      BY <2>1 DEF Weigh
    <3>3. CASE Proceed(c, "finalizing", news[c]) /\ news[c] = "processed"
      BY <1>2, <1>4, <2>1, <3>1, <3>3, Onward, PhaseNames
    <3>4. CASE Proceed(c, "applying", news[c])
      BY <1>2, <1>4, <2>1, <3>1, <3>4, Onward, PhaseNames
    <3> QED
      BY <3>2, <3>3, <3>4
  <2>2. CASE UNCHANGED session /\ Proceed(c, "idle", "none")
    <3>1. Same
      BY <1>7, <2>2 DEF Bind, Same, order
    <3> QED
      BY <1>2, <2>2, <3>1, KeptSame, Resting, PhaseNames
  <2> QED
    BY <1>7, <2>1, <2>2 DEF Bind
<1>8. CASE LateClaim(c)
  <2>1. /\ session' = LatePending(at[c]) /\ refund' = "PROCESSING" /\ Lost
        /\ remote[at[c]] \in Taken /\ pc[c] = "late"
    BY <1>1, <1>8 DEF LateClaim, CallOK, Allowed
  <2>2. \A a \in Attempt : /\ session' = LatePending(a) => Lost /\ remote[a] \in Taken
                           /\ session' = MpOrder(a) => row[a] # "none"
    BY <2>1 DEF MpOrder, LatePending
  <2>3. Kept(c)
    BY <1>2, <1>3, <2>1, <2>2, KeptSession
  <2>4. /\ pc' = [pc EXCEPT ![c] = "refunding"] /\ old' = [old EXCEPT ![c] = session]
        /\ UNCHANGED <<kind, at, news>> /\ session \in {Unlinked, MpOrder(at[c])}
    BY <1>8 DEF LateClaim, LateClaimable
  <2>5. /\ pc'[c] = "refunding" /\ old'[c] = session /\ kind'[c] = kind[c]
        /\ at'[c] = at[c] /\ news'[c] = news[c] /\ Others(c)
    BY <1>1, <2>4 DEF CallTypes, Others
  <2>6. CallTypes'
    BY <1>1, <2>1, <2>4, PhaseNames DEF CallTypes, OrderTypes
  <2>7. AtWork(c)' /\ Told(c)'
    BY <1>2, <2>3, <2>5 DEF AtWork, Told, StillTrue, Kept, Lasting
  <2>8. Allowed(c)'
    BY <1>1, <1>2, <2>1, <2>3, <2>4, <2>5 DEF CallOK, Allowed, Kept, Lasting, MpOrder
  <2> QED
    BY <2>3, <2>5, <2>6, <2>7, <2>8 DEF Moved, CallOK
<1>9. CASE Persist(c)
  <2>1. CASE refund' = "SUCCEEDED" /\ session' = LateRefunded(at[c]) /\ Finished(c)
    <3>1. \A a \in Attempt : /\ session' = LatePending(a) => Lost /\ remote[a] \in Taken
                             /\ session' = MpOrder(a) => row[a] # "none"
      BY <2>1 DEF MpOrder, LatePending, LateRefunded
    <3>2. Kept(c)
      BY <1>2, <1>3, <2>1, <3>1, KeptSession
    <3> QED
      BY <1>9, <2>1, <3>2, FinishedMoves DEF Persist
  <2>2. CASE UNCHANGED <<refund, session>> /\ (Finished(c) \/ Thrown(c))
    <3>1. Same
      BY <1>9, <2>2 DEF Persist, Same, order
    <3> QED
      BY <1>9, <2>2, <3>1, KeptSame, FinishedMoves, ThrownMoves DEF Persist
  <2> QED
    BY <1>9, <2>1, <2>2 DEF Persist
<1> QED
  BY <1>5, <1>6, <1>7, <1>8, <1>9

(* The refund of a late payment, made or not.                              *)
LEMMA RefundMoves ==
  ASSUME CardInv, NEW c \in Call, RefundMade(c) \/ RefundFails(c)
  PROVE  Moved(c)
<1>1. OrderTypes /\ CallTypes /\ CallOK(c) /\ pc[c] = "refunding"
  BY Types DEF CardInv, RefundMade, RefundFails
<1>2. /\ at[c] \in Attempt /\ row[at[c]] # "none" /\ remote[at[c]] \in Taken /\ Lost
      /\ old[c] \in {Unlinked, MpOrder(at[c])} /\ news[c] \in News /\ StillTrue(at[c], news[c])
  BY <1>1 DEF CallOK, AtWork, Told, Allowed, CallTypes
<1>3. CASE RefundMade(c)
  <2>1. /\ remote' = [remote EXCEPT ![at[c]] = "refunded"] /\ Proceed(c, "receipt", news[c])
        /\ UNCHANGED <<orderStatus, paid, refund, session, rows, past, wire>>
    BY <1>3 DEF RefundMade, order
  <2>2. Kept(c)
    BY <1>1, <1>2, <2>1, KeptRefund DEF OrderTypes
  <2> QED
    BY <1>1, <1>2, <2>1, <2>2, Onward, PhaseNames
<1>4. CASE RefundFails(c)
  <2>1. PICK r \in {remote[at[c]], "refunded"} : remote' = [remote EXCEPT ![at[c]] = r]
    BY <1>4 DEF RefundFails
  <2>2. /\ session' = session \/ session' \in {Unlinked, MpOrder(at[c])}
        /\ refund' \in {"NOT_REQUESTED", "PROCESSING", "SUCCEEDED", "FAILED"}
        /\ UNCHANGED <<orderStatus, paid, rows, past, wire>> /\ Thrown(c)
    BY <1>1, <1>2, <1>4 DEF RefundFails, OrderTypes
  <2>3. Kept(c)
    BY <1>2, <2>1, <2>2, KeptRefund
  <2> QED
    BY <1>1, <2>2, <2>3, ThrownMoves
<1> QED
  BY <1>3, <1>4

(* The confirmation: an order that can be paid has no refund made.         *)
LEMMA FinalizeMoves ==
  ASSUME CardInv, NEW c \in Call, FinalizePayment(c)
  PROVE  Moved(c)
<1>1. OrderTypes /\ CallTypes /\ CallOK(c) /\ OrderBooks /\ pc[c] = "finalizing"
  BY Types DEF CardInv, FinalizePayment
<1>2. /\ at[c] \in Attempt /\ remote[at[c]] \in Taken /\ news[c] = "processed"
      /\ news[c] \in News /\ StillTrue(at[c], news[c])
      /\ UNCHANGED <<orderStatus, refund, session, rows, past, remote, wire>>
  BY <1>1 DEF CallOK, AtWork, Told, StillTrue, CallTypes, FinalizePayment, gateway
<1>3. CASE Lost
  <2>1. Same /\ Proceed(c, "late", news[c])
    BY <1>3 DEF FinalizePayment, Lost, Same, order
  <2> QED
    BY <1>1, <1>2, <1>3, <2>1, KeptSame, Onward, PhaseNames
<1>4. CASE ~ Lost
  <2>1. Finished(c) /\ paid' = TRUE
    BY <1>4 DEF FinalizePayment, Lost
  <2>2. orderStatus # "CANCELADO" /\ remote[at[c]] = "processed"
    BY <1>1, <1>2, <1>4 DEF OrderBooks, LateMoney, Lost, Taken
  <2>3. LateMoney'
    BY <1>1, <1>2, <1>4, <2>1, <2>2 DEF OrderBooks, LateMoney, Lost
  <2>4. InTurn' /\ AskedOnce' /\ Rows' /\ Before' /\ PaidIsHeld'
    BY <1>1, <1>2, <2>2
    DEF OrderBooks, InTurn, Written, AskedOnce, Rows, RowTruth, Before, PaidIsHeld
  <2>5. OrderTypes' /\ Lasting
    BY <1>1, <1>2, <1>4, <2>1 DEF OrderTypes, Lasting
  <2>6. Untouched(c)
    BY <1>2 DEF Untouched, CardInv, CallOK, AtWork
  <2>7. Kept(c)
    BY <2>3, <2>4, <2>5, <2>6 DEF Kept, OrderBooks
  <2> QED
    BY <1>1, <2>1, <2>7, FinishedMoves
<1> QED
  BY <1>3, <1>4

(* A cancellation: the order was not paid.                                 *)
LEMMA KeptCancel ==
  ASSUME CardInv, NEW c \in Call, ~ paid, orderStatus' = "CANCELADO",
         UNCHANGED <<paid, refund, session, rows, past, gateway>>
  PROVE  Kept(c)
<1>1. OrderTypes /\ OrderBooks /\ UNCHANGED <<remote, wire>>
  BY Types DEF CardInv, gateway
<1>2. OrderTypes' /\ Lasting
  BY <1>1 DEF OrderTypes, Lasting, Lost
<1>3. LateMoney'
  BY <1>1 DEF OrderBooks, LateMoney, Lost
<1>4. InTurn' /\ AskedOnce' /\ Rows' /\ Before' /\ PaidIsHeld'
  BY <1>1 DEF OrderBooks, InTurn, Written, AskedOnce, Rows, RowTruth, Before, PaidIsHeld
<1>5. Untouched(c)
  BY <1>1 DEF Untouched, CardInv, CallOK, AtWork
<1> QED
  BY <1>2, <1>3, <1>4, <1>5 DEF Kept, OrderBooks

(* The order is failed, unless it was paid.                                *)
LEMMA FailMoves ==
  ASSUME CardInv, NEW c \in Call, FailOrder(c)
  PROVE  Moved(c)
<1>1. /\ pc[c] # "idle" /\ Proceed(c, "idle", "none")
      /\ UNCHANGED <<paid, refund, session, rows, past, gateway>>
  BY DEF FailOrder
<1>2. CASE orderStatus' = "CANCELADO" /\ ~ paid
  BY <1>1, <1>2, KeptCancel, Resting, PhaseNames
<1>3. CASE UNCHANGED orderStatus
  BY <1>1, <1>3, KeptSame, Resting, PhaseNames DEF Same, order
<1> QED
  BY <1>2, <1>3 DEF FailOrder

(* The request leaves for the gateway, of an attempt that no other call is *)
(* about to ask for.                                                       *)
LEMMA SendMoves ==
  ASSUME CardInv, NEW c \in Call, Send(c)
  PROVE  Moved(c)
<1>1. OrderTypes /\ CallTypes /\ CallOK(c) /\ OrderBooks /\ pc[c] = "charging"
  BY Types DEF CardInv, Send
<1>2. /\ at[c] \in Attempt /\ remote[at[c]] = "none" /\ row[at[c]] # "none"
      /\ wire' = wire \cup {at[c]} /\ Proceed(c, "waiting", "none")
      /\ UNCHANGED <<orderStatus, paid, refund, session, rows, past, remote>>
  BY <1>1 DEF CallOK, AtWork, Send, order
<1>3. OrderTypes' /\ Lasting
  BY <1>1, <1>2 DEF OrderTypes, Lasting, Lost
<1>4. OrderBooks'
  BY <1>1, <1>2
  DEF OrderBooks, InTurn, Written, AskedOnce, LateMoney, Lost, Rows, RowTruth, Before, PaidIsHeld
<1>5. Untouched(c)
  BY <1>1, <1>2 DEF Untouched, CardInv, OneAsks, CallOK, AtWork
<1>6. StillTrue(at[c], "none")
  BY DEF StillTrue, DeadCharge
<1> QED
  BY <1>1, <1>2, <1>3, <1>4, <1>5, <1>6, Onward, PhaseNames DEF Kept

(* The poll reads the latest attempt, and the job turns to it again.       *)
LEMMA LatestMoves ==
  ASSUME CardInv, NEW c \in Call, PollAttempt(c) \/ Mark(c)
  PROVE  Moved(c)
<1>1. OrderTypes /\ CallTypes /\ CallOK(c) /\ InTurn
  BY Types DEF CardInv, OrderBooks
<1>2. /\ Latest \in 0 .. MaxAttempt
      /\ Latest \in Attempt => row[Latest] # "none"
      /\ Latest # 0 => Latest \in Attempt
  BY <1>1, LatestIs DEF Attempt
<1>3. Same /\ Kept(c) /\ UNCHANGED <<rows, past, news>>
  BY KeptSame DEF PollAttempt, Mark, Same
<1>4. CASE PollAttempt(c)
  <2> DEFINE nxt == IF old[c] # Unlinked THEN WhereReading(old[c])
                    ELSE IF ActiveRow(Latest) THEN "searching"
                    ELSE AfterPoll(c, IF Latest = 0 THEN "none" ELSE row[Latest])
  <2>1. /\ pc[c] = "polling" /\ news[c] = "none"
        /\ pc' = [pc EXCEPT ![c] = nxt]
        /\ at' = [at EXCEPT ![c] = IF nxt = "idle" THEN 0 ELSE Latest]
        /\ kind' = [kind EXCEPT ![c] = IF nxt = "idle" THEN "none" ELSE @]
        /\ old' = [old EXCEPT ![c] = IF nxt = "idle" THEN Unlinked ELSE @]
    BY <1>1, <1>4 DEF PollAttempt, CallOK, Told
  <2>2. /\ nxt \in {"idle", "reading", "searching", "marking"}
        /\ nxt = "reading" => old[c] = MpOrder(Latest) /\ old[c] # Unlinked
        /\ nxt = "searching" => Latest \in Attempt
        /\ nxt = "marking" => kind[c] = "job"
    BY DEF WhereReading, ActiveRow, AfterPoll
  <2>3. nxt = "reading" => Latest \in Attempt
    BY <1>1, <1>2, <2>2 DEF CallTypes, Session, MpOrder, LatePending, LateRefunded, Unlinked
  <2> HIDE DEF nxt
  <2>4. /\ pc'[c] = nxt /\ at'[c] = (IF nxt = "idle" THEN 0 ELSE Latest)
        /\ kind'[c] = (IF nxt = "idle" THEN "none" ELSE kind[c])
        /\ old'[c] = (IF nxt = "idle" THEN Unlinked ELSE old[c]) /\ news'[c] = "none"
        /\ Others(c)
    BY <1>1, <1>3, <2>1 DEF CallTypes, Others
  <2>5. CallTypes'
    <3>1. nxt \in Phase /\ "none" \in Kind /\ Unlinked \in Session /\ 0 \in 0 .. MaxAttempt
      BY <2>2 DEF Phase, Kind, Session
    <3> QED
      BY <1>1, <1>2, <1>3, <2>1, <3>1 DEF CallTypes
  <2>6. AtWork(c)'
    BY <1>2, <1>3, <2>2, <2>3, <2>4 DEF AtWork, Attempt
  <2>7. Told(c)' /\ Allowed(c)'
    BY <1>1, <1>3, <2>2, <2>4 DEF Told, StillTrue, DeadCharge, Allowed, CallOK
  <2> QED
    BY <1>3, <2>2, <2>4, <2>5, <2>6, <2>7 DEF Moved, CallOK
<1>5. CASE Mark(c)
  <2>1. PICK phase \in {"expiring", "failing"} :
          /\ pc' = [pc EXCEPT ![c] = phase] /\ (phase = "expiring" => Latest # 0)
    BY <1>5 DEF Mark
  <2>2. pc[c] = "marking" /\ at' = [at EXCEPT ![c] = Latest] /\ UNCHANGED <<kind, news, old>> /\ past
    BY <1>1, <1>5 DEF Mark, CallOK, Allowed
  <2>3. /\ pc'[c] = phase /\ at'[c] = Latest /\ kind'[c] = kind[c] /\ news'[c] = news[c]
        /\ Others(c)
    BY <1>1, <2>1, <2>2 DEF CallTypes, Others
  <2>4. CallTypes'
    BY <1>1, <1>2, <2>1, <2>2, PhaseNames DEF CallTypes
  <2>5. CallOK(c)'
    BY <1>2, <1>3, <2>1, <2>2, <2>3 DEF CallOK, AtWork, Told, Allowed
  <2> QED
    BY <1>3, <2>1, <2>3, <2>4, <2>5 DEF Moved
<1> QED
  BY <1>4, <1>5

-----------------------------------------------------------------------------
(* The calls that begin.                                                   *)
LEMMA BeginMoves ==
  ASSUME CardInv, NEW c \in Call, PollOrder(c, "poll") \/ PollOrder(c, "job") \/ HookFind(c) \/ Consult(c)
  PROVE  Moved(c)
<1>1. OrderTypes /\ CallTypes /\ CallOK(c) /\ OrderBooks
  BY Types DEF CardInv
<1>2. Same /\ Kept(c) /\ UNCHANGED <<rows, past, remote, orderStatus, paid>>
  BY KeptSame DEF PollOrder, HookFind, Consult, Same, order, gateway
<1>3. ASSUME NEW k \in {"poll", "job"}, PollOrder(c, k) PROVE Moved(c)
  <2>1. PICK j \in {"poll", "job"} :
          BeginCall(c, j, "polling", 0, session) /\ (j = "job" => past)
    BY <1>3 DEF PollOrder
  <2>2. 0 \in 0 .. MaxAttempt /\ j \in Kind \ {"none"} /\ "polling" \in Phase \ {"idle"} /\ session \in Session
    BY <1>1 DEF OrderTypes, Kind, Phase
  <2>3. /\ CallTypes' /\ Others(c) /\ pc[c] = "idle" /\ pc'[c] = "polling"
        /\ at'[c] = 0 /\ kind'[c] = j /\ news'[c] = news[c]
    BY <1>1, <2>1, <2>2, BeginFacts
  <2>4. CallOK(c)'
    BY <1>1, <1>2, <2>1, <2>3 DEF CallOK, AtWork, Told, Allowed, StillTrue, DeadCharge, Attempt
  <2> QED
    BY <1>2, <2>3, <2>4 DEF Moved
<1>4. CASE HookFind(c)
  <2>1. PICK a \in Attempt : session = MpOrder(a) /\ BeginCall(c, "webhook", "notified", a, session)
    BY <1>4 DEF HookFind
  <2>2. /\ a \in 0 .. MaxAttempt /\ "webhook" \in Kind \ {"none"}
        /\ "notified" \in Phase \ {"idle"} /\ session \in Session
    BY <1>1 DEF OrderTypes, Kind, Phase, Attempt
  <2>3. /\ CallTypes' /\ Others(c) /\ pc[c] = "idle" /\ pc'[c] = "notified"
        /\ at'[c] = a /\ kind'[c] = "webhook" /\ news'[c] = news[c]
    BY <1>1, <2>1, <2>2, BeginFacts
  <2>4. row[a] # "none"
    BY <1>1, <2>1 DEF OrderBooks, LateMoney
  <2>5. CallOK(c)'
    BY <1>1, <1>2, <2>3, <2>4 DEF CallOK, AtWork, Told, Allowed, StillTrue, DeadCharge
  <2> QED
    BY <1>2, <2>3, <2>5 DEF Moved
<1>5. CASE Consult(c)
  <2>1. PICK a \in Attempt : session = LatePending(a) /\ BeginCall(c, "consult", "late", a, session)
    BY <1>5 DEF Consult
  <2>2. /\ a \in 0 .. MaxAttempt /\ "consult" \in Kind \ {"none"}
        /\ "late" \in Phase \ {"idle"} /\ session \in Session
    BY <1>1 DEF OrderTypes, Kind, Phase, Attempt
  <2>3. /\ CallTypes' /\ Others(c) /\ pc[c] = "idle" /\ pc'[c] = "late"
        /\ at'[c] = a /\ kind'[c] = "consult" /\ news'[c] = news[c]
    BY <1>1, <2>1, <2>2, BeginFacts
  <2>4. Lost /\ remote[a] \in Taken /\ row[a] # "none"
    BY <1>1, <2>1 DEF OrderBooks, LateMoney, AskedOnce, Taken
  <2>5. CallOK(c)'
    BY <1>1, <1>2, <2>3, <2>4 DEF CallOK, AtWork, Told, Allowed, StillTrue, DeadCharge, Lost
  <2> QED
    BY <1>2, <2>3, <2>5 DEF Moved
<1> QED
  BY <1>3, <1>4, <1>5

(* A step of one call leaves the invariant to all of them.                 *)
LEMMA MovedKeeps ==
  ASSUME CardInv, NEW c \in Call, Moved(c) PROVE CardInv'
<1>1. \A d \in Call : CallOK(d)'
  <2> SUFFICES ASSUME NEW d \in Call, d # c PROVE CallOK(d)'
    BY DEF Moved
  <2> QED
    BY StillOK DEF CardInv, Moved, Kept, Untouched, Others
<1>2. OneAsks'
  BY DEF CardInv, OneAsks, Moved, Others
<1>3. (OrderTypes /\ CallTypes)' => CardTypeOK'
  BY Types, PTL
<1> QED
  BY <1>1, <1>2, <1>3 DEF CardInv, Moved, Kept

(* A new attempt is written when all before it are dead.                   *)
LEMMA WriteKeeps ==
  ASSUME CardInv, NEW c \in Call, Checkout(c) \/ Retry(c) PROVE CardInv'
<1>1. OrderTypes /\ CallTypes /\ CallOK(c) /\ OrderBooks /\ InTurn
  BY Types DEF CardInv, OrderBooks
<1>2. /\ Latest \in 0 .. MaxAttempt
      /\ \A a \in Attempt : row[a] # "none" <=> a <= Latest
  BY <1>1, LatestIs
<1>3. PICK k \in {"checkout", "retry"} : Write(c, k)
  BY DEF Checkout, Retry
<1> DEFINE n == Latest + 1
<1>4. /\ n \in Attempt /\ row[n] = "none" /\ remote[n] = "none" /\ n \notin wire
      /\ row' = [row EXCEPT ![n] = "PENDING"]
      /\ BeginCall(c, k, "charging", n, Unlinked)
      /\ UNCHANGED <<orderStatus, paid, refund, unsafe, past, remote, wire>>
  <2>1. n \in Attempt
    BY <1>2, <1>3 DEF Write, Attempt
  <2>2. row[n] = "none"
    BY <1>2, <2>1
  <2> QED
    BY <1>1, <1>3, <2>1, <2>2 DEF Write, gateway, OrderBooks, AskedOnce
<1>5. session' \in {session, Unlinked}
  BY DEF Checkout, Retry
<1>6. \A a \in Attempt : a < n => remote[a] \in DeadCharge \/ a \in unsafe
  <2>1. CASE Checkout(c)
    BY <1>2, <2>1 DEF Checkout, Attempt
  <2>2. CASE Retry(c)
    <3> SUFFICES ASSUME NEW a \in Attempt, a < n PROVE remote[a] \in DeadCharge \/ a \in unsafe
      OBVIOUS
    <3>1. row[a] # "none" /\ ~ past /\ ~ Lost /\ row[a] \notin Active
      BY <1>2, <2>2 DEF Attempt, Retry, Lost, ActiveRow
    <3>2. row[a] \in {"DECLINED", "FAILED", "CANCELED", "EXPIRED", "REFUNDED"}
      BY <1>1, <3>1 DEF OrderTypes, RowStatus
    <3> QED
      BY <1>1, <3>1, <3>2 DEF OrderBooks, Rows, RowTruth, LateMoney, DeadCharge
  <2> QED
    BY <2>1, <2>2
<1> HIDE DEF n
<1>7. row'[n] = "PENDING" /\ \A a \in Attempt \ {n} : row'[a] = row[a]
  BY <1>1, <1>4 DEF OrderTypes
<1>8. OrderTypes'
  BY <1>1, <1>4, <1>5 DEF OrderTypes, Session, RowStatus, Active
<1>9. Lasting
  BY <1>4, <1>7 DEF Lasting, Lost
<1>10. InTurn'
  <2>1. n \in 1 .. MaxAttempt /\ Written' = 1 .. n
    BY <1>2, <1>4, <1>7 DEF Written, Attempt, n
  <2> QED
    BY <2>1 DEF InTurn
<1>11. AskedOnce' /\ PaidIsHeld' /\ Rows'
  BY <1>1, <1>4, <1>7 DEF OrderBooks, AskedOnce, PaidIsHeld, Rows, RowTruth
<1>12. LateMoney'
  BY <1>1, <1>4, <1>5, <1>7 DEF OrderBooks, LateMoney, Lost, MpOrder, LatePending, Unlinked
<1>13. Before'
  BY <1>1, <1>4, <1>6, <1>7 DEF OrderBooks, Before, Attempt
<1>14. /\ CallTypes' /\ Others(c) /\ pc[c] = "idle" /\ pc'[c] = "charging"
       /\ at'[c] = n /\ kind'[c] = k /\ news'[c] = news[c]
  <2>1. /\ n \in 0 .. MaxAttempt /\ k \in Kind \ {"none"} /\ "charging" \in Phase \ {"idle"}
        /\ Unlinked \in Session
    BY <1>4 DEF Attempt, Kind, Phase, Session
  <2> QED
    BY <1>1, <1>4, <2>1, BeginFacts
<1>15. CallOK(c)'
  BY <1>1, <1>4, <1>7, <1>14 DEF CallOK, AtWork, Told, Allowed, StillTrue, DeadCharge
<1>16. \A d \in Call \ {c} : CallOK(d)'
  <2> SUFFICES ASSUME NEW d \in Call, d # c PROVE CallOK(d)'
    OBVIOUS
  <2>1. CardTypeOK /\ CallOK(d)
    BY DEF CardInv
  <2>2. /\ pc'[d] = pc[d] /\ kind'[d] = kind[d] /\ at'[d] = at[d]
        /\ news'[d] = news[d] /\ old'[d] = old[d]
    BY <1>14 DEF Others
  <2>3. pc[d] = "charging" => remote'[at[d]] = "none" /\ at[d] \notin wire'
    BY <1>4, <2>1 DEF CallOK, AtWork
  <2> QED
    BY <1>9, <2>1, <2>2, <2>3, StillOK
<1>17. OneAsks'
  <2>1. \A d \in Call \ {c} : pc[d] = "charging" => at[d] # n
    BY <1>4 DEF CardInv, CallOK, AtWork
  <2> QED
    BY <1>14, <2>1 DEF CardInv, OneAsks, Others
<1>18. CardTypeOK'
  <2>1. (OrderTypes /\ CallTypes)' => CardTypeOK'
    BY Types, PTL
  <2> QED
    BY <1>8, <1>14, <2>1
<1> QED
  BY <1>10, <1>11, <1>12, <1>13, <1>15, <1>16, <1>17, <1>18 DEF CardInv, OrderBooks

(* The gateway, time and the cancellation leave the calls where they are.  *)
LEMMA OutsideKeeps ==
  ASSUME CardInv, UNCHANGED calls, OrderBooks', OrderTypes', Lasting,
         \A d \in Call : pc[d] = "charging" => remote'[at[d]] = "none" /\ at[d] \notin wire'
  PROVE  CardInv'
<1>1. UNCHANGED <<pc, kind, at, news, old>>
  BY DEF calls
<1>2. \A d \in Call : CallOK(d)'
  BY <1>1, StillOK DEF CardInv
<1>3. OneAsks'
  BY <1>1 DEF CardInv, OneAsks
<1>4. CallTypes'
  BY <1>1, Types DEF CardInv, CallTypes
<1>5. (OrderTypes /\ CallTypes)' => CardTypeOK'
  BY Types, PTL
<1> QED
  BY <1>2, <1>3, <1>4, <1>5 DEF CardInv

(* A charge is decided: it was open, or only asked for.                    *)
LEMMA GatewayKeeps ==
  ASSUME CardInv, NEW a \in Attempt, Take(a) \/ Conclude(a) PROVE CardInv'
<1>1. OrderTypes /\ OrderBooks /\ \A d \in Call : CallOK(d)
  BY Types DEF CardInv
<1>2. PICK r \in Remote \ {"none", "refunded"} : remote' = [remote EXCEPT ![a] = r]
  BY DEF Take, Conclude, Remote
<1>3. /\ remote[a] \in {"none", "open"} /\ row[a] # "none"
      /\ wire' \subseteq wire /\ a \notin wire'
      /\ remote[a] = "open" => r # "refused"
      /\ UNCHANGED <<orderStatus, paid, refund, session, rows, past, calls>>
  <2>1. CASE Take(a)
    BY <1>1, <2>1 DEF Take, OrderBooks, AskedOnce, order
  <2>2. CASE Conclude(a)
    <3>1. \E q \in {"processed", "failed", "expired", "cancelled"} : remote' = [remote EXCEPT ![a] = q]
      BY <2>2 DEF Conclude
    <3>2. r # "refused"
      BY <1>1, <1>2, <3>1 DEF OrderTypes
    <3> QED
      BY <1>1, <2>2, <3>2 DEF Conclude, OrderBooks, AskedOnce, order
  <2> QED
    BY <2>1, <2>2
<1>4. remote'[a] = r /\ \A b \in Attempt \ {a} : remote'[b] = remote[b]
  BY <1>1, <1>2 DEF OrderTypes
<1>5. OrderTypes'
  BY <1>1, <1>2, <1>3 DEF OrderTypes
<1>6. Lasting
  BY <1>2, <1>3, <1>4 DEF Lasting, Lost, DeadCharge, Taken
<1>7. InTurn' /\ AskedOnce'
  BY <1>1, <1>3, <1>4 DEF OrderBooks, InTurn, Written, AskedOnce
<1>8. LateMoney' /\ PaidIsHeld'
  BY <1>1, <1>2, <1>3, <1>4 DEF OrderBooks, LateMoney, Lost, Taken, PaidIsHeld
<1>9. Rows' /\ Before'
  BY <1>1, <1>3, <1>4 DEF OrderBooks, Rows, RowTruth, Before, DeadCharge
<1>10. \A d \in Call : pc[d] = "charging" => remote'[at[d]] = "none" /\ at[d] \notin wire'
  <2> SUFFICES ASSUME NEW d \in Call, pc[d] = "charging"
               PROVE  remote'[at[d]] = "none" /\ at[d] \notin wire'
    OBVIOUS
  <2>1. at[d] \in Attempt /\ remote[at[d]] = "none" /\ at[d] \notin wire
    BY <1>1 DEF CallOK, AtWork
  <2>2. at[d] # a
    BY <2>1, <1>2, <1>3 DEF Take, Conclude
  <2> QED
    BY <1>3, <1>4, <2>1, <2>2
<1> QED
  BY <1>3, <1>5, <1>6, <1>7, <1>8, <1>9, <1>10, OutsideKeeps DEF OrderBooks

(* A lost request, the cancellation and the end of the window.             *)
LEMMA RestKeeps ==
  ASSUME CardInv, CancelUnpaid \/ Lapse \/ (\E a \in Attempt : Drop(a)) PROVE CardInv'
<1>1. OrderTypes /\ OrderBooks /\ \A d \in Call : CallOK(d)
  BY Types DEF CardInv
<1>2. /\ UNCHANGED <<paid, refund, session, rows, remote, calls>> /\ wire' \subseteq wire
      /\ past' \in BOOLEAN /\ (past => past')
      /\ UNCHANGED orderStatus \/ (orderStatus' = "CANCELADO" /\ ~ paid /\ orderStatus = "PENDENTE")
  BY <1>1 DEF CancelUnpaid, Lapse, Drop, order, gateway, OrderTypes
<1>3. OrderTypes'
  <2>1. orderStatus' \in {"PENDENTE", "CANCELADO"}
    BY <1>1, <1>2 DEF OrderTypes
  <2> QED
    BY <1>1, <1>2, <2>1 DEF OrderTypes
<1>4. Lasting
  BY <1>2 DEF Lasting, Lost
<1>5. InTurn' /\ AskedOnce' /\ Rows' /\ Before' /\ PaidIsHeld'
  BY <1>1, <1>2 DEF OrderBooks, InTurn, Written, AskedOnce, Rows, RowTruth, Before, PaidIsHeld
<1>6. LateMoney'
  BY <1>1, <1>2 DEF OrderBooks, LateMoney, Lost
<1>7. \A d \in Call : pc[d] = "charging" => remote'[at[d]] = "none" /\ at[d] \notin wire'
  BY <1>1, <1>2 DEF CallOK, AtWork
<1> QED
  BY <1>2, <1>3, <1>4, <1>5, <1>6, <1>7, OutsideKeeps DEF OrderBooks

LEMMA InitCardInv == CardInit => CardInv
<1> SUFFICES ASSUME CardInit PROVE CardInv
  OBVIOUS
<1>1. CardTypeOK
  <2>1. "none" \in RowStatus \cap Remote \cap Kind /\ "idle" \in Phase
    BY DEF RowStatus, Remote, Phase, Kind
  <2>2. Unlinked \in Session /\ 0 \in 0 .. MaxAttempt
    BY DEF Session
  <2> QED
    BY <2>1, <2>2 DEF CardInit, CardTypeOK
<1>2. \A c \in Call : CallOK(c)
  BY DEF CardInit, CallOK, AtWork, Told, Allowed, StillTrue, DeadCharge, Attempt
<1>3. OneAsks
  BY DEF CardInit, OneAsks
<1>4. InTurn
  <2>1. Written = 1 .. 0
    BY DEF CardInit, Written
  <2> QED
    BY <2>1 DEF InTurn
<1>5. AskedOnce /\ LateMoney /\ Rows /\ Before /\ PaidIsHeld
  BY DEF CardInit, AskedOnce, LateMoney, Lost, Rows, RowTruth, Before, PaidIsHeld, Unlinked, LatePending,
         MpOrder
<1> QED
  BY <1>1, <1>2, <1>3, <1>4, <1>5 DEF CardInv, OrderBooks

LEMMA NextCardInv == CardInv /\ [CardNext]_cardVars => CardInv'
<1> SUFFICES ASSUME CardInv, [CardNext]_cardVars PROVE CardInv'
  OBVIOUS
<1>1. ASSUME NEW c \in Call, Step(c) PROVE CardInv'
  <2>1. Moved(c)
    BY <1>1, UnreadMoves, RowMoves, SessionMoves, RefundMoves, FinalizeMoves, FailMoves, SendMoves,
       LatestMoves DEF Step, Unread
  <2> QED
    BY <2>1, MovedKeeps
<1>2. ASSUME NEW c \in Call, Die(c) PROVE CardInv'
  BY <1>2, UnreadMoves, MovedKeeps DEF Unread
<1>3. ASSUME NEW c \in Call, PollOrder(c, "poll") \/ PollOrder(c, "job") \/ HookFind(c) \/ Consult(c)
      PROVE  CardInv'
  BY <1>3, BeginMoves, MovedKeeps
<1>4. ASSUME NEW c \in Call, Checkout(c) \/ Retry(c) PROVE CardInv'
  BY <1>4, WriteKeeps
<1>5. ASSUME NEW a \in Attempt, Take(a) \/ Drop(a) \/ Conclude(a) PROVE CardInv'
  BY <1>5, GatewayKeeps, RestKeeps
<1>6. CASE CancelUnpaid \/ Lapse
  BY <1>6, RestKeeps
<1>7. CASE UNCHANGED cardVars
  <2>1. Same /\ UNCHANGED calls
    BY <1>7 DEF cardVars, Same
  <2>2. UNCHANGED <<remote, wire>>
    BY <2>1 DEF Same, gateway
  <2> QED
    BY <2>1, <2>2, SameBooks, OutsideKeeps DEF CardInv, CallOK, AtWork
<1> QED
  BY <1>1, <1>2, <1>3, <1>4, <1>5, <1>6, <1>7 DEF CardNext

-----------------------------------------------------------------------------
(* The invariant holds in every state of every behaviour.                  *)
THEOREM CardInvariance == CardSpec => []CardInv
<1> QED
  BY InitCardInv, NextCardInv, PTL DEF CardSpec

(* The rows, columns and calls have the values of the schema.              *)
THEOREM CardTypeSafety == CardSpec => []CardTypeOK
<1>1. CardInv => CardTypeOK
  BY DEF CardInv
<1> QED
  BY <1>1, CardInvariance, PTL

(* Of two charges of an order that have taken the customer's money or      *)
(* still can, the earlier one was given up for want of a safe challenge    *)
(* address, whatever answers were lost and whatever was retried            *)
(* (OrderPaymentAttemptRepository.claimCardRetry).                         *)
THEOREM ChargeSafety == CardSpec => []OneChargeOrUnsafe
<1>1. CardInv => OneChargeOrUnsafe
  <2> SUFFICES ASSUME CardInv, NEW a \in TakenOrLive, NEW b \in TakenOrLive, a < b
               PROVE  a \in unsafe
    BY DEF OneChargeOrUnsafe
  <2>1. OrderBooks /\ \A c \in Call : CallOK(c)
    BY DEF CardInv
  <2>2. /\ a \in Attempt /\ remote[a] \notin DeadCharge
        /\ b \in Attempt /\ row[b] # "none"
    BY <2>1 DEF TakenOrLive, OrderBooks, AskedOnce, CallOK, AtWork, DeadCharge
  <2> QED
    BY <2>1, <2>2 DEF OrderBooks, Before
<1> QED
  BY <1>1, CardInvariance, PTL

(* While the gateway asks for no challenge without a safe address, at most *)
(* one charge of an order has taken the customer's money or still can.     *)
THEOREM SafeChargeSafety == CardSpec => [](unsafe = {} => OneChargeAtRisk)
<1>1. OneChargeOrUnsafe /\ unsafe = {} => OneChargeAtRisk
  <2> SUFFICES ASSUME OneChargeOrUnsafe, unsafe = {} PROVE Cardinality(TakenOrLive) <= 1
    BY DEF OneChargeAtRisk
  <2>1. \A a, b \in TakenOrLive : a = b
    <3>1. \A a \in TakenOrLive : a \in 1 .. MaxAttempt
      BY DEF TakenOrLive, Attempt
    <3>2. \A a, b \in TakenOrLive : ~ (a < b)
      BY DEF OneChargeOrUnsafe
    <3> QED
      BY <3>1, <3>2
  <2>2. CASE TakenOrLive = {}
    BY <2>2, FS_EmptySet
  <2>3. CASE TakenOrLive # {}
    <3>1. PICK a : a \in TakenOrLive
      BY <2>3
    <3>2. TakenOrLive = {a}
      BY <2>1, <3>1
    <3> QED
      BY <3>2, FS_Singleton
  <2> QED
    BY <2>2, <2>3
<1> QED
  BY <1>1, ChargeSafety, PTL

(* A row that lets the customer try again speaks of a charge that is dead  *)
(* at the gateway, unless it is the FAILED one of a challenge without a    *)
(* safe address (GetOrderCardPaymentStatusService, the webhook, the        *)
(* expiration job and the charging request write it).                      *)
THEOREM DeclinedSafety == CardSpec => []DeclinedIsDead
<1>1. CardInv => DeclinedIsDead
  BY DEF CardInv, OrderBooks, Rows, RowTruth, AskedOnce, DeclinedIsDead
<1> QED
  BY <1>1, CardInvariance, PTL

(* A paid order has its money at the gateway: no late refund returns it    *)
(* (FinalizeOrderCardPaymentService, ReconcileLateCancelledPaymentService).*)
THEOREM PaidSafety == CardSpec => []PaidIsHeld
<1>1. CardInv => PaidIsHeld
  BY DEF CardInv, OrderBooks
<1> QED
  BY <1>1, CardInvariance, PTL

=============================================================================
