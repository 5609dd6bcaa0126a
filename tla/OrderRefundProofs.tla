------------------------- MODULE OrderRefundProofs -------------------------
(***************************************************************************)
(* Safety of the refund for any number of concurrent calls.                *)
(*                                                                         *)
(* The strengthening makes the claim a lock: between its claim and its end *)
(* a call that may still ask for money is the only one (OneHolder), the    *)
(* row is not claimable meanwhile (Held), and at Asaas nothing was sent    *)
(* while the row is claimable or the holder has not sent yet (AsaasQuiet). *)
(* The two kinds of refund exclude each other, because an order is never   *)
(* paid after its cancellation (Kinds).                                    *)
(***************************************************************************)
EXTENDS OrderRefund, TLAPS

USE RefundAssumption DEF RefundAssumption

Active(c) == pc[c] # "idle" \/ c \in wire

(* A call that claimed the row and has not ended.                          *)
Holder(c) ==
  /\ ~Consulting(c)
  /\ pc[c] \in {"asking", "posting", "waiting", "answered", "refused", "receipt"}

(* ... and has not sent its request.                                       *)
Early(c) == ~Consulting(c) /\ pc[c] \in {"asking", "posting"}

Quiet == wire = {} /\ AskedInAll = 0

Kinds ==
  /\ \A c \in Call : Active(c) =>
       /\ kind[c] = "cancel" => paid
       /\ kind[c] = "late" => ~paid /\ status = "CANCELADO"
  /\ asked["cancel"] > 0 => paid
  /\ asked["late"] > 0 => ~paid /\ status = "CANCELADO"

Money ==
  /\ returned <= AskedInAll
  /\ via = "MERCADO_PAGO" => \A k \in Kind : asked[k] <= 1
  /\ \A c \in Call : pc[c] = "receipt" => returned > 0

Claims ==
  \A c \in Call :
    /\ pc[c] = "claiming" => seenRefund[c] \in {"NOT_REQUESTED", "FAILED"}
    /\ pc[c] \in {"posting", "waiting", "answered", "refused"} => ~Consulting(c)
    /\ pc[c] = "receipt" /\ Consulting(c) => via = "ASAAS"

OneHolder == \A c, d \in Call : Holder(c) /\ Holder(d) => c = d

Held ==
  \A c \in Call :
    /\ Holder(c) => refund \in {"PROCESSING", "SUCCEEDED"}
    /\ Early(c) => refund = "PROCESSING"

AsaasQuiet ==
  via = "ASAAS" =>
    /\ refund \in {"NOT_REQUESTED", "FAILED"} => Quiet
    /\ \A c \in Call : Early(c) \/ pc[c] = "refused" => Quiet
    /\ \A c \in Call : c \in wire => wire = {c} /\ AskedInAll = 0
    /\ AskedInAll <= 1

IInv ==
  /\ TypeOK
  /\ Kinds
  /\ Money
  /\ Claims
  /\ OneHolder
  /\ Held
  /\ AsaasQuiet
  /\ RestockedOnce
  /\ CancelledIsReturned

LEMMA InitIInv == Init => IInv
  <1> SUFFICES ASSUME Init PROVE IInv
    OBVIOUS
  <1>1. TypeOK
    BY DEF Init, TypeOK, Status, Refund, Kind, Phase
  <1>2. Kinds /\ Money /\ Claims
    BY DEF Init, Kinds, Money, Claims, Active, AskedInAll, Kind
  <1>3. OneHolder /\ Held /\ AsaasQuiet
    BY DEF Init, OneHolder, Held, AsaasQuiet, Holder, Early, Quiet, AskedInAll, Kind
  <1>4. RestockedOnce /\ CancelledIsReturned
    BY DEF Init, RestockedOnce, CancelledIsReturned
  <1> QED
    BY <1>1, <1>2, <1>3, <1>4 DEF IInv

LEMMA PayPreserves ==
  ASSUME IInv, Pay PROVE IInv'
  <1> USE DEF Pay, order, provider, calls
  <1>0. TypeOK'
    BY DEF IInv, TypeOK, Status, Refund, Kind, Phase, Consulting
  <1>1. Kinds'
    BY DEF IInv, TypeOK, Kinds, Active, AskedInAll, Kind
  <1>2. Money' /\ Claims'
    BY DEF IInv, TypeOK, Money, Claims, AskedInAll, Consulting, Kind, Kinds
  <1>3. OneHolder' /\ Held'
    BY DEF IInv, TypeOK, OneHolder, Held, Claims, Holder, Early, Consulting, AsaasQuiet, Quiet, Money
  <1>4. AsaasQuiet'
    BY DEF IInv, TypeOK, OneHolder, Held, Claims, Holder, Early, Consulting, AsaasQuiet, Quiet, AskedInAll
  <1>5. RestockedOnce' /\ CancelledIsReturned'
    BY DEF IInv, TypeOK, RestockedOnce, CancelledIsReturned, Money, Kinds, Active, AskedInAll, Claims
  <1> QED
    BY <1>0, <1>1, <1>2, <1>3, <1>4, <1>5 DEF IInv

LEMMA ClosePreserves ==
  ASSUME IInv, Close PROVE IInv'
  <1> USE DEF Close, order, provider, calls
  <1>0. TypeOK'
    BY DEF IInv, TypeOK, Status, Refund, Kind, Phase, Consulting
  <1>1. Kinds'
    BY DEF IInv, TypeOK, Kinds, Active, AskedInAll, Kind
  <1>2. Money' /\ Claims'
    BY DEF IInv, TypeOK, Money, Claims, AskedInAll, Consulting, Kind, Kinds
  <1>3. OneHolder' /\ Held'
    BY DEF IInv, TypeOK, OneHolder, Held, Claims, Holder, Early, Consulting, AsaasQuiet, Quiet, Money
  <1>4. AsaasQuiet'
    BY DEF IInv, TypeOK, OneHolder, Held, Claims, Holder, Early, Consulting, AsaasQuiet, Quiet, AskedInAll
  <1>5. RestockedOnce' /\ CancelledIsReturned'
    BY DEF IInv, TypeOK, RestockedOnce, CancelledIsReturned, Money, Kinds, Active, AskedInAll, Claims
  <1> QED
    BY <1>0, <1>1, <1>2, <1>3, <1>4, <1>5 DEF IInv

LEMMA FinalizePaymentPreserves ==
  ASSUME IInv, FinalizePayment PROVE IInv'
  <1> USE DEF FinalizePayment, MarkPaid, order, provider, calls
  <1>0. TypeOK'
    BY DEF IInv, TypeOK, Status, Refund, Kind, Phase, Consulting
  <1>1. Kinds'
    BY DEF IInv, TypeOK, Kinds, Active, AskedInAll, Kind
  <1>2. Money' /\ Claims'
    BY DEF IInv, TypeOK, Money, Claims, AskedInAll, Consulting, Kind, Kinds
  <1>3. OneHolder' /\ Held'
    BY DEF IInv, TypeOK, OneHolder, Held, Claims, Holder, Early, Consulting, AsaasQuiet, Quiet, Money
  <1>4. AsaasQuiet'
    BY DEF IInv, TypeOK, OneHolder, Held, Claims, Holder, Early, Consulting, AsaasQuiet, Quiet, AskedInAll
  <1>5. RestockedOnce' /\ CancelledIsReturned'
    BY DEF IInv, TypeOK, RestockedOnce, CancelledIsReturned, Money, Kinds, Active, AskedInAll, Claims
  <1> QED
    BY <1>0, <1>1, <1>2, <1>3, <1>4, <1>5 DEF IInv

LEMMA ConfirmManuallyPreserves ==
  ASSUME IInv, ConfirmManually PROVE IInv'
  <1> USE DEF ConfirmManually, MarkPaid, order, provider, calls
  <1>0. TypeOK'
    BY DEF IInv, TypeOK, Status, Refund, Kind, Phase, Consulting
  <1>1. Kinds'
    BY DEF IInv, TypeOK, Kinds, Active, AskedInAll, Kind
  <1>2. Money' /\ Claims'
    BY DEF IInv, TypeOK, Money, Claims, AskedInAll, Consulting, Kind, Kinds
  <1>3. OneHolder' /\ Held'
    BY DEF IInv, TypeOK, OneHolder, Held, Claims, Holder, Early, Consulting, AsaasQuiet, Quiet, Money
  <1>4. AsaasQuiet'
    BY DEF IInv, TypeOK, OneHolder, Held, Claims, Holder, Early, Consulting, AsaasQuiet, Quiet, AskedInAll
  <1>5. RestockedOnce' /\ CancelledIsReturned'
    BY DEF IInv, TypeOK, RestockedOnce, CancelledIsReturned, Money, Kinds, Active, AskedInAll, Claims
  <1> QED
    BY <1>0, <1>1, <1>2, <1>3, <1>4, <1>5 DEF IInv

LEMMA CancelUnpaidPreserves ==
  ASSUME IInv, CancelUnpaid PROVE IInv'
  <1> USE DEF CancelUnpaid, CancelOrder, Barred, order, provider, calls
  <1>0. TypeOK'
    BY DEF IInv, TypeOK, Status, Refund, Kind, Phase, Consulting
  <1>1. Kinds'
    BY DEF IInv, TypeOK, Kinds, Active, AskedInAll, Kind
  <1>2. Money' /\ Claims'
    BY DEF IInv, TypeOK, Money, Claims, AskedInAll, Consulting, Kind, Kinds
  <1>3. OneHolder' /\ Held'
    BY DEF IInv, TypeOK, OneHolder, Held, Claims, Holder, Early, Consulting, AsaasQuiet, Quiet, Money
  <1>4. AsaasQuiet'
    BY DEF IInv, TypeOK, OneHolder, Held, Claims, Holder, Early, Consulting, AsaasQuiet, Quiet, AskedInAll
  <1>5. RestockedOnce' /\ CancelledIsReturned'
    BY DEF IInv, TypeOK, RestockedOnce, CancelledIsReturned, Money, Kinds, Active, AskedInAll, Claims
  <1> QED
    BY <1>0, <1>1, <1>2, <1>3, <1>4, <1>5 DEF IInv

LEMMA FailPaymentPreserves ==
  ASSUME IInv, FailPayment PROVE IInv'
  <1> USE DEF FailPayment, CancelUnpaid, CancelOrder, Barred, order, provider, calls
  <1>0. TypeOK'
    BY DEF IInv, TypeOK, Status, Refund, Kind, Phase, Consulting
  <1>1. Kinds'
    BY DEF IInv, TypeOK, Kinds, Active, AskedInAll, Kind
  <1>2. Money' /\ Claims'
    BY DEF IInv, TypeOK, Money, Claims, AskedInAll, Consulting, Kind, Kinds
  <1>3. OneHolder' /\ Held'
    BY DEF IInv, TypeOK, OneHolder, Held, Claims, Holder, Early, Consulting, AsaasQuiet, Quiet, Money
  <1>4. AsaasQuiet'
    BY DEF IInv, TypeOK, OneHolder, Held, Claims, Holder, Early, Consulting, AsaasQuiet, Quiet, AskedInAll
  <1>5. RestockedOnce' /\ CancelledIsReturned'
    BY DEF IInv, TypeOK, RestockedOnce, CancelledIsReturned, Money, Kinds, Active, AskedInAll, Claims
  <1> QED
    BY <1>0, <1>1, <1>2, <1>3, <1>4, <1>5 DEF IInv

LEMMA AdvancePreserves ==
  ASSUME IInv, \E to \in Status : Advance(to) PROVE IInv'
  <1> USE DEF Advance, Barred, Transition, order, provider, calls
  <1>0. TypeOK'
    BY DEF IInv, TypeOK, Status, Refund, Kind, Phase, Consulting
  <1>1. Kinds'
    BY DEF IInv, TypeOK, Kinds, Active, AskedInAll, Kind
  <1>2. Money' /\ Claims'
    BY DEF IInv, TypeOK, Money, Claims, AskedInAll, Consulting, Kind, Kinds
  <1>3. OneHolder' /\ Held'
    BY DEF IInv, TypeOK, OneHolder, Held, Claims, Holder, Early, Consulting, AsaasQuiet, Quiet, Money
  <1>4. AsaasQuiet'
    BY DEF IInv, TypeOK, OneHolder, Held, Claims, Holder, Early, Consulting, AsaasQuiet, Quiet, AskedInAll
  <1>5. RestockedOnce' /\ CancelledIsReturned'
    BY DEF IInv, TypeOK, RestockedOnce, CancelledIsReturned, Money, Kinds, Active, AskedInAll, Claims
  <1> QED
    BY <1>0, <1>1, <1>2, <1>3, <1>4, <1>5 DEF IInv

LEMMA CompletePreserves ==
  ASSUME IInv, Complete PROVE IInv'
  <1> USE DEF Complete, order, provider, calls
  <1>0. TypeOK'
    BY DEF IInv, TypeOK, Status, Refund, Kind, Phase, Consulting
  <1>1. Kinds'
    BY DEF IInv, TypeOK, Kinds, Active, AskedInAll, Kind
  <1>2. Money' /\ Claims'
    BY DEF IInv, TypeOK, Money, Claims, AskedInAll, Consulting, Kind, Kinds
  <1>3. OneHolder' /\ Held'
    BY DEF IInv, TypeOK, OneHolder, Held, Claims, Holder, Early, Consulting, AsaasQuiet, Quiet, Money
  <1>4. AsaasQuiet'
    BY DEF IInv, TypeOK, OneHolder, Held, Claims, Holder, Early, Consulting, AsaasQuiet, Quiet, AskedInAll
  <1>5. RestockedOnce' /\ CancelledIsReturned'
    BY DEF IInv, TypeOK, RestockedOnce, CancelledIsReturned, Money, Kinds, Active, AskedInAll, Claims
  <1> QED
    BY <1>0, <1>1, <1>2, <1>3, <1>4, <1>5 DEF IInv

LEMMA StartCancelPreserves ==
  ASSUME IInv, NEW c0 \in Call, StartCancel(c0) PROVE IInv'
  <1> USE DEF StartCancel, Start, order, provider, calls
  <1>0. TypeOK'
    BY DEF IInv, TypeOK, Status, Refund, Kind, Phase, Consulting
  <1>1. Kinds'
    BY DEF IInv, TypeOK, Kinds, Active, AskedInAll, Kind
  <1>2. Money' /\ Claims'
    BY DEF IInv, TypeOK, Money, Claims, AskedInAll, Consulting, Kind, Kinds
  <1>3. OneHolder' /\ Held'
    BY DEF IInv, TypeOK, OneHolder, Held, Claims, Holder, Early, Consulting, AsaasQuiet, Quiet, Money
  <1>4. AsaasQuiet'
    BY DEF IInv, TypeOK, OneHolder, Held, Claims, Holder, Early, Consulting, AsaasQuiet, Quiet, AskedInAll
  <1>5. RestockedOnce' /\ CancelledIsReturned'
    BY DEF IInv, TypeOK, RestockedOnce, CancelledIsReturned, Money, Kinds, Active, AskedInAll, Claims
  <1> QED
    BY <1>0, <1>1, <1>2, <1>3, <1>4, <1>5 DEF IInv

LEMMA StartConsultPreserves ==
  ASSUME IInv, NEW c0 \in Call, StartConsult(c0) PROVE IInv'
  <1> USE DEF StartConsult, Start, order, provider, calls
  <1>0. TypeOK'
    BY DEF IInv, TypeOK, Status, Refund, Kind, Phase, Consulting
  <1>1. Kinds'
    BY DEF IInv, TypeOK, Kinds, Active, AskedInAll, Kind
  <1>2. Money' /\ Claims'
    BY DEF IInv, TypeOK, Money, Claims, AskedInAll, Consulting, Kind, Kinds
  <1>3. OneHolder' /\ Held'
    BY DEF IInv, TypeOK, OneHolder, Held, Claims, Holder, Early, Consulting, AsaasQuiet, Quiet, Money
  <1>4. AsaasQuiet'
    BY DEF IInv, TypeOK, OneHolder, Held, Claims, Holder, Early, Consulting, AsaasQuiet, Quiet, AskedInAll
  <1>5. RestockedOnce' /\ CancelledIsReturned'
    BY DEF IInv, TypeOK, RestockedOnce, CancelledIsReturned, Money, Kinds, Active, AskedInAll, Claims
  <1> QED
    BY <1>0, <1>1, <1>2, <1>3, <1>4, <1>5 DEF IInv

LEMMA StartFinalizePreserves ==
  ASSUME IInv, NEW c0 \in Call, StartFinalize(c0) PROVE IInv'
  <1> USE DEF StartFinalize, Start, order, provider, calls
  <1>0. TypeOK'
    BY DEF IInv, TypeOK, Status, Refund, Kind, Phase, Consulting
  <1>1. Kinds'
    BY DEF IInv, TypeOK, Kinds, Active, AskedInAll, Kind
  <1>2. Money' /\ Claims'
    BY DEF IInv, TypeOK, Money, Claims, AskedInAll, Consulting, Kind, Kinds
  <1>3. OneHolder' /\ Held'
    BY DEF IInv, TypeOK, OneHolder, Held, Claims, Holder, Early, Consulting, AsaasQuiet, Quiet, Money
  <1>4. AsaasQuiet'
    BY DEF IInv, TypeOK, OneHolder, Held, Claims, Holder, Early, Consulting, AsaasQuiet, Quiet, AskedInAll
  <1>5. RestockedOnce' /\ CancelledIsReturned'
    BY DEF IInv, TypeOK, RestockedOnce, CancelledIsReturned, Money, Kinds, Active, AskedInAll, Claims
  <1> QED
    BY <1>0, <1>1, <1>2, <1>3, <1>4, <1>5 DEF IInv

LEMMA StartLatePreserves ==
  ASSUME IInv, NEW c0 \in Call, StartLate(c0) PROVE IInv'
  <1> USE DEF StartLate, Start, order, provider, calls
  <1>0. TypeOK'
    BY DEF IInv, TypeOK, Status, Refund, Kind, Phase, Consulting
  <1>1. Kinds'
    BY DEF IInv, TypeOK, Kinds, Active, AskedInAll, Kind
  <1>2. Money' /\ Claims'
    BY DEF IInv, TypeOK, Money, Claims, AskedInAll, Consulting, Kind, Kinds
  <1>3. OneHolder' /\ Held'
    BY DEF IInv, TypeOK, OneHolder, Held, Claims, Holder, Early, Consulting, AsaasQuiet, Quiet, Money
  <1>4. AsaasQuiet'
    BY DEF IInv, TypeOK, OneHolder, Held, Claims, Holder, Early, Consulting, AsaasQuiet, Quiet, AskedInAll
  <1>5. RestockedOnce' /\ CancelledIsReturned'
    BY DEF IInv, TypeOK, RestockedOnce, CancelledIsReturned, Money, Kinds, Active, AskedInAll, Claims
  <1> QED
    BY <1>0, <1>1, <1>2, <1>3, <1>4, <1>5 DEF IInv

LEMMA StartLateConsultPreserves ==
  ASSUME IInv, NEW c0 \in Call, StartLateConsult(c0) PROVE IInv'
  <1> USE DEF StartLateConsult, Start, order, provider, calls
  <1>0. TypeOK'
    BY DEF IInv, TypeOK, Status, Refund, Kind, Phase, Consulting
  <1>1. Kinds'
    BY DEF IInv, TypeOK, Kinds, Active, AskedInAll, Kind
  <1>2. Money' /\ Claims'
    BY DEF IInv, TypeOK, Money, Claims, AskedInAll, Consulting, Kind, Kinds
  <1>3. OneHolder' /\ Held'
    BY DEF IInv, TypeOK, OneHolder, Held, Claims, Holder, Early, Consulting, AsaasQuiet, Quiet, Money
  <1>4. AsaasQuiet'
    BY DEF IInv, TypeOK, OneHolder, Held, Claims, Holder, Early, Consulting, AsaasQuiet, Quiet, AskedInAll
  <1>5. RestockedOnce' /\ CancelledIsReturned'
    BY DEF IInv, TypeOK, RestockedOnce, CancelledIsReturned, Money, Kinds, Active, AskedInAll, Claims
  <1> QED
    BY <1>0, <1>1, <1>2, <1>3, <1>4, <1>5 DEF IInv

LEMMA ClaimPreserves ==
  ASSUME IInv, NEW c0 \in Call, Claim(c0) PROVE IInv'
  <1> USE DEF Claim, Claimable, Goto, order, provider, calls
  <1>0. TypeOK'
    BY DEF IInv, TypeOK, Status, Refund, Kind, Phase, Consulting
  <1>1. Kinds'
    BY DEF IInv, TypeOK, Kinds, Active, AskedInAll, Kind
  <1>2. Money' /\ Claims'
    BY DEF IInv, TypeOK, Money, Claims, AskedInAll, Consulting, Kind, Kinds
  <1>3. OneHolder' /\ Held'
    BY DEF IInv, TypeOK, OneHolder, Held, Claims, Holder, Early, Consulting, AsaasQuiet, Quiet, Money
  <1>4. AsaasQuiet'
    BY DEF IInv, TypeOK, OneHolder, Held, Claims, Holder, Early, Consulting, AsaasQuiet, Quiet, AskedInAll
  <1>5. RestockedOnce' /\ CancelledIsReturned'
    BY DEF IInv, TypeOK, RestockedOnce, CancelledIsReturned, Money, Kinds, Active, AskedInAll, Claims
  <1> QED
    BY <1>0, <1>1, <1>2, <1>3, <1>4, <1>5 DEF IInv

LEMMA ClaimLostPreserves ==
  ASSUME IInv, NEW c0 \in Call, ClaimLost(c0) PROVE IInv'
  <1> USE DEF ClaimLost, Goto, order, provider, calls
  <1>0. TypeOK'
    BY DEF IInv, TypeOK, Status, Refund, Kind, Phase, Consulting
  <1>1. Kinds'
    BY DEF IInv, TypeOK, Kinds, Active, AskedInAll, Kind
  <1>2. Money' /\ Claims'
    BY DEF IInv, TypeOK, Money, Claims, AskedInAll, Consulting, Kind, Kinds
  <1>3. OneHolder' /\ Held'
    BY DEF IInv, TypeOK, OneHolder, Held, Claims, Holder, Early, Consulting, AsaasQuiet, Quiet, Money
  <1>4. AsaasQuiet'
    BY DEF IInv, TypeOK, OneHolder, Held, Claims, Holder, Early, Consulting, AsaasQuiet, Quiet, AskedInAll
  <1>5. RestockedOnce' /\ CancelledIsReturned'
    BY DEF IInv, TypeOK, RestockedOnce, CancelledIsReturned, Money, Kinds, Active, AskedInAll, Claims
  <1> QED
    BY <1>0, <1>1, <1>2, <1>3, <1>4, <1>5 DEF IInv

LEMMA UnavailablePreserves ==
  ASSUME IInv, NEW c0 \in Call, Unavailable(c0) PROVE IInv'
  <1> USE DEF Unavailable, Goto, AfterError, order, provider, calls
  <1>0. TypeOK'
    BY DEF IInv, TypeOK, Status, Refund, Kind, Phase, Consulting
  <1>1. Kinds'
    BY DEF IInv, TypeOK, Kinds, Active, AskedInAll, Kind
  <1>2. Money' /\ Claims'
    BY DEF IInv, TypeOK, Money, Claims, AskedInAll, Consulting, Kind, Kinds
  <1>3. OneHolder' /\ Held'
    BY DEF IInv, TypeOK, OneHolder, Held, Claims, Holder, Early, Consulting, AsaasQuiet, Quiet, Money
  <1>4. AsaasQuiet'
    BY DEF IInv, TypeOK, OneHolder, Held, Claims, Holder, Early, Consulting, AsaasQuiet, Quiet, AskedInAll
  <1>5. RestockedOnce' /\ CancelledIsReturned'
    BY DEF IInv, TypeOK, RestockedOnce, CancelledIsReturned, Money, Kinds, Active, AskedInAll, Claims
  <1> QED
    BY <1>0, <1>1, <1>2, <1>3, <1>4, <1>5 DEF IInv

LEMMA AskDirectlyPreserves ==
  ASSUME IInv, NEW c0 \in Call, AskDirectly(c0) PROVE IInv'
  <1> USE DEF AskDirectly, Send, Goto, order, provider, calls
  <1>0. TypeOK'
    BY DEF IInv, TypeOK, Status, Refund, Kind, Phase, Consulting
  <1>1. Kinds'
    BY DEF IInv, TypeOK, Kinds, Active, AskedInAll, Kind
  <1>2. Money' /\ Claims'
    BY DEF IInv, TypeOK, Money, Claims, AskedInAll, Consulting, Kind, Kinds
  <1>3. OneHolder' /\ Held'
    BY DEF IInv, TypeOK, OneHolder, Held, Claims, Holder, Early, Consulting, AsaasQuiet, Quiet, Money
  <1>4. AsaasQuiet'
    BY DEF IInv, TypeOK, OneHolder, Held, Claims, Holder, Early, Consulting, AsaasQuiet, Quiet, AskedInAll
  <1>5. RestockedOnce' /\ CancelledIsReturned'
    BY DEF IInv, TypeOK, RestockedOnce, CancelledIsReturned, Money, Kinds, Active, AskedInAll, Claims
  <1> QED
    BY <1>0, <1>1, <1>2, <1>3, <1>4, <1>5 DEF IInv

LEMMA ConsultNothingPreserves ==
  ASSUME IInv, NEW c0 \in Call, ConsultNothing(c0) PROVE IInv'
  <1> USE DEF ConsultNothing, Goto, order, provider, calls
  <1>0. TypeOK'
    BY DEF IInv, TypeOK, Status, Refund, Kind, Phase, Consulting
  <1>1. Kinds'
    BY DEF IInv, TypeOK, Kinds, Active, AskedInAll, Kind
  <1>2. Money' /\ Claims'
    BY DEF IInv, TypeOK, Money, Claims, AskedInAll, Consulting, Kind, Kinds
  <1>3. OneHolder' /\ Held'
    BY DEF IInv, TypeOK, OneHolder, Held, Claims, Holder, Early, Consulting, AsaasQuiet, Quiet, Money
  <1>4. AsaasQuiet'
    BY DEF IInv, TypeOK, OneHolder, Held, Claims, Holder, Early, Consulting, AsaasQuiet, Quiet, AskedInAll
  <1>5. RestockedOnce' /\ CancelledIsReturned'
    BY DEF IInv, TypeOK, RestockedOnce, CancelledIsReturned, Money, Kinds, Active, AskedInAll, Claims
  <1> QED
    BY <1>0, <1>1, <1>2, <1>3, <1>4, <1>5 DEF IInv

LEMMA ReadPaymentPreserves ==
  ASSUME IInv, NEW c0 \in Call, ReadPayment(c0) PROVE IInv'
  <1> USE DEF ReadPayment, Goto, OnlyVerifies, order, provider, calls
  <1>0. TypeOK'
    BY DEF IInv, TypeOK, Status, Refund, Kind, Phase, Consulting
  <1>1. Kinds'
    BY DEF IInv, TypeOK, Kinds, Active, AskedInAll, Kind
  <1>2. Money' /\ Claims'
    BY DEF IInv, TypeOK, Money, Claims, AskedInAll, Consulting, Kind, Kinds
  <1>3. OneHolder' /\ Held'
    BY DEF IInv, TypeOK, OneHolder, Held, Claims, Holder, Early, Consulting, AsaasQuiet, Quiet, Money
  <1>4. AsaasQuiet'
    BY DEF IInv, TypeOK, OneHolder, Held, Claims, Holder, Early, Consulting, AsaasQuiet, Quiet, AskedInAll
  <1>5. RestockedOnce' /\ CancelledIsReturned'
    BY DEF IInv, TypeOK, RestockedOnce, CancelledIsReturned, Money, Kinds, Active, AskedInAll, Claims
  <1> QED
    BY <1>0, <1>1, <1>2, <1>3, <1>4, <1>5 DEF IInv

LEMMA PostRefundPreserves ==
  ASSUME IInv, NEW c0 \in Call, PostRefund(c0) PROVE IInv'
  <1> USE DEF PostRefund, Send, Goto, order, provider, calls
  <1>0. TypeOK'
    BY DEF IInv, TypeOK, Status, Refund, Kind, Phase, Consulting
  <1>1. Kinds'
    BY DEF IInv, TypeOK, Kinds, Active, AskedInAll, Kind
  <1>2. Money' /\ Claims'
    BY DEF IInv, TypeOK, Money, Claims, AskedInAll, Consulting, Kind, Kinds
  <1>3. OneHolder' /\ Held'
    BY DEF IInv, TypeOK, OneHolder, Held, Claims, Holder, Early, Consulting, AsaasQuiet, Quiet, Money
  <1>4. AsaasQuiet'
    BY DEF IInv, TypeOK, OneHolder, Held, Claims, Holder, Early, Consulting, AsaasQuiet, Quiet, AskedInAll
  <1>5. RestockedOnce' /\ CancelledIsReturned'
    BY DEF IInv, TypeOK, RestockedOnce, CancelledIsReturned, Money, Kinds, Active, AskedInAll, Claims
  <1> QED
    BY <1>0, <1>1, <1>2, <1>3, <1>4, <1>5 DEF IInv

LEMMA LosePreserves ==
  ASSUME IInv, NEW c0 \in Call, Lose(c0) PROVE IInv'
  <1> USE DEF Lose, order, provider, calls
  <1>0. TypeOK'
    BY DEF IInv, TypeOK, Status, Refund, Kind, Phase, Consulting
  <1>1. Kinds'
    BY DEF IInv, TypeOK, Kinds, Active, AskedInAll, Kind
  <1>2. Money' /\ Claims'
    BY DEF IInv, TypeOK, Money, Claims, AskedInAll, Consulting, Kind, Kinds
  <1>3. OneHolder' /\ Held'
    BY DEF IInv, TypeOK, OneHolder, Held, Claims, Holder, Early, Consulting, AsaasQuiet, Quiet, Money
  <1>4. AsaasQuiet'
    BY DEF IInv, TypeOK, OneHolder, Held, Claims, Holder, Early, Consulting, AsaasQuiet, Quiet, AskedInAll
  <1>5. RestockedOnce' /\ CancelledIsReturned'
    BY DEF IInv, TypeOK, RestockedOnce, CancelledIsReturned, Money, Kinds, Active, AskedInAll, Claims
  <1> QED
    BY <1>0, <1>1, <1>2, <1>3, <1>4, <1>5 DEF IInv

LEMMA GiveUpPreserves ==
  ASSUME IInv, NEW c0 \in Call, GiveUp(c0) PROVE IInv'
  <1> USE DEF GiveUp, Goto, AfterSilence, order, provider, calls
  <1>0. TypeOK'
    BY DEF IInv, TypeOK, Status, Refund, Kind, Phase, Consulting
  <1>1. Kinds'
    BY DEF IInv, TypeOK, Kinds, Active, AskedInAll, Kind
  <1>2. Money' /\ Claims'
    BY DEF IInv, TypeOK, Money, Claims, AskedInAll, Consulting, Kind, Kinds
  <1>3. OneHolder' /\ Held'
    BY DEF IInv, TypeOK, OneHolder, Held, Claims, Holder, Early, Consulting, AsaasQuiet, Quiet, Money
  <1>4. AsaasQuiet'
    BY DEF IInv, TypeOK, OneHolder, Held, Claims, Holder, Early, Consulting, AsaasQuiet, Quiet, AskedInAll
  <1>5. RestockedOnce' /\ CancelledIsReturned'
    BY DEF IInv, TypeOK, RestockedOnce, CancelledIsReturned, Money, Kinds, Active, AskedInAll, Claims
  <1> QED
    BY <1>0, <1>1, <1>2, <1>3, <1>4, <1>5 DEF IInv

LEMMA ReadAgainPreserves ==
  ASSUME IInv, NEW c0 \in Call, ReadAgain(c0) PROVE IInv'
  <1> USE DEF ReadAgain, Goto, order, provider, calls
  <1>0. TypeOK'
    BY DEF IInv, TypeOK, Status, Refund, Kind, Phase, Consulting
  <1>1. Kinds'
    BY DEF IInv, TypeOK, Kinds, Active, AskedInAll, Kind
  <1>2. Money' /\ Claims'
    BY DEF IInv, TypeOK, Money, Claims, AskedInAll, Consulting, Kind, Kinds
  <1>3. OneHolder' /\ Held'
    BY DEF IInv, TypeOK, OneHolder, Held, Claims, Holder, Early, Consulting, AsaasQuiet, Quiet, Money
  <1>4. AsaasQuiet'
    BY DEF IInv, TypeOK, OneHolder, Held, Claims, Holder, Early, Consulting, AsaasQuiet, Quiet, AskedInAll
  <1>5. RestockedOnce' /\ CancelledIsReturned'
    BY DEF IInv, TypeOK, RestockedOnce, CancelledIsReturned, Money, Kinds, Active, AskedInAll, Claims
  <1> QED
    BY <1>0, <1>1, <1>2, <1>3, <1>4, <1>5 DEF IInv

LEMMA RecordFailedPreserves ==
  ASSUME IInv, NEW c0 \in Call, RecordFailed(c0) PROVE IInv'
  <1> USE DEF RecordFailed, Mine, Goto, order, provider, calls
  <1>0. TypeOK'
    BY DEF IInv, TypeOK, Status, Refund, Kind, Phase, Consulting
  <1>1. Kinds'
    BY DEF IInv, TypeOK, Kinds, Active, AskedInAll, Kind
  <1>2. Money' /\ Claims'
    BY DEF IInv, TypeOK, Money, Claims, AskedInAll, Consulting, Kind, Kinds
  <1>3. OneHolder' /\ Held'
    BY DEF IInv, TypeOK, OneHolder, Held, Claims, Holder, Early, Consulting, AsaasQuiet, Quiet, Money
  <1>4. AsaasQuiet'
    BY DEF IInv, TypeOK, OneHolder, Held, Claims, Holder, Early, Consulting, AsaasQuiet, Quiet, AskedInAll
  <1>5. RestockedOnce' /\ CancelledIsReturned'
    BY DEF IInv, TypeOK, RestockedOnce, CancelledIsReturned, Money, Kinds, Active, AskedInAll, Claims
  <1> QED
    BY <1>0, <1>1, <1>2, <1>3, <1>4, <1>5 DEF IInv

LEMMA RecordSucceededPreserves ==
  ASSUME IInv, NEW c0 \in Call, RecordSucceeded(c0) PROVE IInv'
  <1> USE DEF RecordSucceeded, Mine, Goto, order, provider, calls
  <1>0. TypeOK'
    BY DEF IInv, TypeOK, Status, Refund, Kind, Phase, Consulting
  <1>1. Kinds'
    BY DEF IInv, TypeOK, Kinds, Active, AskedInAll, Kind
  <1>2. Money' /\ Claims'
    BY DEF IInv, TypeOK, Money, Claims, AskedInAll, Consulting, Kind, Kinds
  <1>3. OneHolder' /\ Held'
    BY DEF IInv, TypeOK, OneHolder, Held, Claims, Holder, Early, Consulting, AsaasQuiet, Quiet, Money
  <1>4. AsaasQuiet'
    BY DEF IInv, TypeOK, OneHolder, Held, Claims, Holder, Early, Consulting, AsaasQuiet, Quiet, AskedInAll
  <1>5. RestockedOnce' /\ CancelledIsReturned'
    BY DEF IInv, TypeOK, RestockedOnce, CancelledIsReturned, Money, Kinds, Active, AskedInAll, Claims
  <1> QED
    BY <1>0, <1>1, <1>2, <1>3, <1>4, <1>5 DEF IInv

LEMMA FinalizePreserves ==
  ASSUME IInv, NEW c0 \in Call, Finalize(c0) PROVE IInv'
  <1> USE DEF Finalize, Finishable, CancelOrder, Goto, order, provider, calls
  <1>0. TypeOK'
    BY DEF IInv, TypeOK, Status, Refund, Kind, Phase, Consulting
  <1>1. Kinds'
    BY DEF IInv, TypeOK, Kinds, Active, AskedInAll, Kind
  <1>2. Money' /\ Claims'
    BY DEF IInv, TypeOK, Money, Claims, AskedInAll, Consulting, Kind, Kinds
  <1>3. OneHolder' /\ Held'
    BY DEF IInv, TypeOK, OneHolder, Held, Claims, Holder, Early, Consulting, AsaasQuiet, Quiet, Money
  <1>4. AsaasQuiet'
    BY DEF IInv, TypeOK, OneHolder, Held, Claims, Holder, Early, Consulting, AsaasQuiet, Quiet, AskedInAll
  <1>5. RestockedOnce' /\ CancelledIsReturned'
    BY DEF IInv, TypeOK, RestockedOnce, CancelledIsReturned, Money, Kinds, Active, AskedInAll, Claims
  <1> QED
    BY <1>0, <1>1, <1>2, <1>3, <1>4, <1>5 DEF IInv

LEMMA DiePreserves ==
  ASSUME IInv, NEW c0 \in Call, Die(c0) PROVE IInv'
  <1> USE DEF Die, Goto, order, provider, calls
  <1>0. TypeOK'
    BY DEF IInv, TypeOK, Status, Refund, Kind, Phase, Consulting
  <1>1. Kinds'
    BY DEF IInv, TypeOK, Kinds, Active, AskedInAll, Kind
  <1>2. Money' /\ Claims'
    BY DEF IInv, TypeOK, Money, Claims, AskedInAll, Consulting, Kind, Kinds
  <1>3. OneHolder' /\ Held'
    BY DEF IInv, TypeOK, OneHolder, Held, Claims, Holder, Early, Consulting, AsaasQuiet, Quiet, Money
  <1>4. AsaasQuiet'
    BY DEF IInv, TypeOK, OneHolder, Held, Claims, Holder, Early, Consulting, AsaasQuiet, Quiet, AskedInAll
  <1>5. RestockedOnce' /\ CancelledIsReturned'
    BY DEF IInv, TypeOK, RestockedOnce, CancelledIsReturned, Money, Kinds, Active, AskedInAll, Claims
  <1> QED
    BY <1>0, <1>1, <1>2, <1>3, <1>4, <1>5 DEF IInv

LEMMA ArrivePreserves ==
  ASSUME IInv, NEW c0 \in Call, NEW heard \in BOOLEAN, Arrive(c0, heard) PROVE IInv'
  <1> USE DEF Arrive, Taken, Goto, order, calls
  <1>0. TypeOK'
    BY DEF IInv, TypeOK, Status, Refund, Kind, Phase
  <1>1. Kinds'
    BY DEF IInv, TypeOK, Kinds, Active, AskedInAll, Kind
  <1>2. Money' /\ Claims'
    <2>1. returned' <= AskedInAll' /\ returned' >= returned
      BY DEF IInv, TypeOK, Money, AskedInAll, Kind
    <2>2. heard => asked'[kind[c0]] > 0 /\ (via # "ASAAS" => returned' > 0)
      BY DEF IInv, TypeOK, Kind
    <2>3. Claims'
      BY DEF IInv, TypeOK, Claims, Consulting
    <2>4. via = "MERCADO_PAGO" => \A k \in Kind : asked'[k] <= 1
      BY DEF IInv, TypeOK, Money, Kind
    <2>5. \A c \in Call : pc'[c] = "receipt" => returned' > 0
      BY <2>1, <2>2 DEF IInv, TypeOK, Money
    <2> QED
      BY <2>1, <2>3, <2>4, <2>5 DEF Money
  <1>3. OneHolder' /\ Held'
    BY DEF IInv, TypeOK, OneHolder, Held, Claims, Holder, Early, Consulting
  <1>4. AsaasQuiet'
    BY DEF IInv, TypeOK, AsaasQuiet, Quiet, AskedInAll, Early, Consulting, Kind
  <1>5. RestockedOnce' /\ CancelledIsReturned'
    BY DEF IInv, TypeOK, RestockedOnce, CancelledIsReturned, Money, AskedInAll, Kind
  <1> QED
    BY <1>0, <1>1, <1>2, <1>3, <1>4, <1>5 DEF IInv

LEMMA NextPreserves == IInv /\ [Next]_vars => IInv'
  <1> SUFFICES ASSUME IInv, [Next]_vars PROVE IInv'
    OBVIOUS
  <1>1. CASE UNCHANGED vars
    <2>1. UNCHANGED <<status, paid, refund, ref, coupon, restored, via, charge, wire,
                      asked, returned, pc, kind, seenStatus, seenRefund>>
      BY <1>1 DEF vars, order, provider, calls
    <2>2. TypeOK' /\ Kinds' /\ Money' /\ Claims'
      BY <2>1 DEF IInv, TypeOK, Kinds, Active, Money, AskedInAll, Claims, Consulting
    <2>3. OneHolder' /\ Held' /\ AsaasQuiet'
      BY <2>1 DEF IInv, OneHolder, Held, Holder, Early, Consulting, AsaasQuiet, Quiet, AskedInAll
    <2>4. RestockedOnce' /\ CancelledIsReturned'
      BY <2>1 DEF IInv, RestockedOnce, CancelledIsReturned
    <2> QED
      BY <2>2, <2>3, <2>4 DEF IInv
  <1>2. CASE Pay \/ Close \/ FinalizePayment \/ ConfirmManually \/ CancelUnpaid \/ FailPayment
    BY <1>2, PayPreserves, ClosePreserves, FinalizePaymentPreserves, ConfirmManuallyPreserves,
       CancelUnpaidPreserves, FailPaymentPreserves
  <1>3. CASE (\E to \in Status : Advance(to)) \/ Complete
    BY <1>3, AdvancePreserves, CompletePreserves
  <1>4. ASSUME NEW c \in Call, Begin(c) PROVE IInv'
    BY <1>4, StartCancelPreserves, StartConsultPreserves, StartFinalizePreserves,
       StartLatePreserves, StartLateConsultPreserves DEF Begin
  <1>5. ASSUME NEW c \in Call, Network(c) PROVE IInv'
    BY <1>5, ArrivePreserves, LosePreserves DEF Network
  <1>6. ASSUME NEW c \in Call, Proceed(c) PROVE IInv'
    BY <1>6, ClaimPreserves, ClaimLostPreserves, UnavailablePreserves, AskDirectlyPreserves,
       ConsultNothingPreserves, ReadPaymentPreserves, PostRefundPreserves, GiveUpPreserves,
       ReadAgainPreserves, RecordFailedPreserves, RecordSucceededPreserves,
       FinalizePreserves, DiePreserves DEF Proceed
  <1> QED
    BY <1>1, <1>2, <1>3, <1>4, <1>5, <1>6 DEF Next

LEMMA Inductive == Spec => []IInv
  <1> QED
    BY InitIInv, NextPreserves, PTL DEF Spec

-----------------------------------------------------------------------------
(* For any number of calls: the types.                                     *)
THEOREM TypeSafety == Spec => []TypeOK
  <1>1. IInv => TypeOK
    BY DEF IInv
  <1> QED
    BY <1>1, Inductive, PTL

(* For any number of calls, no order is refunded twice at a provider that  *)
(* takes idempotency keys or whose payment can be read back.               *)
THEOREM RefundSafety == Spec => []OneRefund
  <1>1. IInv => OneRefund
    <2> SUFFICES ASSUME IInv, via # "EFI" PROVE AskedInAll <= 1
      BY DEF OneRefund
    <2>1. CASE via = "ASAAS"
      BY <2>1 DEF IInv, AsaasQuiet
    <2>2. CASE via = "MERCADO_PAGO"
      <3>1. asked["cancel"] \in Nat /\ asked["late"] \in Nat
        BY DEF IInv, TypeOK, Kind
      <3>2. asked["cancel"] <= 1 /\ asked["late"] <= 1
        BY <2>2 DEF IInv, Money, Kind
      <3>3. asked["cancel"] = 0 \/ asked["late"] = 0
        BY <3>1 DEF IInv, Kinds
      <3> QED
        BY <3>1, <3>2, <3>3 DEF AskedInAll
    <2> QED
      BY <2>1, <2>2 DEF IInv, TypeOK
  <1> QED
    BY <1>1, Inductive, PTL

(* For any number of calls and any provider, a paid order is cancelled     *)
(* only after its money went back.                                         *)
THEOREM CancellationSafety == Spec => []CancelledIsReturned
  <1>1. IInv => CancelledIsReturned
    BY DEF IInv
  <1> QED
    BY <1>1, Inductive, PTL

(* For any number of calls and any provider, the stock comes back once.    *)
THEOREM StockSafety == Spec => []RestockedOnce
  <1>1. IInv => RestockedOnce
    BY DEF IInv
  <1> QED
    BY <1>1, Inductive, PTL

(* At Asaas, an order whose refund may have left is never moved on.        *)
THEOREM KitchenSafety == Spec => KitchenStops
  <1>1. IInv /\ [Next]_vars =>
          [via = "ASAAS" /\ status' \notin {status, "CANCELADO"} =>
             wire = {} /\ AskedInAll = 0]_vars
    <2> SUFFICES ASSUME IInv, Next, via = "ASAAS", status' \notin {status, "CANCELADO"}
                 PROVE  wire = {} /\ AskedInAll = 0
      BY DEF vars
    <2>1. PICK to \in Status : Advance(to)
      BY DEF Next, Pay, Close, FinalizePayment, ConfirmManually, MarkPaid, CancelUnpaid,
             FailPayment, CancelOrder, Complete, Begin, Network, Proceed, StartCancel,
             StartConsult, StartFinalize, StartLate, StartLateConsult, Start, Claim, ClaimLost,
             Unavailable, AskDirectly, ConsultNothing, ReadPayment, PostRefund, Send, Arrive,
             Lose, GiveUp, ReadAgain, RecordFailed, RecordSucceeded, Finalize, Die, order
    <2>2. refund \in {"NOT_REQUESTED", "FAILED"}
      BY <2>1 DEF IInv, TypeOK, Refund, Advance, Barred
    <2> QED
      BY <2>2 DEF IInv, AsaasQuiet, Quiet
  <1> QED
    BY <1>1, Inductive, PTL DEF Spec, KitchenStops

(* For any provider, nothing is sent after the success is recorded, and no *)
(* step takes it back.                                                     *)
THEOREM SuccessSafety == Spec => SuccessIsFinal
  <1>1. IInv /\ [Next]_vars =>
          [refund = "SUCCEEDED" => wire' \subseteq wire /\ refund' = refund]_vars
    <2> SUFFICES ASSUME IInv, Next, refund = "SUCCEEDED"
                 PROVE  wire' \subseteq wire /\ refund' = refund
      BY DEF vars
    <2>1. \A c \in Call : ~Early(c) /\ ~(pc[c] = "posting")
      BY DEF IInv, Held, Early, Claims
    <2>2. CASE \E c \in Call : Proceed(c)
      <3>1. PICK c \in Call : Proceed(c)
        BY <2>2
      <3>2. ~Claim(c) /\ ~AskDirectly(c) /\ ~PostRefund(c)
        BY <2>1 DEF Claim, Claimable, IInv, Claims, AskDirectly, PostRefund, Early
      <3> QED
        BY <3>1, <3>2 DEF Proceed, ClaimLost, Unavailable, ConsultNothing, ReadPayment, GiveUp,
           ReadAgain, RecordFailed, RecordSucceeded, Mine, Finalize, Die, order, provider
    <2>3. CASE \E c \in Call : Begin(c) \/ Network(c)
      BY <2>3 DEF Begin, Network, StartCancel, StartConsult, StartFinalize, StartLate,
         StartLateConsult, Start, Arrive, Lose, order, provider
    <2>4. CASE Pay \/ Close \/ FinalizePayment \/ ConfirmManually \/ CancelUnpaid \/ FailPayment
               \/ (\E to \in Status : Advance(to)) \/ Complete
      BY <2>4 DEF Pay, Close, FinalizePayment, ConfirmManually, MarkPaid, CancelUnpaid,
         FailPayment, Advance, Complete, order, provider
    <2> QED
      BY <2>2, <2>3, <2>4 DEF Next
  <1> QED
    BY <1>1, Inductive, PTL DEF Spec, SuccessIsFinal
=============================================================================
