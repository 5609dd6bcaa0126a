------------------------ MODULE OrderCapacityProofs ------------------------
(***************************************************************************)
(* The limit, the turn and the tickets of OrderCapacity, for any number of *)
(* orders and any limit.                                                   *)
(*                                                                         *)
(* Cap is the strengthening of the limit: while a creation that will be    *)
(* admitted runs, or candidates are being admitted, the kitchen has at     *)
(* most Limit orders, the candidates included. So the creation that        *)
(* commits reaches Limit + 1 at most, and makes the others start again.    *)
(* That the candidates fit rests on the ranks of capacityQueuedAt being    *)
(* distinct (Places): their number is counted by their ranks (Lowest).     *)
(***************************************************************************)
EXTENDS OrderCapacity, FiniteSetTheorems, TLAPS

USE CapacityAssumption DEF CapacityAssumption

Shape ==
  /\ \A o \in Order : status[o] = "absent" =>
       place[o] = 0 /\ ~admitted[o] /\ ~paid[o] /\ ~ticket[o]
  /\ \A o \in Order : seen[o] # "none" => status[o] = "absent"
  /\ \A o \in Order : kind[o] # "delivery" /\ ~paid[o] => ~admitted[o]
  /\ ~locked => batch = {}

Placed == {o \in Order : place[o] # 0}

Places ==
  /\ \A o \in Order : place[o] <= Cardinality(Placed)
  /\ \A o, x \in Placed : place[o] = place[x] => o = x

Cap ==
  (batch # {} \/ \E o \in Order : seen[o] = "admit")
    => Cardinality(Active \cup batch) <= Limit

Turn == \A o \in batch, x \in Waiting \ batch : place[o] < place[x]

Tickets ==
  Trigger = "NEW_ORDER" =>
    /\ \A o \in Order : Queued(o) => ~ticket[o]
    /\ \A o \in Order : kind[o] # "delivery" /\ ~paid[o] => ~ticket[o]
    /\ \A o \in Active : ticket[o]

-----------------------------------------------------------------------------
(* Finite sets of orders.                                                  *)

LEMMA Counts ==
  ASSUME NEW S \in SUBSET Order
  PROVE  IsFiniteSet(S) /\ Cardinality(S) \in Nat
BY FS_Subset, FS_CardinalityType

LEMMA Monotone ==
  ASSUME NEW S \in SUBSET Order, NEW T \in SUBSET S
  PROVE  Cardinality(T) <= Cardinality(S)
BY Counts, FS_Subset

LEMMA OneMore ==
  ASSUME NEW S \in SUBSET Order, NEW o \in Order, NEW T \in SUBSET (S \cup {o})
  PROVE  Cardinality(T) <= Cardinality(S) + 1
<1>1. IsFiniteSet(S) /\ Cardinality(S) \in Nat
  BY Counts
<1>2. IsFiniteSet(S \cup {o}) /\ Cardinality(S \cup {o}) \in Nat
         /\ Cardinality(S \cup {o}) <= Cardinality(S) + 1
  <2>1. IsFiniteSet(S \cup {o})
          /\ Cardinality(S \cup {o}) = IF o \in S THEN Cardinality(S) ELSE Cardinality(S) + 1
    BY <1>1, FS_AddElement
  <2> QED BY <1>1, <2>1
<1>3. T \in SUBSET Order
  OBVIOUS
<1>4. Cardinality(T) \in Nat /\ Cardinality(T) <= Cardinality(S \cup {o})
  BY <1>3, Counts, Monotone
<1> QED BY <1>1, <1>2, <1>4

(* Of a set ordered by distinct ranks, no more than k elements have fewer  *)
(* than k below them.                                                      *)
LEMMA Lowest ==
  ASSUME NEW W \in SUBSET Order, NEW r \in [Order -> Nat], NEW k \in Nat,
         \A o, x \in W : r[o] = r[x] => o = x
  PROVE  Cardinality({o \in W : Cardinality({x \in W : r[x] < r[o]}) < k}) <= k
<1> DEFINE below(o) == {x \in W : r[x] < r[o]}
           C == {o \in W : Cardinality(below(o)) < k}
           f == [o \in C |-> Cardinality(below(o))]
<1>1. \A o \in Order : Cardinality(below(o)) \in Nat /\ IsFiniteSet(below(o))
  BY Counts
<1>2. \A o, x \in W : r[x] < r[o] => Cardinality(below(x)) < Cardinality(below(o))
  <2> SUFFICES ASSUME NEW o \in W, NEW x \in W, r[x] < r[o]
               PROVE  Cardinality(below(x)) < Cardinality(below(o))
    OBVIOUS
  <2>1. r[o] \in Nat /\ r[x] \in Nat /\ \A y \in W : r[y] \in Nat
    OBVIOUS
  <2>2. below(x) \subseteq below(o) /\ x \in below(o) /\ x \notin below(x)
    BY <2>1
  <2>3. Cardinality(below(x)) <= Cardinality(below(o))
    BY <2>2, Monotone
  <2>4. Cardinality(below(x)) # Cardinality(below(o))
    BY <1>1, <2>2, FS_Subset
  <2> QED BY <1>1, <2>3, <2>4
<1> HIDE DEF below
<1>3. f \in [C -> 0..(k - 1)]
  BY <1>1
<1>4. \A o, x \in C : f[o] = f[x] => o = x
  <2> SUFFICES ASSUME NEW o \in C, NEW x \in C, f[o] = f[x], o # x PROVE FALSE
    OBVIOUS
  <2>1. Cardinality(below(o)) = Cardinality(below(x)) /\ Cardinality(below(x)) \in Nat
    BY <1>1
  <2>2. r[o] < r[x] \/ r[x] < r[o]
    <3>1. r[o] \in Nat /\ r[x] \in Nat /\ r[o] # r[x]
      OBVIOUS
    <3> QED BY <3>1
  <2> QED BY <1>2, <2>1, <2>2
<1>5. IsFiniteSet(0..(k - 1)) /\ Cardinality(0..(k - 1)) = k
  <2>1. IsFiniteSet(0..(k - 1))
          /\ Cardinality(0..(k - 1)) = IF 0 > k - 1 THEN 0 ELSE (k - 1) - 0 + 1
    BY FS_Interval
  <2> QED BY <2>1
<1>6. f \in Injection(C, 0..(k - 1))
  BY <1>3, <1>4 DEF Injection, IsInjective
<1> HIDE DEF f
<1>7. Cardinality(C) <= Cardinality(0..(k - 1))
  BY <1>5, <1>6, FS_Injection
<1> QED BY <1>5, <1>7 DEF below

-----------------------------------------------------------------------------
LEMMA InitInv == Init => TypeOK /\ Shape /\ Places /\ Turn /\ Cap /\ OneBeyondLimit
<1> SUFFICES ASSUME Init PROVE TypeOK /\ Shape /\ Places /\ Turn /\ Cap /\ OneBeyondLimit
  OBVIOUS
<1>1. TypeOK /\ Shape /\ Turn
  BY DEF Init, TypeOK, Shape, Turn, Live
<1>2. Active = {} /\ Placed = {}
  BY DEF Init, Active, Live, Placed
<1>3. Cardinality({}) = 0
  BY FS_EmptySet
<1>4. Places
  BY <1>2, <1>3 DEF Init, Places
<1>5. Cap /\ OneBeyondLimit
  BY <1>2, <1>3 DEF Cap, OneBeyondLimit, Init
<1> QED BY <1>1, <1>4, <1>5

LEMMA PlaceTyped == TypeOK => NextPlace \in Nat \ {0}
<1>1. Cardinality(Placed) \in Nat
  BY Counts DEF Placed
<1> QED BY <1>1 DEF NextPlace, Placed

(* Types and the shape of an order are kept by every action.               *)
LEMMA TypeStep == TypeOK /\ Shape /\ [Next]_vars => TypeOK' /\ Shape'
<1> SUFFICES ASSUME TypeOK, Shape, [Next]_vars PROVE TypeOK' /\ Shape'
  OBVIOUS
<1> USE DEF TypeOK, Shape, Live, orders, drain, PrintsOnPayment, PrintsOnAdmission, Queued
<1>0. NextPlace \in Nat
  BY PlaceTyped
<1>1. ASSUME NEW o \in Order, Begin(o) PROVE TypeOK' /\ Shape'
  BY <1>1 DEF Begin
<1>2. ASSUME NEW o \in Order, Create(o) PROVE TypeOK' /\ Shape'
  <2>1. TypeOK'
    BY <1>0, <1>2 DEF Create, Aborts, InitialStatus
  <2>2. Shape'
    BY <1>0, <1>2 DEF Create, Aborts, InitialStatus
  <2> QED BY <2>1, <2>2
<1>3. ASSUME NEW o \in Order, Retry(o) PROVE TypeOK' /\ Shape'
  BY <1>3 DEF Retry
<1>4. ASSUME NEW o \in Order, ConfirmCash(o) \/ ConfirmByWebhook(o) PROVE TypeOK' /\ Shape'
  <2>1. CASE ConfirmCash(o)
    BY <2>1 DEF ConfirmCash, ConfirmPayment, Unpaid
  <2>2. CASE ConfirmByWebhook(o)
    BY <2>2 DEF ConfirmByWebhook, ConfirmPayment, Unpaid
  <2> QED BY <1>4, <2>1, <2>2
<1>5. ASSUME NEW o \in Order, Finalize(o) PROVE TypeOK' /\ Shape'
  <2>1. TypeOK'
    <3>1. CASE MustQueue
      <4>1. UNCHANGED <<kind, seen, locked, batch, batchPaid>> /\ ConfirmPayment(o, TRUE)
        BY <1>5, <3>1 DEF Finalize
      <4>2. /\ place' = [place EXCEPT ![o] = IF @ = 0 THEN NextPlace ELSE @]
            /\ admitted' = [admitted EXCEPT ![o] = FALSE]
            /\ status' = [status EXCEPT ![o] = "PENDENTE"]
        BY <1>5, <3>1 DEF Finalize
      <4>3. place' \in [Order -> Nat]
        BY <1>0, <4>2
      <4> QED BY <4>1, <4>2, <4>3 DEF ConfirmPayment
    <3>2. CASE ~MustQueue
      <4>1. UNCHANGED <<place, admitted, status, kind, seen, locked, batch, batchPaid>>
              /\ ConfirmPayment(o, Queued(o))
        BY <1>5, <3>2 DEF Finalize
      <4> QED BY <4>1 DEF ConfirmPayment
    <3> QED BY <3>1, <3>2
  <2>2. Shape'
    BY <1>0, <1>5 DEF Finalize, ConfirmPayment, Unpaid
  <2> QED BY <2>1, <2>2
<1>6. ASSUME NEW o \in Order, Advance(o) \/ Cancel(o) PROVE TypeOK' /\ Shape'
  <2>1. NextStatus \in [Live -> {"PREPARANDO", "PRONTO", "ENTREGUE"}]
    BY DEF NextStatus
  <2> QED BY <1>6, <2>1 DEF Advance, Cancel
<1>7. CASE ReadCandidates
  BY <1>7 DEF ReadCandidates, Candidates, Waiting
<1>8. CASE Admit
  <2>1. TypeOK'
    BY <1>8 DEF Admit, Unlock, InitialStatus
  <2>2. Shape'
    BY <1>8 DEF Admit, Unlock, InitialStatus, Waiting, Operational
  <2> QED BY <2>1, <2>2
<1>9. CASE RollBack
  BY <1>9 DEF RollBack, Unlock
<1>10. CASE UNCHANGED vars
  BY <1>10 DEF vars
<1> QED BY <1>1, <1>2, <1>3, <1>4, <1>5, <1>6, <1>7, <1>8, <1>9, <1>10 DEF Next

(* Giving the next place to one order without a place keeps Places.        *)
LEMMA GivePlace ==
  ASSUME TypeOK, Places, NEW o \in Order, place[o] = 0,
         place' = [place EXCEPT ![o] = NextPlace]
  PROVE  Places'
<1>1. Placed \in SUBSET Order /\ Cardinality(Placed) \in Nat /\ IsFiniteSet(Placed)
  BY Counts DEF Placed
<1>2. NextPlace = Cardinality(Placed) + 1
  BY <1>1 DEF NextPlace, Placed
<1>5. \A x \in Order : place'[x] = IF x = o THEN Cardinality(Placed) + 1 ELSE place[x]
  BY <1>2 DEF TypeOK
<1>3. Placed' = Placed \cup {o} /\ o \notin Placed
  <2>1. Cardinality(Placed) + 1 # 0
    BY <1>1
  <2> QED BY <1>5, <2>1 DEF Placed
<1>4. Cardinality(Placed') = Cardinality(Placed) + 1
  BY <1>1, <1>3, FS_AddElement
<1> QED BY <1>1, <1>3, <1>4, <1>5 DEF Places, TypeOK

LEMMA PlacesStep == TypeOK /\ Shape /\ Places /\ [Next]_vars => Places'
<1> SUFFICES ASSUME TypeOK, Shape, Places, [Next]_vars PROVE Places'
  OBVIOUS
<1>1. UNCHANGED place => Places'
  BY DEF Places, Placed
<1>2. ASSUME NEW o \in Order, Create(o) PROVE Places'
  <2>1. place[o] = 0 /\ place' = [place EXCEPT ![o] = IF seen[o] = "queue" THEN NextPlace ELSE 0]
    BY <1>2 DEF Create, Shape
  <2>2. CASE seen[o] = "queue"
    BY <2>1, <2>2, GivePlace
  <2>3. CASE seen[o] # "queue"
    BY <1>1, <2>1, <2>3 DEF TypeOK
  <2> QED BY <2>2, <2>3
<1>3. ASSUME NEW o \in Order, Finalize(o) PROVE Places'
  <2>1. CASE MustQueue /\ place[o] = 0
    BY <1>3, <2>1, GivePlace DEF Finalize
  <2>2. CASE ~(MustQueue /\ place[o] = 0)
    BY <1>1, <1>3, <2>2 DEF Finalize, TypeOK
  <2> QED BY <2>1, <2>2
<1>4. ASSUME NEW o \in Order, Begin(o) \/ Retry(o) \/ ConfirmCash(o) \/ ConfirmByWebhook(o)
                                \/ Advance(o) \/ Cancel(o)
      PROVE  Places'
  BY <1>1, <1>4 DEF Begin, Retry, ConfirmCash, ConfirmByWebhook, Advance, Cancel, orders
<1>5. CASE ReadCandidates \/ Admit \/ RollBack \/ UNCHANGED vars
  BY <1>1, <1>5 DEF ReadCandidates, Admit, RollBack, vars, orders
<1> QED BY <1>2, <1>3, <1>4, <1>5 DEF Next

-----------------------------------------------------------------------------
(* What each action does to the orders in the kitchen and to those waiting.*)

Quiet == Active' = Active /\ Waiting' = Waiting

LEMMA QuietSteps ==
  ASSUME TypeOK, Shape,
         \/ \E o \in Order : Begin(o) \/ Retry(o) \/ ConfirmCash(o)
         \/ ReadCandidates \/ RollBack \/ UNCHANGED vars
  PROVE  Quiet
<1> USE DEF Active, Waiting, Queued, Operational, orders, Quiet
<1>1. UNCHANGED orders => Quiet
  OBVIOUS
<1>2. ASSUME NEW o \in Order, ConfirmCash(o) PROVE Quiet
  <2>1. UNCHANGED <<kind, status, place, admitted>> /\ kind[o] = "delivery"
          /\ \A x \in Order : x # o => paid'[x] = paid[x]
    BY <1>2 DEF ConfirmCash, ConfirmPayment, TypeOK
  <2> QED BY <2>1
<1>3. ASSUME NEW o \in Order, Begin(o) \/ Retry(o) PROVE Quiet
  BY <1>1, <1>3 DEF Begin, Retry
<1>4. CASE ReadCandidates \/ RollBack \/ UNCHANGED vars
  BY <1>1, <1>4 DEF ReadCandidates, RollBack, vars
<1> QED BY <1>2, <1>3, <1>4

LEMMA StaffSteps ==
  ASSUME TypeOK, NEW o \in Order, Advance(o) \/ Cancel(o)
  PROVE  /\ Active' \subseteq Active /\ Waiting' \subseteq Waiting
         /\ UNCHANGED <<place, seen, locked, batch>>
<1>1. UNCHANGED <<kind, paid, place, admitted, seen, locked, batch>> /\ status[o] \in Live
        /\ \A x \in Order : x # o => status'[x] = status[x]
  BY DEF Advance, Cancel, drain, TypeOK
<1> QED BY <1>1 DEF Active, Waiting, Queued, Operational

LEMMA CreateStep ==
  ASSUME TypeOK, Shape, NEW o \in Order, Create(o)
  PROVE  /\ ~locked /\ batch = {} /\ batch' = {}
         /\ Active' \subseteq Active \cup {o}
         /\ seen[o] # "admit" \/ kind[o] # "delivery" => Active' = Active
         /\ o \notin Waiting
<1>1. /\ status[o] = "absent" /\ place[o] = 0 /\ ~paid[o] /\ ~admitted[o]
      /\ batch = {} /\ batch' = {} /\ ~locked
      /\ UNCHANGED <<kind, paid, admitted>>
      /\ \A x \in Order : x # o => status'[x] = status[x] /\ place'[x] = place[x]
  BY DEF Create, Shape, TypeOK, drain
<1>2. seen[o] # "admit" => place'[o] # 0
  <2>1. NextPlace # 0
    BY PlaceTyped
  <2> QED BY <2>1 DEF Create, TypeOK
<1>3. "absent" \notin Live
  BY DEF Live
<1> QED BY <1>1, <1>2, <1>3 DEF Active, Waiting, Queued, Operational, TypeOK

LEMMA FinalizeStep ==
  ASSUME TypeOK, Shape, NEW o \in Order, Finalize(o)
  PROVE  /\ ~locked /\ batch = {} /\ batch' = {} /\ UNCHANGED seen
         /\ Active' \subseteq Active \cup {o}
         /\ MustQueue => Active' \subseteq Active
         /\ o \notin Waiting
<1>1. /\ kind[o] # "delivery" /\ ~paid[o] /\ ~locked /\ batch = {} /\ batch' = {}
      /\ UNCHANGED <<kind, seen>>
      /\ \A x \in Order : x # o => paid'[x] = paid[x]
  BY DEF Finalize, ConfirmPayment, Unpaid, Shape, TypeOK, drain
<1>2. \A x \in Order : x # o =>
        status'[x] = status[x] /\ place'[x] = place[x] /\ admitted'[x] = admitted[x]
  BY DEF Finalize, TypeOK
<1>3. MustQueue => place'[o] # 0 /\ ~admitted'[o]
  <2>1. NextPlace # 0
    BY PlaceTyped
  <2> QED BY <2>1 DEF Finalize, TypeOK
<1> QED BY <1>1, <1>2, <1>3 DEF Active, Waiting, Queued, Operational, TypeOK

LEMMA AdmitStep ==
  ASSUME TypeOK, Shape, Admit
  PROVE  /\ batch' = {} /\ UNCHANGED <<place, seen>>
         /\ Active' \subseteq Active \cup batch
         /\ Active' \ Active \subseteq batch
         /\ Waiting' \subseteq Waiting \ batch
<1>1. /\ batch' = {} /\ UNCHANGED <<kind, paid, place, seen>>
      /\ \A x \in Order : admitted'[x] = (admitted[x] \/ x \in batch \cap Waiting)
      /\ \A x \in Order : x \notin batch \cap Waiting => status'[x] = status[x]
      /\ \A x \in Order : x \in batch \cap Waiting => status'[x] = InitialStatus
  BY DEF Admit, Unlock, TypeOK
<1> QED BY <1>1 DEF Active, Waiting, Queued, Operational

-----------------------------------------------------------------------------
(* The candidates fit into the free places, and nobody before them is left.*)
LEMMA CandidatesFit ==
  ASSUME TypeOK, Places
  PROVE  /\ Candidates # {} => Cardinality(Active \cup Candidates) <= Limit
         /\ \A o \in Candidates, x \in Waiting \ Candidates : place[o] < place[x]
<1>1. Active \in SUBSET Order /\ Waiting \in SUBSET Order /\ Candidates \in SUBSET Order
  BY DEF Active, Waiting, Candidates
<1>2. Cardinality(Active) \in Nat /\ IsFiniteSet(Active)
        /\ Cardinality(Candidates) \in Nat /\ IsFiniteSet(Candidates)
  BY <1>1, Counts
<1>3. Available \in Nat
  BY <1>2 DEF Available, Full
<1>4. \A o, x \in Waiting : place[o] = place[x] => o = x
  BY DEF Places, Placed, Waiting, Queued
<1>5. Cardinality(Candidates) <= Available
  <2>1. place \in [Order -> Nat]
    BY DEF TypeOK
  <2> QED BY <1>1, <1>3, <1>4, <2>1, Lowest DEF Candidates
<1>6. ASSUME Candidates # {} PROVE Cardinality(Active \cup Candidates) <= Limit
  <2>1. Cardinality(Candidates) # 0
    BY <1>2, <1>6, FS_EmptySet
  <2>2. Available = Limit - Cardinality(Active)
    BY <1>2, <1>5, <2>1 DEF Available
  <2>3. Cardinality(Active \cup Candidates) =
          Cardinality(Active) + Cardinality(Candidates) - Cardinality(Active \cap Candidates)
    BY <1>2, FS_Union
  <2>4. Cardinality(Active \cap Candidates) \in Nat
    BY <1>1, Counts
  <2> QED BY <1>2, <1>5, <2>2, <2>3, <2>4
<1>7. ASSUME NEW o \in Candidates, NEW x \in Waiting \ Candidates
      PROVE  place[o] < place[x]
  <2> DEFINE below(y) == {z \in Waiting : place[z] < place[y]}
  <2>1. \A y \in Order : place[y] \in Nat /\ below(y) \in SUBSET Order
    BY <1>1 DEF TypeOK
  <2>2. o \in Order /\ x \in Order /\ o \in Waiting
    BY <1>1, <1>7 DEF Candidates
  <2>3. Cardinality(below(o)) < Available /\ ~(Cardinality(below(x)) < Available)
    BY <1>7 DEF Candidates
  <2>4. CASE ~(place[o] < place[x])
    <3>1. below(x) \subseteq below(o)
      <4>1. ASSUME NEW z \in Waiting, place[z] < place[x] PROVE place[z] < place[o]
        <5>1. place[z] \in Nat /\ place[x] \in Nat /\ place[o] \in Nat
          BY <1>1, <2>1, <2>2
        <5> QED BY <2>4, <4>1, <5>1
      <4> QED BY <4>1
    <3>2. Cardinality(below(x)) <= Cardinality(below(o))
      BY <2>1, <2>2, <3>1, Monotone
    <3>3. Cardinality(below(x)) \in Nat /\ Cardinality(below(o)) \in Nat
      BY <2>1, <2>2, Counts
    <3> QED BY <1>3, <2>3, <3>2, <3>3
  <2> QED BY <2>4
<1> QED BY <1>6, <1>7

IInv == TypeOK /\ Shape /\ Places

LEMMA IInvStep == IInv /\ [Next]_vars => IInv'
BY TypeStep, PlacesStep DEF IInv

(* How the restaurant is paid does not change.                             *)
LEMMA SameRestaurant ==
  ASSUME [Next]_vars
  PROVE  UNCHANGED kind /\ (AtAsaas <=> AtAsaas')
<1>1. UNCHANGED kind
  BY DEF Next, Begin, Create, Retry, ConfirmCash, Finalize, ConfirmByWebhook, Advance,
         Cancel, ReadCandidates, Admit, RollBack, vars, orders
<1> QED BY <1>1 DEF AtAsaas

(* Capacity: one step.                                                     *)
LEMMA CapStep ==
  ASSUME ~AtAsaas, IInv, Cap, OneBeyondLimit, [Next]_vars
  PROVE  /\ Cap' /\ OneBeyondLimit'
         /\ Cardinality(Active') > Limit /\ Active' \ Active # {} =>
              \E o \in Order : status[o] = "absent" /\ o \in Active'
<1> DEFINE Kept == Cardinality(Active') > Limit /\ Active' \ Active # {} =>
                     \E o \in Order : status[o] = "absent" /\ o \in Active'
           Goal == Cap' /\ OneBeyondLimit' /\ Kept
<1> SUFFICES Goal
  OBVIOUS
<1> USE DEF IInv
<1>0. IInv' /\ ~AtAsaas'
  BY IInvStep, SameRestaurant
<1>1. /\ Active \in SUBSET Order /\ Active' \in SUBSET Order
      /\ batch \in SUBSET Order /\ batch' \in SUBSET Order
  BY <1>0 DEF Active, TypeOK
<1>2. /\ Cardinality(Active) \in Nat /\ Cardinality(Active') \in Nat
      /\ Cardinality(Active \cup batch) \in Nat /\ Cardinality(Active' \cup batch') \in Nat
  BY <1>1, Counts
<1>3. ASSUME Active' \subseteq Active, batch' \subseteq batch,
             \A o \in Order : seen'[o] = "admit" => seen[o] = "admit"
      PROVE  Goal
  <2>1. Cardinality(Active') <= Cardinality(Active)
    BY <1>1, <1>3, Monotone
  <2>2. Cardinality(Active' \cup batch') <= Cardinality(Active \cup batch)
    <3>1. (Active \cup batch) \in SUBSET Order /\ (Active' \cup batch') \in SUBSET (Active \cup batch)
      BY <1>1, <1>3
    <3> QED BY <3>1, Monotone
  <2>3. Cap'
    BY <1>2, <1>3, <2>2 DEF Cap
  <2>4. OneBeyondLimit'
    BY <1>2, <2>1 DEF OneBeyondLimit
  <2> QED BY <1>3, <2>3, <2>4
<1>4. ASSUME NEW o \in Order, Begin(o) PROVE Goal
  <2>1. Active' = Active /\ batch' = batch
    BY <1>4, QuietSteps DEF Quiet, Begin, drain
  <2>2. CASE MustQueue
    <3>1. \A x \in Order : seen'[x] = "admit" => seen[x] = "admit"
      BY <1>4, <2>2 DEF Begin, TypeOK
    <3> QED BY <1>3, <2>1, <3>1
  <2>3. CASE ~MustQueue
    <3>1. Cardinality(Active) < Limit
      BY <1>2, <2>3 DEF MustQueue, Full
    <3>2. Cardinality(Active \cup batch) <= Limit
      <4>1. CASE batch = {}
        <5>1. Cardinality(Active \cup batch) = Cardinality(Active)
          <6>1. Active \cup batch = Active
            BY <4>1
          <6> QED BY <6>1
        <5> QED BY <1>2, <3>1, <5>1
      <4>2. CASE batch # {}
        BY <4>2 DEF Cap
      <4> QED BY <4>1, <4>2
    <3> QED BY <2>1, <3>2 DEF Cap, OneBeyondLimit
  <2> QED BY <2>2, <2>3
<1>5. ASSUME NEW o \in Order, Create(o) PROVE Goal
  <2>1. /\ batch = {} /\ batch' = {} /\ Active' \subseteq Active \cup {o}
        /\ seen[o] # "admit" \/ kind[o] # "delivery" => Active' = Active
    BY <1>5, CreateStep
  <2>2. seen'[o] = "none" /\ \A x \in Order : seen'[x] = "admit" => seen[x] = "admit"
    BY <1>5 DEF Create, Aborts, TypeOK
  <2>3. CASE Active' = Active
    BY <1>3, <2>1, <2>2, <2>3
  <2>4. CASE Active' # Active
    <3>1. seen[o] = "admit" /\ kind[o] = "delivery"
      BY <2>1, <2>4 DEF TypeOK
    <3>2. Cardinality(Active) <= Limit
      <4>1. Active \cup batch = Active
        BY <2>1
      <4> QED BY <3>1, <4>1 DEF Cap
    <3>3. Cardinality(Active') <= Limit + 1
      <4>1. Cardinality(Active') <= Cardinality(Active) + 1
        BY <1>1, <2>1, OneMore
      <4> QED BY <1>2, <3>2, <4>1
    <3>4. \A x \in Order : seen'[x] # "admit"
      BY <1>5, <3>1 DEF Create, Aborts, TypeOK
    <3>5. Cap'
      BY <2>1, <3>4 DEF Cap
    <3>6. Kept
      <4>1. status[o] = "absent"
        BY <1>5 DEF Create, Shape
      <4>2. Active' \ Active # {} => o \in Active'
        BY <2>1
      <4> QED BY <4>1, <4>2
    <3> QED BY <3>3, <3>5, <3>6 DEF OneBeyondLimit
  <2> QED BY <2>3, <2>4
<1>6. ASSUME NEW o \in Order, Retry(o) \/ ConfirmCash(o) PROVE Goal
  <2>1. Active' = Active
    BY <1>6, QuietSteps DEF Quiet
  <2>2. batch' = batch /\ \A x \in Order : seen'[x] = "admit" => seen[x] = "admit"
    BY <1>6 DEF Retry, ConfirmCash, drain, TypeOK
  <2> QED BY <1>3, <2>1, <2>2
<1>7. ASSUME NEW o \in Order, Finalize(o) PROVE Goal
  <2>1. /\ batch = {} /\ batch' = {} /\ UNCHANGED seen
        /\ Active' \subseteq Active \cup {o}
        /\ MustQueue => Active' \subseteq Active
    BY <1>7, FinalizeStep
  <2>2. CASE MustQueue
    BY <1>3, <2>1, <2>2
  <2>3. CASE ~MustQueue
    <3>1. Cardinality(Active) < Limit
      BY <1>2, <2>3 DEF MustQueue, Full
    <3>2. Cardinality(Active') <= Cardinality(Active) + 1
      BY <1>1, <2>1, OneMore
    <3>3. Cardinality(Active') <= Limit
      BY <1>2, <3>1, <3>2
    <3>4. Active' \cup batch' = Active'
      BY <2>1
    <3>5. Cap'
      BY <3>3, <3>4 DEF Cap
    <3>6. OneBeyondLimit' /\ Kept
      BY <1>2, <3>3 DEF OneBeyondLimit
    <3> QED BY <3>5, <3>6
  <2> QED BY <2>2, <2>3
<1>8. ASSUME NEW o \in Order, Advance(o) \/ Cancel(o) PROVE Goal
  BY <1>3, <1>8, StaffSteps
<1>9. CASE ReadCandidates
  <2>1. Active' = Active /\ batch' = Candidates /\ batch = {} /\ UNCHANGED seen
    BY <1>9, QuietSteps DEF Quiet, ReadCandidates, Shape
  <2>2. CASE Candidates = {}
    BY <1>3, <2>1, <2>2
  <2>3. CASE Candidates # {}
    <3>1. Cardinality(Active \cup Candidates) <= Limit
      BY <2>3, CandidatesFit
    <3>2. Active' \cup batch' = Active \cup Candidates
      BY <2>1
    <3>3. Cap'
      BY <3>1, <3>2 DEF Cap
    <3> QED BY <2>1, <3>3 DEF OneBeyondLimit
  <2> QED BY <2>2, <2>3
<1>10. CASE Admit
  <2>1. batch' = {} /\ UNCHANGED seen /\ Active' \subseteq Active \cup batch
    BY <1>10, AdmitStep
  <2>2. CASE batch = {}
    BY <1>3, <2>1, <2>2
  <2>3. CASE batch # {}
    <3>1. Cardinality(Active \cup batch) <= Limit
      BY <2>3 DEF Cap
    <3>2. Cardinality(Active') <= Cardinality(Active \cup batch)
      BY <1>1, <2>1, Monotone
    <3>3. Cardinality(Active') <= Limit
      BY <1>2, <3>1, <3>2
    <3>4. Active' \cup batch' = Active'
      BY <2>1
    <3>5. Cap'
      BY <3>3, <3>4 DEF Cap
    <3>6. OneBeyondLimit' /\ Kept
      BY <1>2, <3>3 DEF OneBeyondLimit
    <3> QED BY <3>5, <3>6
  <2> QED BY <2>2, <2>3
<1>11. CASE RollBack \/ UNCHANGED vars
  <2>1. Active' = Active /\ batch' \subseteq batch /\ UNCHANGED seen
    BY <1>11, QuietSteps DEF Quiet, RollBack, Unlock, vars, drain
  <2> QED BY <1>3, <2>1
<1>12. ASSUME NEW o \in Order, ConfirmByWebhook(o) PROVE FALSE
  BY <1>12 DEF ConfirmByWebhook, AtAsaas
<1> QED BY <1>4, <1>5, <1>6, <1>7, <1>8, <1>9, <1>10, <1>11, <1>12 DEF Next

-----------------------------------------------------------------------------
(* Types hold in every reachable state, whatever confirms the payments.    *)
THEOREM TypeSafety == Spec => []TypeOK
<1>1. Init => IInv
  BY InitInv DEF IInv
<1>2. IInv => TypeOK
  BY DEF IInv
<1> QED BY <1>1, <1>2, IInvStep, PTL DEF Spec

(* The kitchen never has more than one order above its limit ...           *)
THEOREM LimitSafety == Spec => []OneBeyondLimit
<1> DEFINE J == IInv /\ OneBeyondLimit /\ (~AtAsaas => Cap)
<1>1. Init => J
  BY InitInv DEF IInv
<1>2. J /\ [Next]_vars => J'
  BY IInvStep, CapStep, SameRestaurant DEF OneBeyondLimit
<1>3. J => OneBeyondLimit
  OBVIOUS
<1> QED BY <1>1, <1>2, <1>3, PTL DEF Spec

(* ... and only the creation of an order puts it above.                    *)
THEOREM ExcessSafety == Spec => OnlyCreationExceeds
<1> DEFINE J == IInv /\ OneBeyondLimit /\ (~AtAsaas => Cap)
           A == ~AtAsaas /\ Cardinality(Active') > Limit /\ Active' \ Active # {} =>
                  \E o \in Order : status[o] = "absent" /\ o \in Active'
<1>1. Init => J
  BY InitInv DEF IInv
<1>2. J /\ [Next]_vars => J'
  BY IInvStep, CapStep, SameRestaurant DEF OneBeyondLimit
<1>3. J /\ [Next]_vars => A
  BY CapStep
<1>4. J /\ [Next]_vars => [A]_vars
  BY <1>3
<1> QED BY <1>1, <1>2, <1>4, PTL DEF Spec, OnlyCreationExceeds

-----------------------------------------------------------------------------
(* The turn: under the lock the orders that wait only become fewer.        *)

InTurn ==
  \A o, x \in Order :
    o \in Waiting /\ o \in Active' /\ x \in Waiting' => place[o] < place'[x]

LEMMA TurnStep ==
  ASSUME ~AtAsaas, IInv, Turn, [Next]_vars
  PROVE  Turn' /\ InTurn
<1> USE DEF IInv
<1>0. Waiting \cap Active = {} /\ Waiting \in SUBSET Order /\ Active \in SUBSET Order
        /\ batch \in SUBSET Order
  BY DEF Waiting, Active, TypeOK
<1>1. ASSUME Waiting' \subseteq Waiting, batch' = batch, place' = place PROVE Turn'
  BY <1>1 DEF Turn
<1>2. ASSUME batch' = {} PROVE Turn'
  BY <1>2 DEF Turn
<1>3. ASSUME NEW o \in Order, Active' \subseteq Active \cup {o}, o \notin Waiting PROVE InTurn
  BY <1>0, <1>3 DEF InTurn
<1>4. ASSUME Active' \subseteq Active PROVE InTurn
  BY <1>0, <1>4 DEF InTurn
<1>5. ASSUME NEW o \in Order, Begin(o) \/ Retry(o) \/ ConfirmCash(o) PROVE Turn' /\ InTurn
  <2>1. Active' = Active /\ Waiting' = Waiting
    BY <1>5, QuietSteps DEF Quiet
  <2>2. batch' = batch /\ place' = place
    BY <1>5 DEF Begin, Retry, ConfirmCash, orders, drain
  <2> QED BY <1>1, <1>4, <2>1, <2>2
<1>6. ASSUME NEW o \in Order, Create(o) PROVE Turn' /\ InTurn
  BY <1>2, <1>3, <1>6, CreateStep
<1>7. ASSUME NEW o \in Order, Finalize(o) PROVE Turn' /\ InTurn
  BY <1>2, <1>3, <1>7, FinalizeStep
<1>8. ASSUME NEW o \in Order, Advance(o) \/ Cancel(o) PROVE Turn' /\ InTurn
  BY <1>1, <1>4, <1>8, StaffSteps
<1>9. CASE ReadCandidates
  <2>1. Active' = Active /\ Waiting' = Waiting
    BY <1>9, QuietSteps DEF Quiet
  <2>2. batch' = Candidates /\ place' = place
    BY <1>9 DEF ReadCandidates, orders
  <2>3. Turn'
    BY <2>1, <2>2, CandidatesFit DEF Turn
  <2> QED BY <1>4, <2>1, <2>3
<1>10. CASE Admit
  <2>1. batch' = {} /\ place' = place /\ Active' \ Active \subseteq batch
          /\ Waiting' \subseteq Waiting \ batch
    BY <1>10, AdmitStep
  <2>2. InTurn
    BY <1>0, <2>1 DEF InTurn, Turn
  <2> QED BY <1>2, <2>1, <2>2
<1>11. CASE RollBack \/ UNCHANGED vars
  <2>1. Active' = Active /\ Waiting' = Waiting
    BY <1>11, QuietSteps DEF Quiet
  <2>2. (batch' = {} \/ batch' = batch) /\ place' = place
    BY <1>11 DEF RollBack, Unlock, vars, orders, drain
  <2> QED BY <1>1, <1>2, <1>4, <2>1, <2>2
<1>12. ASSUME NEW o \in Order, ConfirmByWebhook(o) PROVE FALSE
  BY <1>12 DEF ConfirmByWebhook, AtAsaas
<1> QED BY <1>5, <1>6, <1>7, <1>8, <1>9, <1>10, <1>11, <1>12 DEF Next

(* Orders are admitted in the order in which they were queued.             *)
THEOREM TurnSafety == Spec => AdmittedInTurn
<1> DEFINE J == IInv /\ (~AtAsaas => Turn)
           A == ~AtAsaas => InTurn
<1>1. Init => J
  BY InitInv DEF IInv
<1>2. J /\ [Next]_vars => J'
  BY IInvStep, TurnStep, SameRestaurant
<1>3. J /\ [Next]_vars => [A]_vars
  BY TurnStep
<1> QED BY <1>1, <1>2, <1>3, PTL DEF Spec, AdmittedInTurn, InTurn

(* A payment takes no place in front of the queue.                         *)
THEOREM PaymentSafety == Spec => PaymentRespectsQueue
<1> DEFINE A == ~AtAsaas => \A o \in Order :
                  ~paid[o] /\ paid'[o] /\ o \in Active' \ Active => Waiting = {}
<1>1. ASSUME IInv, [Next]_vars PROVE A
  <2> USE <1>1 DEF IInv
  <2>1. paid' = paid => A
    OBVIOUS
  <2>2. ASSUME NEW o \in Order, Finalize(o) PROVE A
    <3>1. Active' \subseteq Active \cup {o} /\ (MustQueue => Active' \subseteq Active)
      BY <2>2, FinalizeStep
    <3>2. ~MustQueue => Waiting = {}
      BY DEF MustQueue
    <3> QED BY <3>1, <3>2
  <2>3. ASSUME NEW o \in Order, ConfirmCash(o) PROVE A
    BY <2>3, QuietSteps DEF Quiet
  <2>4. ASSUME NEW o \in Order, ConfirmByWebhook(o) PROVE A
    BY <2>4 DEF ConfirmByWebhook, AtAsaas
  <2>5. ASSUME NEW o \in Order,
               Begin(o) \/ Create(o) \/ Retry(o) \/ Advance(o) \/ Cancel(o)
        PROVE  A
    BY <2>1, <2>5 DEF Begin, Create, Retry, Advance, Cancel, orders
  <2>6. CASE ReadCandidates \/ Admit \/ RollBack \/ UNCHANGED vars
    BY <2>1, <2>6 DEF ReadCandidates, Admit, RollBack, vars, orders
  <2> QED BY <1>1, <2>2, <2>3, <2>4, <2>5, <2>6 DEF Next
<1>2. Init => IInv
  BY InitInv DEF IInv
<1>3. IInv /\ [Next]_vars => [A]_vars
  BY <1>1
<1> QED BY <1>2, <1>3, IInvStep, PTL DEF Spec, PaymentRespectsQueue

-----------------------------------------------------------------------------
(* Tickets.                                                                *)

LEMMA TicketStep == IInv /\ Tickets /\ [Next]_vars => Tickets'
<1> SUFFICES ASSUME IInv, Tickets, [Next]_vars, Trigger = "NEW_ORDER" PROVE Tickets'
  BY DEF Tickets
<1> USE DEF IInv
<1>1. (UNCHANGED orders) => Tickets'
  BY DEF Tickets, Active, Queued, Operational, orders
<1>2. ASSUME NEW o \in Order, Create(o) PROVE Tickets'
  <2>1. /\ status[o] = "absent" /\ place[o] = 0 /\ ~paid[o] /\ ~admitted[o] /\ ~ticket[o]
        /\ UNCHANGED <<kind, paid, admitted>>
        /\ \A x \in Order : x # o => status'[x] = status[x] /\ place'[x] = place[x]
                                       /\ ticket'[x] = ticket[x]
    BY <1>2 DEF Create, Shape, TypeOK
  <2>2. seen[o] # "queue" => place'[o] = 0
    BY <1>2 DEF Create, TypeOK
  <2>3. ticket'[o] = (seen[o] # "queue" /\ kind[o] = "delivery")
    BY <1>2 DEF Create, TypeOK
  <2>4. seen[o] = "queue" => place'[o] # 0
    <3>1. NextPlace # 0
      BY PlaceTyped
    <3> QED BY <1>2, <3>1 DEF Create, TypeOK
  <2> QED BY <2>1, <2>2, <2>3, <2>4 DEF Tickets, Active, Queued, Operational, TypeOK
<1>3. ASSUME NEW o \in Order, ConfirmCash(o) PROVE Tickets'
  <2>1. UNCHANGED <<kind, status, place, admitted>> /\ kind[o] = "delivery"
          /\ \A x \in Order : x # o => paid'[x] = paid[x]
    BY <1>3 DEF ConfirmCash, ConfirmPayment, TypeOK
  <2>2. ticket' = ticket
    BY <1>3 DEF ConfirmCash, ConfirmPayment, PrintsOnPayment, TypeOK
  <2> QED BY <2>1, <2>2 DEF Tickets, Active, Queued, Operational
<1>4. ASSUME NEW o \in Order, Finalize(o) \/ ConfirmByWebhook(o) PROVE Tickets'
  <2>1. /\ UNCHANGED kind /\ kind[o] # "delivery" /\ ~paid[o] /\ ~ticket[o] /\ ~admitted[o]
        /\ paid'[o] /\ \A x \in Order : x # o => paid'[x] = paid[x] /\ ticket'[x] = ticket[x]
    BY <1>4 DEF Finalize, ConfirmByWebhook, ConfirmPayment, Unpaid, Tickets, Shape, TypeOK
  <2>2. \A x \in Order : x # o =>
          status'[x] = status[x] /\ place'[x] = place[x] /\ admitted'[x] = admitted[x]
    BY <1>4 DEF Finalize, ConfirmByWebhook, TypeOK
  <2>3. ticket'[o] <=> ~Queued(o)'
    <3>1. CASE Finalize(o) /\ MustQueue
      <4>1. NextPlace # 0
        BY PlaceTyped
      <4>2. ~ticket'[o] /\ place'[o] # 0 /\ ~admitted'[o]
        BY <2>1, <3>1, <4>1 DEF Finalize, ConfirmPayment, TypeOK
      <4> QED BY <4>2 DEF Queued
    <3>2. CASE ~(Finalize(o) /\ MustQueue)
      <4>1. ConfirmPayment(o, Queued(o)) /\ UNCHANGED <<place, admitted>>
        BY <1>4, <3>2 DEF Finalize, ConfirmByWebhook
      <4>2. ticket'[o] <=> ~Queued(o)
        BY <2>1, <4>1 DEF ConfirmPayment, PrintsOnPayment, TypeOK, Queued
      <4> QED BY <4>1, <4>2 DEF Queued
    <3> QED BY <3>1, <3>2
  <2> QED BY <2>1, <2>2, <2>3 DEF Tickets, Active, Queued, Operational
<1>5. ASSUME NEW o \in Order, Advance(o) \/ Cancel(o) PROVE Tickets'
  <2>1. Active' \subseteq Active
    BY <1>5, StaffSteps
  <2>2. UNCHANGED <<kind, paid, place, admitted, ticket>>
    BY <1>5 DEF Advance, Cancel
  <2> QED BY <2>1, <2>2 DEF Tickets, Queued
<1>6. CASE Admit
  <2>1. /\ UNCHANGED <<kind, paid, place>>
        /\ \A x \in Order : admitted'[x] = (admitted[x] \/ x \in batch \cap Waiting)
        /\ \A x \in Order : ticket'[x] = (ticket[x] \/ x \in batch \cap Waiting)
        /\ \A x \in Order : x \notin batch \cap Waiting => status'[x] = status[x]
    BY <1>6 DEF Admit, PrintsOnAdmission, TypeOK
  <2>2. \A x \in Waiting : x \in Order /\ place[x] # 0 /\ Operational(x)
    BY DEF Waiting, Queued
  <2> QED BY <2>1, <2>2 DEF Tickets, Active, Queued, Operational, TypeOK
<1>7. ASSUME NEW o \in Order, Begin(o) \/ Retry(o) PROVE Tickets'
  BY <1>1, <1>7 DEF Begin, Retry
<1>8. CASE ReadCandidates \/ RollBack \/ UNCHANGED vars
  BY <1>1, <1>8 DEF ReadCandidates, RollBack, vars
<1> QED BY <1>2, <1>3, <1>4, <1>5, <1>6, <1>7, <1>8 DEF Next

(* With the trigger NEW_ORDER the kitchen holds the ticket of exactly the  *)
(* orders it may work on, whatever confirms the payments.                  *)
THEOREM TicketSafety == ASSUME Trigger = "NEW_ORDER" PROVE Spec => []TicketFollowsAdmission
<1>1. Init => IInv /\ Tickets
  <2>1. Init => Tickets
    BY DEF Init, Tickets, Queued, Active, Live
  <2> QED BY <2>1, InitInv DEF IInv
<1>2. IInv /\ Tickets /\ [Next]_vars => (IInv /\ Tickets)'
  BY IInvStep, TicketStep
<1>3. Tickets => TicketFollowsAdmission
  BY DEF Tickets, TicketFollowsAdmission, Waiting
<1> QED BY <1>1, <1>2, <1>3, PTL DEF Spec
=============================================================================
