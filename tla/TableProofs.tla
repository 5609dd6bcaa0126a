---------------------------- MODULE TableProofs ----------------------------
(***************************************************************************)
(* What holds of the tables of a restaurant: first of their bills, then of *)
(* their reservations, which share the sessions but no state of the        *)
(* models.                                                                 *)
(*                                                                         *)
(* What holds of every bill, whatever its orders, items, prices, payers    *)
(* and payment intents.                                                    *)
(*                                                                         *)
(* The first part is about sums of cents. The induction theorems of the    *)
(* library take a predicate, which the provers cannot instantiate; here an *)
(* induction over finite sets is a smallest counterexample instead, whose  *)
(* existence is a statement about sets (SmallestSet).                      *)
(*                                                                         *)
(* IInv is about the life of intents, LInv about the ledger. The ledger is *)
(* only known to be sound together with: what was not ordered yet is free, *)
(* and what no intent ever held is shown as unpaid (FreshIsFree).          *)
(***************************************************************************)
EXTENDS TableBill, TableReservation, FiniteSetTheorems, TLAPS

-----------------------------------------------------------------------------
(* Sums of cents over finite sets of intents.                              *)

(* Induction over finite sets, as the choice of a smallest one.            *)
LEMMA SmallestSet ==
  ASSUME NEW F, F # {}, \A s \in F : IsFiniteSet(s)
  PROVE  \E s \in F : \A i \in s : s \ {i} \notin F
<1> DEFINE Sizes == {Cardinality(s) : s \in F}
<1>1. Sizes \subseteq Nat /\ Sizes # {}
  BY FS_CardinalityType
<1>2. PICK n \in Sizes : \A m \in Sizes : ~ (<<m, n>> \in OpToRel(<, Nat))
  BY <1>1, WFMin, NatLessThanWellFounded, Zenon
<1>3. PICK s \in F : Cardinality(s) = n
  BY <1>2
<1>4. ASSUME NEW i \in s, s \ {i} \in F
      PROVE  FALSE
  <2>1. Cardinality(s \ {i}) = n - 1 /\ Cardinality(s \ {i}) \in Sizes
    BY <1>3, <1>4, FS_RemoveElement
  <2>2. n \in Nat /\ n - 1 \in Nat
    BY <2>1, <1>1
  <2>3. <<n - 1, n>> \in OpToRel(<, Nat)
    <3> HIDE DEF Sizes
    <3>1. \A ss \in Nat \X Nat : ss[1] < ss[2] => ss \in OpToRel(<, Nat)
      BY DEF OpToRel
    <3>2. <<n - 1, n>> \in Nat \X Nat /\ n - 1 < n
      BY <2>2
    <3> QED BY <3>1, <3>2
  <2> QED BY <2>1, <2>3, <1>2
<1> QED BY <1>3, <1>4

(* The cents that the intents of I pay of item x when they are allocated   *)
(* by a: Share, for any allocation.                                        *)
Cents(a, x, I) == MapThenSumSet(LAMBDA i : a[i][x], I)

(* The recursion a sum stands for.                                         *)
First(s) == CHOOSE i \in s : TRUE
Sums(a, x, I, f) ==
  f = [s \in SUBSET I |-> IF s = {} THEN 0 ELSE a[First(s)][x] + f[s \ {First(s)}]]

LEMMA CentsBySums ==
  ASSUME NEW a, NEW x, NEW I
  PROVE  Cents(a, x, I) = (CHOOSE f : Sums(a, x, I, f))[I]
BY DEF Cents, Sums, First, MapThenSumSet, MapThenFoldSet

(* Two such functions agree where both are defined.                        *)
LEMMA SumsAgree ==
  ASSUME NEW a, NEW x, NEW I, NEW J, NEW f, NEW g, Sums(a, x, I, f), Sums(a, x, J, g),
         IsFiniteSet(I), NEW s \in SUBSET (I \cap J)
  PROVE  f[s] = g[s]
<1> DEFINE Bad == {t \in SUBSET (I \cap J) : f[t] # g[t]}
<1>1. SUFFICES Bad = {}
  OBVIOUS
<1>2. SUFFICES ASSUME Bad # {} PROVE FALSE
  OBVIOUS
<1>3. \A t \in Bad : IsFiniteSet(t)
  BY FS_Subset
<1> HIDE DEF Bad
<1>4. PICK t \in Bad : \A i \in t : t \ {i} \notin Bad
  BY <1>2, <1>3, SmallestSet
<1> USE DEF Bad
<1>5. t # {}
  BY <1>4 DEF Sums
<1>6. First(t) \in t
  BY <1>5 DEF First
<1>7. f[t \ {First(t)}] = g[t \ {First(t)}]
  BY <1>4, <1>6
<1> QED BY <1>4, <1>5, <1>7 DEF Sums

(* There is one for every finite set.                                      *)
LEMMA SumsExist ==
  ASSUME NEW a, NEW x, NEW I, IsFiniteSet(I)
  PROVE  \E f : Sums(a, x, I, f)
<1> DEFINE Bad == {t \in SUBSET I : ~ \E f : Sums(a, x, t, f)}
           G(t) == CHOOSE f : Sums(a, x, t, f)
<1>1. SUFFICES ASSUME Bad # {} PROVE FALSE
  OBVIOUS
<1>2. \A t \in Bad : IsFiniteSet(t)
  BY FS_Subset
<1> HIDE DEF Bad
<1>3. PICK t \in Bad : \A i \in t : t \ {i} \notin Bad
  BY <1>1, <1>2, SmallestSet
<1> USE DEF Bad
<1>4. ASSUME NEW i \in t, NEW u \in SUBSET (t \ {i})
      PROVE  \E f : Sums(a, x, u, f)
  <2>1. PICK g : Sums(a, x, t \ {i}, g)
    BY <1>3
  <2>2. Sums(a, x, u, [s \in SUBSET u |-> g[s]])
    <3>1. \A s \in SUBSET u : s # {} => First(s) \in s
      BY DEF First
    <3> QED BY <2>1, <3>1 DEF Sums
  <2> QED BY <2>2
<1>5. \A s \in SUBSET t : s # {} => First(s) \in s
  BY DEF First
<1>6. \A s \in SUBSET t : s # {} => Sums(a, x, s \ {First(s)}, G(s \ {First(s)}))
  BY <1>4, <1>5
<1> DEFINE h == [s \in SUBSET t |->
                   IF s = {} THEN 0
                             ELSE a[First(s)][x] + G(s \ {First(s)})[s \ {First(s)}]]
<1>7. ASSUME NEW s \in SUBSET t, s # {}
      PROVE  h[s \ {First(s)}] = G(s \ {First(s)})[s \ {First(s)}]
  <2> DEFINE u == s \ {First(s)}
             v == u \ {First(u)}
  <2>1. Sums(a, x, u, G(u))
    BY <1>6, <1>7
  <2>2. CASE u = {}
    BY <2>1, <2>2 DEF Sums
  <2>3. CASE u # {}
    <3>1. Sums(a, x, v, G(v))
      BY <1>6, <2>3
    <3>2. IsFiniteSet(u) /\ v \in SUBSET (u \cap v)
      BY FS_Subset, <1>2, <1>3
    <3>3. G(u)[v] = G(v)[v]
      <4> HIDE DEF G, u, v
      <4> QED BY <2>1, <3>1, <3>2, SumsAgree
    <3>4. G(u)[u] = a[First(u)][x] + G(u)[v]
      BY <2>1, <2>3 DEF Sums
    <3>5. h[u] = a[First(u)][x] + G(v)[v]
      <4> u \in SUBSET t
        OBVIOUS
      <4> HIDE DEF G
      <4> QED BY <2>3
    <3> QED BY <3>3, <3>4, <3>5
  <2> QED BY <2>2, <2>3
<1>8. Sums(a, x, t, h)
  <2> HIDE DEF G
  <2>1. \A s \in SUBSET t : h[s] = IF s = {} THEN 0 ELSE a[First(s)][x] + h[s \ {First(s)}]
    BY <1>7
  <2>2. h = [s \in SUBSET t |-> h[s]]
    OBVIOUS
  <2> HIDE DEF h
  <2> QED BY <2>1, <2>2 DEF Sums
<1> QED BY <1>3, <1>8

LEMMA CentsStep ==
  ASSUME NEW a, NEW x, NEW I, IsFiniteSet(I)
  PROVE  Cents(a, x, I) =
           IF I = {} THEN 0 ELSE a[First(I)][x] + Cents(a, x, I \ {First(I)})
<1> DEFINE f == CHOOSE f : Sums(a, x, I, f)
           J == I \ {First(I)}
           g == CHOOSE g : Sums(a, x, J, g)
<1>1. Sums(a, x, I, f)
  BY SumsExist
<1>2. Cents(a, x, I) = f[I] /\ Cents(a, x, J) = g[J]
  BY CentsBySums
<1>3. CASE I = {}
  BY <1>1, <1>2, <1>3 DEF Sums
<1>4. CASE I # {}
  <2>1. Sums(a, x, J, g)
    BY SumsExist, FS_Subset
  <2>2. f[J] = g[J]
    <3>1. J \in SUBSET (I \cap J)
      OBVIOUS
    <3> HIDE DEF f, g, J
    <3> QED BY <1>1, <2>1, <3>1, SumsAgree
  <2>3. f[I] = a[First(I)][x] + f[J]
    BY <1>1, <1>4 DEF Sums
  <2> QED BY <1>2, <1>4, <2>2, <2>3
<1> QED BY <1>3, <1>4

(* A sum of naturals is one.                                               *)
LEMMA CentsNat ==
  ASSUME NEW a, NEW x, NEW I, IsFiniteSet(I), \A i \in I : a[i][x] \in Nat
  PROVE  Cents(a, x, I) \in Nat
<1> DEFINE Bad == {s \in SUBSET I : Cents(a, x, s) \notin Nat}
<1>1. SUFFICES ASSUME Bad # {} PROVE FALSE
  OBVIOUS
<1>2. \A s \in Bad : IsFiniteSet(s)
  BY FS_Subset
<1> HIDE DEF Bad
<1>3. PICK s \in Bad : \A i \in s : s \ {i} \notin Bad
  BY <1>1, <1>2, SmallestSet
<1> USE DEF Bad
<1>4. IsFiniteSet(s) /\ s \in SUBSET I /\ Cents(a, x, s) \notin Nat
  BY <1>2
<1>5. s # {} => First(s) \in s
  BY DEF First
<1>6. Cents(a, x, s) = IF s = {} THEN 0 ELSE a[First(s)][x] + Cents(a, x, s \ {First(s)})
  BY <1>4, CentsStep
<1>7. s # {} => Cents(a, x, s \ {First(s)}) \in Nat /\ a[First(s)][x] \in Nat
  BY <1>3, <1>4, <1>5
<1> QED BY <1>4, <1>6, <1>7

(* Any member may be taken out of a sum.                                   *)
LEMMA CentsWithout ==
  ASSUME NEW a, NEW x, NEW I, IsFiniteSet(I), \A i \in I : a[i][x] \in Nat, NEW j \in I
  PROVE  Cents(a, x, I) = a[j][x] + Cents(a, x, I \ {j})
<1> DEFINE Bad == {s \in SUBSET I :
                     \E i \in s : Cents(a, x, s) # a[i][x] + Cents(a, x, s \ {i})}
<1>1. SUFFICES ASSUME Bad # {} PROVE FALSE
  OBVIOUS
<1>2. \A s \in SUBSET I : IsFiniteSet(s)
  BY FS_Subset
<1> HIDE DEF Bad
<1>3. PICK s \in Bad : \A i \in s : s \ {i} \notin Bad
  <2>1. \A s \in Bad : IsFiniteSet(s)
    BY <1>2 DEF Bad
  <2> QED BY <1>1, <2>1, SmallestSet
<1> USE DEF Bad
<1>4. PICK i \in s : Cents(a, x, s) # a[i][x] + Cents(a, x, s \ {i})
  BY <1>3
<1> DEFINE k == First(s)
<1>5. k \in s
  BY <1>4 DEF First
<1>6. Cents(a, x, s) = a[k][x] + Cents(a, x, s \ {k})
  BY <1>2, <1>4, CentsStep
<1>7. k # i
  BY <1>4, <1>6
<1> HIDE DEF k
<1>8. Cents(a, x, s \ {k}) = a[i][x] + Cents(a, x, (s \ {k}) \ {i})
  BY <1>3, <1>4, <1>5, <1>7
<1>9. Cents(a, x, s \ {i}) = a[k][x] + Cents(a, x, (s \ {i}) \ {k})
  BY <1>3, <1>4, <1>5, <1>7
<1>10. (s \ {k}) \ {i} = (s \ {i}) \ {k}
  OBVIOUS
<1>11. a[k][x] \in Nat /\ a[i][x] \in Nat /\ Cents(a, x, (s \ {i}) \ {k}) \in Nat
  <2>1. IsFiniteSet((s \ {i}) \ {k}) /\ \A m \in (s \ {i}) \ {k} : a[m][x] \in Nat
    BY <1>2
  <2> QED BY <2>1, <1>4, <1>5, CentsNat
<1>12. Cents(a, x, s \ {k}) = a[i][x] + Cents(a, x, (s \ {i}) \ {k})
  BY <1>8, <1>10
<1>13. Cents(a, x, s) = a[i][x] + Cents(a, x, s \ {i})
  BY <1>6, <1>9, <1>11, <1>12
<1> QED BY <1>4, <1>13

(* More intents pay no less.                                               *)
LEMMA CentsMonotone ==
  ASSUME NEW a, NEW x, NEW I, IsFiniteSet(I), \A i \in I : a[i][x] \in Nat, NEW J \in SUBSET I
  PROVE  Cents(a, x, J) <= Cents(a, x, I)
<1> DEFINE Bad == {s \in SUBSET I : J \subseteq s /\ ~ Cents(a, x, J) <= Cents(a, x, s)}
<1>1. SUFFICES ASSUME Bad # {} PROVE FALSE
  OBVIOUS
<1>2. \A s \in SUBSET I : IsFiniteSet(s)
  BY FS_Subset
<1>a. \A s \in SUBSET I : Cents(a, x, s) \in Nat
  BY <1>2, CentsNat
<1> HIDE DEF Bad
<1>3. PICK s \in Bad : \A i \in s : s \ {i} \notin Bad
  <2>1. \A s \in Bad : IsFiniteSet(s)
    BY <1>2 DEF Bad
  <2> QED BY <1>1, <2>1, SmallestSet
<1> USE DEF Bad
<1>4. J # s
  BY <1>3, <1>a
<1>5. PICK i \in s : i \notin J
  BY <1>3, <1>4
<1>6. Cents(a, x, J) <= Cents(a, x, s \ {i})
  BY <1>3, <1>5
<1>7. Cents(a, x, s) = a[i][x] + Cents(a, x, s \ {i})
  BY <1>2, <1>3, CentsWithout
<1>8. Cents(a, x, s) \in Nat /\ Cents(a, x, s \ {i}) \in Nat /\ Cents(a, x, J) \in Nat /\ a[i][x] \in Nat
  BY <1>3, <1>a
<1>9. ~ Cents(a, x, J) <= Cents(a, x, s)
  BY <1>3
<1> QED BY <1>6, <1>7, <1>8, <1>9

(* A sum of nothing is nothing.                                            *)
LEMMA CentsZero ==
  ASSUME NEW a, NEW x, NEW I, IsFiniteSet(I), \A i \in I : a[i][x] = 0
  PROVE  Cents(a, x, I) = 0
<1> DEFINE Bad == {s \in SUBSET I : Cents(a, x, s) # 0}
<1>1. SUFFICES ASSUME Bad # {} PROVE FALSE
  OBVIOUS
<1>2. \A s \in Bad : IsFiniteSet(s)
  BY FS_Subset
<1> HIDE DEF Bad
<1>3. PICK s \in Bad : \A i \in s : s \ {i} \notin Bad
  BY <1>1, <1>2, SmallestSet
<1> USE DEF Bad
<1>4. s # {} => First(s) \in s
  BY DEF First
<1>5. Cents(a, x, s) = IF s = {} THEN 0 ELSE a[First(s)][x] + Cents(a, x, s \ {First(s)})
  BY <1>2, CentsStep
<1> QED BY <1>3, <1>4, <1>5

(* Only the allocations of the members count.                              *)
LEMMA CentsSame ==
  ASSUME NEW a, NEW b, NEW x, NEW I, IsFiniteSet(I), \A i \in I : a[i][x] = b[i][x]
  PROVE  Cents(a, x, I) = Cents(b, x, I)
<1> DEFINE Bad == {s \in SUBSET I : Cents(a, x, s) # Cents(b, x, s)}
<1>1. SUFFICES ASSUME Bad # {} PROVE FALSE
  OBVIOUS
<1>2. \A s \in Bad : IsFiniteSet(s)
  BY FS_Subset
<1> HIDE DEF Bad
<1>3. PICK s \in Bad : \A i \in s : s \ {i} \notin Bad
  BY <1>1, <1>2, SmallestSet
<1> USE DEF Bad
<1>4. s # {} => First(s) \in s
  BY DEF First
<1>5. Cents(a, x, s) = IF s = {} THEN 0 ELSE a[First(s)][x] + Cents(a, x, s \ {First(s)})
  BY <1>2, CentsStep
<1>6. Cents(b, x, s) = IF s = {} THEN 0 ELSE b[First(s)][x] + Cents(b, x, s \ {First(s)})
  BY <1>2, CentsStep
<1> QED BY <1>3, <1>4, <1>5, <1>6

-----------------------------------------------------------------------------
(* The part of the type invariant that IInv rests on.                      *)
Shape ==
  /\ status \in [Intent -> IntentStatus]
  /\ order \in [Order -> {"none", "admitted", "open", "served", "canceled", "dropped"}]
  /\ alloc = [i \in Intent |-> alloc[i]]
  /\ received \subseteq Cash

ReceivedIsKept ==
  \A i \in received : status[i] \in {"RESERVED", "PROCESSING", "PAID", "REFUNDED"}

IInv == Shape /\ ReceivedIsKept /\ CanceledItemHoldsNoMoney

USE DEF Pending, Committed, Terminal, IntentStatus

(* A sweep only ends pending intents that nobody received.                 *)
LEMMA SweepFacts ==
  ASSUME Shape, NEW stale
  PROVE  /\ Sweep(stale) \in [Intent -> IntentStatus]
         /\ \A i \in Intent : Sweep(stale)[i] # status[i] =>
              status[i] \in Pending /\ Sweep(stale)[i] = "EXPIRED" /\ i \notin received
BY DEF Shape, Sweep, Lapsed

(* A plan takes money only from items that are billed.                     *)
LEMMA PlanOnlyBilled ==
  ASSUME NEW stale, NEW p, NEW a \in Plans(stale, p), NEW x \in Item, a[x] # 0
  PROVE  Billed(x)
<1>1. \A y \in Eligible(stale) : Billed(y)
  BY DEF Eligible, Available
<1>2. \A sel \in SUBSET Eligible(stale) : a = Whole(stale, sel) => x \in Eligible(stale)
  BY DEF Whole
<1>3. CASE a \in SelectedItems(stale)
  <2>1. PICK sel \in SUBSET Eligible(stale) : a = Whole(stale, sel)
    BY <1>3 DEF SelectedItems
  <2> QED BY <2>1, <1>1, <1>2
<1>4. CASE a \in MyItems(stale, p)
  <2>1. PICK sel \in SUBSET Eligible(stale) : a = Whole(stale, sel)
    BY <1>4 DEF MyItems
  <2> QED BY <2>1, <1>1, <1>2
<1>5. CASE a \in Cut(stale)
  <2>1. PICK k : /\ k.item \in Eligible(stale)
                 /\ a = [y \in Item |-> CASE y = k.item -> k.cents
                           [] y \in Eligible(stale) /\ y < k.item -> Available(stale, y)
                           [] OTHER -> 0]
    BY <1>5 DEF Cut
  <2>2. x \in Eligible(stale)
    BY <2>1
  <2> QED BY <2>2, <1>1
<1> QED BY <1>3, <1>4, <1>5 DEF Plans

(* The bill starts with no intent and no order.                            *)
LEMMA InitIInv == Init => IInv
BY DEF Init, IInv, Shape, ReceivedIsKept, CanceledItemHoldsNoMoney

(* The life of an intent.  One that is not touched, or one that was        *)
(* received in cash, has fewer moves.                                      *)
Moves(j) ==
  \/ status[j] = "none" /\ status'[j] = "RESERVED"
  \/ status[j] \in Pending /\ status'[j] \in {"PROCESSING", "PAID"} \cup Terminal
  \/ status[j] = "PAID" /\ status'[j] = "REFUNDED"
Lawful ==
  /\ status' \in [Intent -> IntentStatus]
  /\ \A j \in Intent : status'[j] # status[j] =>
       Moves(j) /\ (j \in received => status'[j] \in {"PAID", "REFUNDED"})
  /\ \A j \in received' \ received : j \in Cash /\ status'[j] \in Pending

(* Every transaction of the bill moves intents lawfully.                   *)
LEMMA StepIsLawful == IInv /\ [Next]_vars => Lawful
<1> SUFFICES ASSUME IInv, [Next]_vars PROVE Lawful
  OBVIOUS
<1> USE DEF Moves, Lawful
<1>s. \A stale :
        /\ Sweep(stale) \in [Intent -> IntentStatus]
        /\ \A i \in Intent : Sweep(stale)[i] # status[i] =>
              status[i] \in Pending /\ Sweep(stale)[i] = "EXPIRED" /\ i \notin received
  BY SweepFacts DEF IInv
<1>t. Shape /\ ReceivedIsKept
  BY DEF IInv
<1>c. Cash \subseteq Intent
  BY BillAssumption
<1>1. ASSUME NEW o \in Order, AdmitOrder(o) \/ PlaceOrder(o) \/ ServeOrder(o) \/ DropOrder(o) \/ CancelOrder(o)
      PROVE  Lawful
  BY <1>1, <1>t DEF Shape, DropOrder, AdmitOrder, PlaceOrder, ServeOrder, CancelOrder, NoPayment
<1>2. ASSUME NEW i \in Intent, Lapse(i)
      PROVE  Lawful
  BY <1>2, <1>t DEF Shape, Lapse
<1>3. ASSUME NEW p, NEW stale, RequestBill(p, stale)
      PROVE  Lawful
  BY <1>3, <1>t DEF Shape, RequestBill, NoPayment
<1>4. ASSUME NEW i \in Intent, NEW p, NEW stale, Reserve(i, p, stale)
      PROVE  Lawful
  <2>1. status[i] = "none" /\ i \notin received
    BY <1>4, <1>t DEF Reserve, ReceivedIsKept
  <2>2. status' = [Sweep(stale) EXCEPT ![i] = "RESERVED"] /\ received' = received
    BY <1>4 DEF Reserve
  <2>3. Sweep(stale) \in [Intent -> IntentStatus]
    BY <1>s
  <2>4. \A j \in Intent \ {i} : status'[j] = Sweep(stale)[j]
    BY <2>2, <2>3
  <2> QED BY <2>1, <2>2, <2>3, <2>4, <1>s
<1>5. ASSUME NEW i \in Intent, NEW stale, IntentStep(i, stale)
      PROVE  Lawful
  <2>1. CASE StartProcessing(i, stale) \/ ProviderRefused(i, stale) \/ ProviderGaveUp(i, stale)
    BY <2>1, <1>t DEF Shape, StartProcessing, ProviderRefused, ProviderGaveUp, Becomes
  <2>2. CASE ProviderPaid(i, stale) \/ Refund(i, stale)
    BY <2>2, <1>t DEF Shape, ProviderPaid, Refund, Becomes
  <2>3. CASE CancelIntent(i, stale)
    BY <2>3, <1>s, <1>t DEF Shape, CancelIntent
  <2>4. CASE StaffReceives(i, stale)
    BY <2>4, <1>s, <1>t, <1>c DEF Shape, StaffReceives
  <2>5. CASE AdminConfirms(i, stale)
    BY <2>5, <1>s, <1>t DEF Shape, AdminConfirms
  <2> QED BY <1>5, <2>1, <2>2, <2>3, <2>4, <2>5 DEF IntentStep
<1>6. ASSUME NEW stale, ExpireJob(stale)
      PROVE  Lawful
  BY <1>6, <1>s, <1>t DEF Shape, ExpireJob, SweepOnly
<1>7. ASSUME NEW stale, NEW later, ForceClose(stale) \/ CloseSession(later, stale)
      PROVE  Lawful
  BY <1>7, <1>s, <1>t DEF Shape, ForceClose, CloseSession, Close
<1>8. CASE UNCHANGED vars
  BY <1>8, <1>t DEF Shape, vars
<1> QED BY <1>1, <1>2, <1>3, <1>4, <1>5, <1>6, <1>7, <1>8 DEF Next

(* A lawful step gives no money to a canceled item unless it reserves: an  *)
(* uncommitted intent becomes committed in Reserve only.                   *)
LEMMA StepKeepsTables ==
  ASSUME IInv, [Next]_vars, Lawful
  PROVE  Shape' /\ CanceledItemHoldsNoMoney'
<1> USE DEF IInv, Shape, CanceledItemHoldsNoMoney, Holds
<1>a. \A x \in Item : OrderOf[x] \in Order
  BY BillAssumption
<1>1. CASE alloc' = alloc /\ order' = order
           /\ \A j \in Intent : status[j] = "none" => status'[j] = "none"
  <2>1. \A j \in Intent : status'[j] \in Committed => status[j] \in Committed
    BY <1>1 DEF Lawful, Moves
  <2>2. received' \subseteq Cash
    BY DEF Lawful
  <2> QED BY <1>1, <2>1, <2>2 DEF Lawful
<1>2. ASSUME NEW o \in Order, AdmitOrder(o) \/ PlaceOrder(o) \/ ServeOrder(o) \/ DropOrder(o) \/ CancelOrder(o)
      PROVE  Shape' /\ CanceledItemHoldsNoMoney'
  <2>1. UNCHANGED <<status, alloc, received>> /\ order' \in [Order -> {"none", "admitted", "open", "served", "canceled", "dropped"}]
    BY <1>2 DEF AdmitOrder, PlaceOrder, ServeOrder, DropOrder, CancelOrder, NoPayment
  <2>2. \A x \in Item : order'[OrderOf[x]] = "canceled" =>
          order[OrderOf[x]] = "canceled"
          \/ \A i \in Intent : status[i] \in Committed => ~ Holds(i, x)
    <3>1. CASE CancelOrder(o)
      BY <3>1, <1>a DEF CancelOrder, Touches, ItemsOf
    <3>2. CASE AdmitOrder(o) \/ PlaceOrder(o) \/ ServeOrder(o) \/ DropOrder(o)
      BY <3>2, <1>a DEF AdmitOrder, PlaceOrder, ServeOrder, DropOrder
    <3> QED BY <3>1, <3>2, <1>2
  <2> QED BY <2>1, <2>2
<1>3. ASSUME NEW i \in Intent, NEW p, NEW stale, Reserve(i, p, stale)
      PROVE  Shape' /\ CanceledItemHoldsNoMoney'
  <2>1. PICK a \in Plans(stale, p) : alloc' = [alloc EXCEPT ![i] = a]
    BY <1>3 DEF Reserve
  <2>2. order' = order /\ received' = received
    BY <1>3 DEF Reserve
  <2>3. alloc' = [j \in Intent |-> alloc'[j]] /\ \A j \in Intent \ {i} : alloc'[j] = alloc[j]
    BY <2>1
  <2>4. alloc'[i] = a
    BY <2>1
  <2>5. \A x \in Item : order[OrderOf[x]] = "canceled" => a[x] = 0
    BY PlanOnlyBilled DEF Billed
  <2>6. \A j \in Intent \ {i} : status'[j] \in Committed => status[j] \in Committed
    <3>1. status' = [Sweep(stale) EXCEPT ![i] = "RESERVED"]
      BY <1>3 DEF Reserve
    <3> QED BY <3>1, SweepFacts
  <2> QED BY <2>2, <2>3, <2>4, <2>5, <2>6 DEF Lawful
<1>4. CASE \E i \in Intent : Lapse(i)
  BY <1>4, <1>1 DEF Lapse
<1>5. ASSUME NEW stale, NEW p, RequestBill(p, stale)
      PROVE  Shape' /\ CanceledItemHoldsNoMoney'
  BY <1>5, <1>1 DEF RequestBill, NoPayment
<1>s. \A stale : \A j \in Intent : Sweep(stale)[j] # status[j] => status[j] # "none"
  BY SweepFacts
<1>6. ASSUME NEW stale, NEW i \in Intent, IntentStep(i, stale)
      PROVE  Shape' /\ CanceledItemHoldsNoMoney'
  <2>1. alloc' = alloc /\ order' = order
    BY <1>6 DEF IntentStep, StartProcessing, ProviderRefused, ProviderPaid, ProviderGaveUp,
                Refund, CancelIntent, StaffReceives, AdminConfirms, Becomes
  <2>2. status[i] # "none"
    <3>1. Sweep(stale)[i] \in Pending => status[i] # "none"
      BY <1>s
    <3> QED BY <3>1, <1>6 DEF IntentStep, StartProcessing, ProviderRefused, ProviderPaid,
                ProviderGaveUp, Refund, CancelIntent, StaffReceives, AdminConfirms, Becomes
  <2>3. \A j \in Intent \ {i} : status'[j] \in {status[j], Sweep(stale)[j]}
    BY <1>6, SweepFacts DEF IntentStep, StartProcessing, ProviderRefused, ProviderPaid,
                ProviderGaveUp, Refund, CancelIntent, StaffReceives, AdminConfirms, Becomes
  <2> QED BY <1>1, <1>s, <2>1, <2>2, <2>3
<1>7. ASSUME NEW stale, NEW later,
             ExpireJob(stale) \/ ForceClose(stale) \/ CloseSession(later, stale)
      PROVE  Shape' /\ CanceledItemHoldsNoMoney'
  <2>1. alloc' = alloc /\ order' = order /\ status' = Sweep(stale)
    BY <1>7 DEF ExpireJob, SweepOnly, ForceClose, CloseSession, Close
  <2> QED BY <1>1, <1>s, <2>1
<1>8. CASE UNCHANGED vars
  BY <1>8, <1>1 DEF vars
<1> QED BY <1>2, <1>3, <1>4, <1>5, <1>6, <1>7, <1>8 DEF Next

(* Every transaction preserves the invariant.                              *)
LEMMA NextIInv == IInv /\ [Next]_vars => IInv'
<1> SUFFICES ASSUME IInv, [Next]_vars PROVE IInv'
  OBVIOUS
<1>1. Lawful
  BY StepIsLawful
<1>2. Shape' /\ CanceledItemHoldsNoMoney'
  BY <1>1, StepKeepsTables
<1>3. ReceivedIsKept'
  BY <1>1, BillAssumption DEF IInv, Shape, ReceivedIsKept, Lawful, Moves
<1> QED BY <1>2, <1>3 DEF IInv

(* The invariant the other theorems rest on holds in every reachable state. *)
THEOREM Invariance == Spec => []IInv
BY InitIInv, NextIInv, PTL DEF Spec

(* Nothing pays for, or is about to pay for, an item of a canceled order.  *)
THEOREM CancellationSafety == Spec => []CanceledItemHoldsNoMoney
<1>1. IInv => CanceledItemHoldsNoMoney
  BY DEF IInv
<1> QED BY <1>1, Invariance, PTL

(* Cash in a waiter's hands is never written off.                          *)
THEOREM ReceivedCashSafety == Spec => ReceivedCashNeverExpires
<1>1. IInv /\ [Next]_vars =>
        [\A i \in received : status'[i] # status[i] => status'[i] \in {"PAID", "REFUNDED"}]_vars
  BY StepIsLawful, BillAssumption DEF IInv, Shape, Lawful
<1> QED BY <1>1, Invariance, PTL DEF Spec, ReceivedCashNeverExpires

(* No terminal intent comes back to life.                                  *)
THEOREM TerminalSafety == Spec => TerminalIsFinal
<1>1. IInv /\ [Next]_vars =>
        [\A i \in Intent : status[i] \in Terminal => status'[i] = status[i]]_vars
  BY StepIsLawful DEF Lawful, Moves
<1> QED BY <1>1, Invariance, PTL DEF Spec, TerminalIsFinal

-----------------------------------------------------------------------------
(* The ledger.                                                             *)

Created == {i \in Intent : status[i] # "none"}
CommittedIntents == {i \in Intent : status[i] \in Committed}

(* Nobody pays for what was not ordered yet, and nothing is shown as paid  *)
(* or pledged that no intent ever held.  No intent pays more than a price.  *)
FreshIsFree ==
  /\ \A o \in Order : order[o] \in {"none", "admitted"} =>
       ~ paid[o] /\ \A i \in Intent, x \in ItemsOf(o) : ~ Holds(i, x)
  /\ \A x \in Item : (\A i \in Intent : ~ Holds(i, x)) => itemStatus[x] = "UNPAID"
  /\ \A i \in Intent, x \in Item :
       /\ status[i] = "none" => ~ Holds(i, x)
       /\ alloc[i][x] <= Price[x]

LInv ==
  /\ TypeOK
  /\ IsFiniteSet(Created)
  /\ FreshIsFree
  /\ NoOverAllocation
  /\ ProjectionFollowsLedger
  /\ ClosedSessionSettled

(* Shares are sums of cents, before and after a step.                      *)
LEMMA ShareIsCents ==
  ASSUME NEW x
  PROVE  /\ \A I : Share(x, I) = Cents(alloc, x, I)
         /\ PaidCents(x) = Cents(alloc, x, With("PAID"))
         /\ PaidCents(x)' = Cents(alloc', x, With("PAID")')
         /\ Share(x, CommittedIntents) = Cents(alloc, x, CommittedIntents)
         /\ Share(x, CommittedIntents)' = Cents(alloc', x, CommittedIntents')
<1>1. \A I : Share(x, I) = Cents(alloc, x, I)
  BY DEF Share, Cents
<1>2. PaidCents(x) = Cents(alloc, x, With("PAID"))
  BY DEF PaidCents, Share, Cents
<1>3. PaidCents(x)' = Cents(alloc', x, With("PAID")')
  BY DEF PaidCents, Share, Cents, MapThenSumSet, MapThenFoldSet
<1>4. Share(x, CommittedIntents) = Cents(alloc, x, CommittedIntents)
  BY <1>1
<1>5. Share(x, CommittedIntents)' = Cents(alloc', x, CommittedIntents')
  BY DEF Share, Cents, MapThenSumSet, MapThenFoldSet
<1> QED BY <1>1, <1>2, <1>3, <1>4, <1>5

(* Sets of created intents are finite and their cents are natural numbers. *)
LEMMA CreatedSums ==
  ASSUME LInv, NEW x \in Item, NEW I \in SUBSET Created
  PROVE  /\ IsFiniteSet(I)
         /\ \A i \in I : alloc[i][x] \in Nat
         /\ Share(x, I) \in Nat
         /\ \A J \in SUBSET I : Share(x, J) \in Nat /\ Share(x, J) <= Share(x, I)
<1>1. IsFiniteSet(I) /\ \A J \in SUBSET I : IsFiniteSet(J)
  BY FS_Subset DEF LInv
<1>2. \A i \in Intent : alloc[i][x] \in Nat
  BY DEF LInv, TypeOK
<1>3. \A i \in I : alloc[i][x] \in Nat
  BY <1>2 DEF Created
<1>4. \A J \in SUBSET I : Cents(alloc, x, J) \in Nat
  BY <1>1, <1>3, CentsNat
<1>5. \A J \in SUBSET I : Cents(alloc, x, J) <= Cents(alloc, x, I)
  BY <1>1, <1>3, CentsMonotone
<1> QED BY <1>1, <1>3, <1>4, <1>5, ShareIsCents

(* What a reservation counts when it is made.                              *)
Counted(stale) ==
  With("PAID") \cup ((With("RESERVED") \cup With("PROCESSING")) \ Lapsed(stale))

LEMMA AvailableFacts ==
  ASSUME LInv, NEW stale, NEW x \in Item
  PROVE  /\ Counted(stale) \in SUBSET CommittedIntents
         /\ Available(stale, x) = IF Billed(x) THEN Price[x] - Share(x, Counted(stale)) ELSE 0
         /\ Share(x, Counted(stale)) \in Nat
         /\ Share(x, Counted(stale)) <= Price[x]
         /\ Price[x] \in Nat
         /\ Available(stale, x) \in Nat
<1>1. Counted(stale) \in SUBSET CommittedIntents /\ CommittedIntents \in SUBSET Created
  BY DEF Counted, CommittedIntents, Created, With
<1>2. Available(stale, x) = IF Billed(x) THEN Price[x] - Share(x, Counted(stale)) ELSE 0
  BY DEF Available, Counted
<1>3. Share(x, Counted(stale)) \in Nat /\ Share(x, CommittedIntents) \in Nat
      /\ Share(x, Counted(stale)) <= Share(x, CommittedIntents)
  BY <1>1, CreatedSums
<1>4. Share(x, CommittedIntents) <= Price[x] /\ Price[x] \in Nat
  BY BillAssumption DEF LInv, NoOverAllocation, CommittedIntents
<1> QED BY <1>1, <1>2, <1>3, <1>4

(* A plan takes no more of an item than is available.                      *)
LEMMA PlanWithinAvailable ==
  ASSUME LInv, NEW stale, NEW p, NEW a \in Plans(stale, p)
  PROVE  /\ a \in [Item -> Nat]
         /\ \A x \in Item : a[x] = 0 \/ a[x] <= Available(stale, x)
<1>1. \A x \in Item : Available(stale, x) \in Nat
  BY AvailableFacts
<1>2. \A sel : /\ Whole(stale, sel) \in [Item -> Nat]
               /\ \A x \in Item : Whole(stale, sel)[x] \in {0, Available(stale, x)}
  BY <1>1 DEF Whole
<1>3. CASE a \in SelectedItems(stale)
  <2>1. PICK sel : a = Whole(stale, sel)
    BY <1>3 DEF SelectedItems
  <2> QED BY <2>1, <1>1, <1>2
<1>4. CASE a \in MyItems(stale, p)
  <2>1. PICK sel : a = Whole(stale, sel)
    BY <1>4 DEF MyItems
  <2> QED BY <2>1, <1>1, <1>2
<1>5. CASE a \in Cut(stale)
  <2>0. PICK y \in Eligible(stale) : \E k \in [item : {y}, cents : 1 .. Available(stale, y)] :
          a = [x \in Item |-> CASE x = k.item -> k.cents
                 [] x \in Eligible(stale) /\ x < k.item -> Available(stale, x)
                 [] OTHER -> 0]
    BY <1>5 DEF Cut
  <2>1. PICK k \in [item : {y}, cents : 1 .. Available(stale, y)] :
          a = [x \in Item |-> CASE x = k.item -> k.cents
                 [] x \in Eligible(stale) /\ x < k.item -> Available(stale, x)
                 [] OTHER -> 0]
    BY <2>0
  <2>2. k.item = y /\ y \in Item /\ k.cents \in Nat /\ k.cents <= Available(stale, y)
    BY <2>1, <1>1 DEF Eligible
  <2>3. \A x \in Item : a[x] \in {0, Available(stale, x)} \/ (x = y /\ a[x] = k.cents)
    <3> TAKE x \in Item
    <3> QED BY <2>1, <2>2, <1>1, BillAssumption
  <2>4. a = [x \in Item |-> a[x]]
    BY <2>1
  <2> QED BY <2>2, <2>3, <2>4, <1>1
<1> QED BY <1>3, <1>4, <1>5 DEF Plans

(* The ledger starts empty.                                                *)
LEMMA InitLInv == Init => LInv
<1> SUFFICES ASSUME Init PROVE LInv
  OBVIOUS
<1>1. TypeOK
  BY DEF Init, TypeOK, Financial
<1>2. Created = {} /\ CommittedIntents = {}
  BY DEF Init, Created, CommittedIntents
<1>3. IsFiniteSet(Created)
  BY <1>2, FS_EmptySet
<1>4. FreshIsFree
  BY BillAssumption DEF Init, FreshIsFree, Holds, ItemsOf
<1>5. NoOverAllocation
  <2> SUFFICES ASSUME NEW x \in Item PROVE Share(x, CommittedIntents) <= Price[x]
    BY DEF NoOverAllocation, CommittedIntents
  <2>1. Share(x, CommittedIntents) = 0
    BY <1>2, CentsStep, FS_EmptySet, ShareIsCents
  <2> QED BY <2>1, BillAssumption
<1>6. ProjectionFollowsLedger /\ ClosedSessionSettled
  BY BillAssumption DEF Init, ProjectionFollowsLedger, ClosedSessionSettled, Billed
<1> QED BY <1>1, <1>3, <1>4, <1>5, <1>6 DEF LInv

(* What a step may be for the ledger: one of a reservation, of an order,   *)
(* or of intents already created; and the bill is projected again unless   *)
(* no status changed.                                                      *)
OrderStep ==
  \E o \in Order :
    /\ UNCHANGED <<status, alloc, due, received, itemStatus, paid, finance, session, blocked>>
    /\ order' \in [Order -> {"none", "admitted", "open", "served", "canceled", "dropped"}]
    /\ \A q \in Order \ {o} : order'[q] = order[q]
    /\ \/ order[o] = "none" /\ order'[o] = "admitted" /\ session = "OPEN"
       \/ order[o] = "admitted" /\ order'[o] = "open" /\ session = "OPEN"
       \/ order[o] = "open" /\ order'[o] \in {"served", "dropped", "canceled"}

Projects == \E stale : Project(stale)

ReserveStep(i, a) ==
  /\ session = "OPEN" /\ status[i] = "none" /\ a \in [Item -> Nat]
  /\ alloc' = [alloc EXCEPT ![i] = a] /\ status'[i] = "RESERVED"
  /\ \A j \in Intent \ {i} : status'[j] = "none" <=> status[j] = "none"
  /\ \A x \in Item : a[x] # 0 => Billed(x)
  /\ \E stale : /\ CommittedIntents' = Counted(stale) \cup {i}
                /\ \A x \in Item : a[x] = 0 \/ a[x] <= Available(stale, x)
  /\ UNCHANGED <<due, received, order, blocked, session>> /\ Projects

LedgerStep ==
  /\ UNCHANGED <<alloc, order>>
  /\ \A j \in Intent : status'[j] = "none" <=> status[j] = "none"
  /\ due \subseteq due' /\ due' \subseteq Intent
  /\ blocked' \subseteq Participant
  /\ \/ Projects
     \/ UNCHANGED <<status, itemStatus, paid, finance>>
  /\ session' = session \/ (session = "OPEN" /\ session' = "CLOSED" /\
                              \E stale : AccountSettled(stale))

LEMMA StepKinds ==
  ASSUME IInv, LInv, [Next]_vars
  PROVE  OrderStep \/ LedgerStep \/ \E i \in Intent : \E a : ReserveStep(i, a)
<1>t. TypeOK /\ Lawful
  BY StepIsLawful DEF LInv
<1>n. \A j \in Intent : status[j] # "none" => status'[j] # "none"
  BY <1>t DEF Lawful, Moves
<1>s. \A stale : /\ Sweep(stale) \in [Intent -> IntentStatus]
                 /\ \A j \in Intent : Sweep(stale)[j] = "none" <=> status[j] = "none"
  BY SweepFacts DEF IInv
<1>1. ASSUME NEW o \in Order, AdmitOrder(o) \/ PlaceOrder(o) \/ ServeOrder(o) \/ DropOrder(o) \/ CancelOrder(o)
      PROVE  OrderStep
  <2>1. UNCHANGED <<status, alloc, due, received, itemStatus, paid, finance, session, blocked>>
    BY <1>1 DEF DropOrder, AdmitOrder, PlaceOrder, ServeOrder, CancelOrder, NoPayment, Unbilled
  <2>2. \E v \in {"admitted", "open", "served", "canceled", "dropped"} : order' = [order EXCEPT ![o] = v]
    BY <1>1 DEF DropOrder, AdmitOrder, PlaceOrder, ServeOrder, CancelOrder
  <2>3. \/ order[o] = "none" /\ order'[o] = "admitted" /\ session = "OPEN"
        \/ order[o] = "admitted" /\ order'[o] = "open" /\ session = "OPEN"
        \/ order[o] = "open" /\ order'[o] \in {"served", "dropped", "canceled"}
    BY <1>1, <1>t DEF TypeOK, DropOrder, AdmitOrder, PlaceOrder, ServeOrder, CancelOrder
  <2> QED BY <2>1, <2>2, <2>3, <1>t DEF TypeOK, OrderStep
<1>2. ASSUME NEW i \in Intent, Lapse(i)
      PROVE  LedgerStep
  BY <1>2, <1>t DEF TypeOK, Lapse, LedgerStep, Unbilled
<1>3. ASSUME NEW p \in Participant, NEW stale, RequestBill(p, stale)
      PROVE  LedgerStep
  BY <1>3, <1>t DEF TypeOK, RequestBill, NoPayment, Unbilled, LedgerStep
<1>4. ASSUME NEW i \in Intent, NEW p, NEW stale, Reserve(i, p, stale)
      PROVE  \E a : ReserveStep(i, a)
  <2>1. PICK a \in Plans(stale, p) : alloc' = [alloc EXCEPT ![i] = a]
    BY <1>4 DEF Reserve
  <2>2. a \in [Item -> Nat] /\ \A x \in Item : a[x] = 0 \/ a[x] <= Available(stale, x)
    BY PlanWithinAvailable
  <2>3. \A x \in Item : a[x] # 0 => Billed(x)
    BY PlanOnlyBilled
  <2>4. status'[i] = "RESERVED" /\ \A j \in Intent \ {i} : status'[j] = Sweep(stale)[j]
    BY <1>4, <1>s DEF Reserve
  <2>5. CommittedIntents' = Counted(stale) \cup {i}
    <3>1. \A j \in Intent : Sweep(stale)[j] \in Committed <=> j \in Counted(stale)
      BY DEF Sweep, Counted, With
    <3>2. Counted(stale) \subseteq Intent
      BY DEF Counted, With
    <3> QED BY <3>1, <3>2, <2>4 DEF CommittedIntents
  <2>6. UNCHANGED <<due, received, order, blocked, session>> /\ Projects
        /\ session = "OPEN" /\ status[i] = "none"
    BY <1>4 DEF Reserve, Projects
  <2> QED BY <2>1, <2>2, <2>3, <2>4, <2>5, <2>6, <1>s DEF ReserveStep
<1>5. ASSUME NEW i \in Intent, NEW stale, IntentStep(i, stale)
      PROVE  LedgerStep
  <2>1. UNCHANGED <<alloc, order, due, session>> /\ blocked' \subseteq Participant
    BY <1>5, <1>t DEF TypeOK, IntentStep, StartProcessing, ProviderRefused, ProviderPaid,
       ProviderGaveUp, Refund, CancelIntent, StaffReceives, AdminConfirms, Becomes, Release
  <2>2. Projects \/ UNCHANGED <<status, itemStatus, paid, finance>>
    BY <1>5 DEF Projects, IntentStep, StartProcessing, ProviderRefused, ProviderPaid, Unbilled,
       ProviderGaveUp, Refund, CancelIntent, StaffReceives, AdminConfirms, Becomes
  <2>3. status[i] # "none" /\ \A j \in Intent \ {i} : status'[j] \in {status[j], Sweep(stale)[j]}
    BY <1>5, <1>s, <1>t DEF TypeOK, IntentStep, StartProcessing, ProviderRefused, ProviderPaid,
       ProviderGaveUp, Refund, CancelIntent, StaffReceives, AdminConfirms, Becomes
  <2> QED BY <2>1, <2>2, <2>3, <1>n, <1>s, <1>t DEF LedgerStep, TypeOK
<1>6. ASSUME NEW stale, ExpireJob(stale)
      PROVE  LedgerStep
  <2>1. status' = Sweep(stale) /\ UNCHANGED <<alloc, order, due, session, blocked>>
        /\ (Projects \/ UNCHANGED <<status, itemStatus, paid, finance>>)
    BY <1>6 DEF ExpireJob, SweepOnly, Projects
  <2> QED BY <2>1, <1>s, <1>t DEF LedgerStep, TypeOK
<1>7. ASSUME NEW stale, NEW later, ForceClose(stale) \/ CloseSession(later, stale)
      PROVE  LedgerStep
  <2>1. status' = Sweep(stale) /\ UNCHANGED <<alloc, order, due, blocked>>
        /\ (Projects \/ UNCHANGED <<status, itemStatus, paid, finance>>)
        /\ session = "OPEN" /\ session' = "CLOSED" /\ \E st : AccountSettled(st)
    BY <1>7 DEF ForceClose, CloseSession, Close, Projects, Unbilled
  <2> QED BY <2>1, <1>s, <1>t DEF LedgerStep, TypeOK
<1>8. CASE UNCHANGED vars
  BY <1>8, <1>t DEF LedgerStep, TypeOK, vars
<1> QED BY <1>1, <1>2, <1>3, <1>4, <1>5, <1>6, <1>7, <1>8 DEF Next

(* What a projection shows.                                                *)
LEMMA StandingFacts ==
  \A stale, X :
    /\ Standing(stale, X)' \in Financial
    /\ Standing(stale, X)' = "PAID" <=> \A x \in X : Covered(x)'
    /\ Standing(stale, X)' = "PROCESSING" => \E x \in X : Held(stale, "PROCESSING", x)'
    /\ Standing(stale, X)' = "RESERVED" => \E x \in X : Held(stale, "RESERVED", x)'
    /\ Standing(stale, X)' = "UNPAID" =>
         \A x \in X : ~ Held(stale, "PROCESSING", x)' /\ ~ Held(stale, "RESERVED", x)'
BY DEF Standing, Financial

LEMMA UncoveredWithoutIntents ==
  ASSUME IsFiniteSet(Created), NEW x \in Item, \A i \in Intent : ~ Holds(i, x), Price[x] > 0
  PROVE  ~ Covered(x)
<1>1. With("PAID") \in SUBSET Created
  BY DEF With, Created
<1>2. IsFiniteSet(With("PAID"))
  BY <1>1, FS_Subset
<1>3. \A i \in With("PAID") : alloc[i][x] = 0
  BY DEF With, Holds
<1>4. PaidCents(x) = 0
  BY <1>2, <1>3, CentsZero, ShareIsCents
<1> QED BY <1>4, BillAssumption DEF Covered

LEMMA UncoveredWithoutIntentsNext ==
  ASSUME IsFiniteSet(Created'), NEW x \in Item, \A i \in Intent : ~ Holds(i, x)', Price[x] > 0
  PROVE  ~ Covered(x)'
<1>1. With("PAID")' \in SUBSET Created'
  BY DEF With, Created
<1>2. IsFiniteSet(With("PAID")')
  BY <1>1, FS_Subset
<1>3. \A i \in With("PAID")' : alloc'[i][x] = 0
  BY DEF With, Holds
<1>4. PaidCents(x)' = 0
  BY <1>2, <1>3, CentsZero, ShareIsCents
<1> QED BY <1>4, BillAssumption DEF Covered

(* A projection makes what is shown follow the ledger.                     *)
LEMMA ProjectionShowsLedger ==
  ASSUME TypeOK, NEW stale, Project(stale), order' = order, IsFiniteSet(Created'),
         \A i \in Intent, x \in Item : alloc'[i][x] <= Price[x] /\ alloc'[i][x] \in Nat,
         \A x \in Item : (\A i \in Intent : ~ Holds(i, x)') => itemStatus[x] = "UNPAID"
  PROVE  /\ itemStatus' \in [Item -> Financial]
         /\ paid' \in [Order -> BOOLEAN]
         /\ finance' \in [Order -> Financial]
         /\ ProjectionFollowsLedger'
         /\ \A x \in Item : (\A i \in Intent : ~ Holds(i, x)') => itemStatus'[x] = "UNPAID"
         /\ \A o \in Order : order[o] \in {"none", "admitted"} => paid'[o] = paid[o]
<1>1. /\ itemStatus' \in [Item -> Financial]
      /\ \A x \in Item : /\ ~ Billed(x) => itemStatus'[x] = "UNPAID"
                         /\ Billed(x) /\ Allocated(x)' => itemStatus'[x] = Standing(stale, {x})'
                         /\ Billed(x) /\ ~ Allocated(x)' => itemStatus'[x] = itemStatus[x]
  <2>1. itemStatus' = [x \in Item |->
            CASE ~ Billed(x) -> "UNPAID"
              [] Billed(x) /\ Allocated(x)' -> Standing(stale, {x})'
              [] Billed(x) /\ ~ Allocated(x)' -> itemStatus[x]]
    BY DEF Project
  <2>2. \A x \in Item : Standing(stale, {x})' \in Financial /\ itemStatus[x] \in Financial
    BY StandingFacts DEF TypeOK
  <2>3. "UNPAID" \in Financial
    BY DEF Financial
  <2> HIDE DEF Financial
  <2> QED BY <2>1, <2>2, <2>3
<1>2. paid' \in [Order -> BOOLEAN]
      /\ \A o \in Order : order[o] \in {"open", "served"} => paid'[o] = (\A x \in ItemsOf(o) : Covered(x))'
  <2>1. paid' = [o \in Order |->
          IF order[o] \in {"open", "served"} THEN (\A x \in ItemsOf(o) : Covered(x))' ELSE paid[o]]
    BY DEF Project
  <2>2. \A o \in Order : (\A x \in ItemsOf(o) : Covered(x))' \in BOOLEAN /\ paid[o] \in BOOLEAN
    BY DEF TypeOK
  <2> QED BY <2>1, <2>2
<1>3. finance' \in [Order -> Financial]
  <2>1. finance' = [o \in Order |->
          IF order[o] \in {"open", "served"} THEN Standing(stale, ItemsOf(o))' ELSE finance[o]]
    BY DEF Project
  <2>2. \A o \in Order : Standing(stale, ItemsOf(o))' \in Financial /\ finance[o] \in Financial
    <3>1. \A o : ItemsOf(o)' = ItemsOf(o)
      BY DEF ItemsOf
    <3> QED BY <3>1, StandingFacts DEF TypeOK
  <2> QED BY <2>1, <2>2
<1>4. \A x \in Item : (\A i \in Intent : ~ Holds(i, x)') => itemStatus'[x] = "UNPAID"
  BY <1>1 DEF Allocated
<1>5. ASSUME NEW x \in Item, Billed(x)
      PROVE  /\ itemStatus'[x] = "PAID" <=> Covered(x)' /\ Price[x] > 0
             /\ itemStatus'[x] \in Pending => \E i \in With(itemStatus[x])' : Holds(i, x)'
             /\ itemStatus'[x] = "UNPAID" =>
                  \A i \in Intent \ due' : status'[i] \in Pending => ~ Holds(i, x)'
  <2>1. CASE ~ Allocated(x)'
    <3>1. itemStatus'[x] = "UNPAID" /\ \A i \in Intent : ~ Holds(i, x)'
      BY <2>1, <1>4 DEF Allocated
    <3>2. Price[x] > 0 => ~ Covered(x)'
      BY <3>1, UncoveredWithoutIntentsNext
    <3> QED BY <3>1, <3>2
  <2>2. CASE Allocated(x)'
    <3>1. itemStatus'[x] = Standing(stale, {x})'
      BY <2>2, <1>1, <1>5
    <3>2. Price[x] > 0
      BY <2>2, BillAssumption DEF Allocated, Holds
    <3>3. itemStatus'[x] = "PAID" <=> Covered(x)'
      BY <3>1, StandingFacts
    <3>4. \A s \in Pending : itemStatus'[x] = s => Held(stale, s, x)'
      BY <3>1, StandingFacts
    <3>5. itemStatus'[x] = "UNPAID" => \A s \in Pending : ~ Held(stale, s, x)'
      BY <3>1, StandingFacts
    <3>6. \A s \in Pending : Held(stale, s, x)' =>
            \E i \in Intent : status'[i] = s /\ Holds(i, x)'
      BY DEF Held, With
    <3>7. itemStatus'[x] \in Pending => \E i \in With(itemStatus[x])' : Holds(i, x)'
      BY <3>4, <3>6 DEF With
    <3>8. itemStatus'[x] = "UNPAID" =>
                  \A i \in Intent \ due' : status'[i] \in Pending => ~ Holds(i, x)'
      <4> SUFFICES ASSUME itemStatus'[x] = "UNPAID", NEW i \in Intent \ due',
                          status'[i] \in Pending, Holds(i, x)'
                   PROVE  FALSE
        OBVIOUS
      <4>1. i \notin Lapsed(stale)'
        BY DEF Lapsed
      <4>2. CASE status'[i] = "PROCESSING"
        <5>1. Held(stale, "PROCESSING", x)'
          BY <4>1, <4>2 DEF Held, With
        <5> QED BY <5>1, <3>5
      <4>3. CASE status'[i] = "RESERVED"
        <5>1. Held(stale, "RESERVED", x)'
          BY <4>1, <4>3 DEF Held, With
        <5> QED BY <5>1, <3>5
      <4> QED BY <4>2, <4>3
    <3> QED BY <3>2, <3>3, <3>7, <3>8
  <2> QED BY <2>1, <2>2
<1>6. ProjectionFollowsLedger'
  <2>1. \A x \in Item : Billed(x)' <=> Billed(x)
    BY DEF Billed
  <2>2. \A o \in Order : order'[o] \in {"open", "served"} =>
          (paid'[o] <=> (\A x \in ItemsOf(o) : Covered(x))')
    BY <1>2
  <2> QED BY <1>5, <2>1, <2>2 DEF ProjectionFollowsLedger
<1>7. \A o \in Order : order[o] \in {"none", "admitted"} => paid'[o] = paid[o]
  <2> TAKE o \in Order
  <2> HAVE order[o] \in {"none", "admitted"}
  <2>1. order[o] \notin {"open", "served"}
    OBVIOUS
  <2> QED BY <2>1 DEF Project
<1> QED
  <2> HIDE DEF Financial
  <2> QED BY <1>1, <1>2, <1>3, <1>4, <1>6, <1>7

(* Items are covered and shown as before when neither payments nor orders  *)
(* change.                                                                 *)
LEMMA CoveredUnchanged ==
  ASSUME UNCHANGED <<status, alloc>>
  PROVE  \A x : Covered(x)' <=> Covered(x)
<1>1. With("PAID")' = With("PAID")
  BY DEF With
<1> QED BY <1>1, ShareIsCents DEF Covered

(* Orders enter the bill unpaid and leave it with no money on them.        *)
LEMMA OrderStepKeepsLedger ==
  ASSUME IInv, LInv, OrderStep
  PROVE  LInv'
<1>1. PICK o \in Order :
    /\ UNCHANGED <<status, alloc, due, received, itemStatus, paid, finance, session, blocked>>
    /\ order' \in [Order -> {"none", "admitted", "open", "served", "canceled", "dropped"}]
    /\ \A q \in Order \ {o} : order'[q] = order[q]
    /\ \/ order[o] = "none" /\ order'[o] = "admitted" /\ session = "OPEN"
       \/ order[o] = "admitted" /\ order'[o] = "open" /\ session = "OPEN"
       \/ order[o] = "open" /\ order'[o] \in {"served", "dropped", "canceled"}
  BY DEF OrderStep
<1>a. \A x \in Item : OrderOf[x] \in Order
  BY BillAssumption
<1>2. TypeOK'
  BY <1>1 DEF LInv, TypeOK
<1>3. Created' = Created /\ CommittedIntents' = CommittedIntents /\ \A q : ItemsOf(q)' = ItemsOf(q)
  BY <1>1 DEF Created, CommittedIntents, ItemsOf
<1>4. \A i, x : Holds(i, x)' <=> Holds(i, x)
  BY <1>1 DEF Holds
<1>5. FreshIsFree'
  <2>1. \A q \in Order : order'[q] \in {"none", "admitted"} => order[q] \in {"none", "admitted"}
    BY <1>1
  <2>2. \A q \in Order : \A x \in ItemsOf(q) : x \in Item
    BY DEF ItemsOf
  <2> QED BY <1>1, <1>3, <1>4, <2>1, <2>2 DEF LInv, FreshIsFree
<1>6. NoOverAllocation'
  <2> SUFFICES ASSUME NEW x \in Item PROVE Share(x, CommittedIntents)' <= Price[x]
    BY DEF NoOverAllocation, CommittedIntents
  <2>1. Share(x, CommittedIntents)' = Share(x, CommittedIntents)
    BY <1>1, <1>3, ShareIsCents
  <2>2. Share(x, CommittedIntents) <= Price[x]
    BY DEF LInv, NoOverAllocation, CommittedIntents
  <2> QED BY <2>1, <2>2
<1>7. \A x : Covered(x)' <=> Covered(x)
  BY <1>1, CoveredUnchanged
<1>8. \A x \in Item : order[OrderOf[x]] \in {"none", "admitted"} /\ Price[x] > 0 => ~ Covered(x)
  BY <1>a, UncoveredWithoutIntents DEF LInv, FreshIsFree, ItemsOf
<1>9. ASSUME NEW q \in Order, order'[q] \in {"open", "served"}, \E x \in ItemsOf(q) : Price[x] > 0
      PROVE  paid'[q] <=> (\A x \in ItemsOf(q) : Covered(x))'
  <2>1. (\A x \in ItemsOf(q) : Covered(x))' <=> \A x \in ItemsOf(q) : Covered(x)
    BY <1>3, <1>7
  <2>2. CASE order[q] \in {"open", "served"}
    BY <1>1, <1>9, <2>1, <2>2 DEF LInv, ProjectionFollowsLedger
  <2>3. CASE order[q] \notin {"open", "served"}
    <3>1. order[q] = "admitted"
      BY <1>1, <1>9, <2>3
    <3>2. ~ paid[q]
      BY <3>1 DEF LInv, FreshIsFree
    <3>3. \E x \in ItemsOf(q) : ~ Covered(x)
      BY <1>8, <1>9, <3>1 DEF ItemsOf
    <3> QED BY <1>1, <2>1, <3>2, <3>3
  <2> QED BY <2>2, <2>3
<1>10. ASSUME NEW x \in Item, Billed(x)'
       PROVE  /\ itemStatus'[x] = "PAID" <=> Covered(x)' /\ Price[x] > 0
              /\ itemStatus'[x] \in Pending => \E i \in With(itemStatus[x])' : Holds(i, x)'
              /\ itemStatus'[x] = "UNPAID" =>
                   \A i \in Intent \ due' : status'[i] \in Pending => ~ Holds(i, x)'
  <2>1. CASE Billed(x)
    <3>1. /\ itemStatus[x] = "PAID" <=> Covered(x) /\ Price[x] > 0
          /\ itemStatus[x] \in Pending => \E i \in With(itemStatus[x]) : Holds(i, x)
          /\ itemStatus[x] = "UNPAID" => \A i \in Intent \ due : status[i] \in Pending => ~ Holds(i, x)
      BY <2>1 DEF LInv, ProjectionFollowsLedger
    <3>2. With(itemStatus[x])' = With(itemStatus[x])
      BY <1>1 DEF With
    <3> QED BY <1>1, <1>4, <1>7, <3>1, <3>2
  <2>2. CASE ~ Billed(x)
    <3>1. order[OrderOf[x]] = "admitted"
      BY <1>1, <1>a, <1>10, <2>2 DEF Billed
    <3>2. itemStatus[x] = "UNPAID" /\ \A i \in Intent : ~ Holds(i, x)
      BY <3>1, <1>a DEF LInv, FreshIsFree, ItemsOf
    <3>3. ~ (Covered(x)' /\ Price[x] > 0)
      BY <3>1, <1>7, <1>8
    <3> QED BY <1>1, <1>4, <3>2, <3>3
  <2> QED BY <2>1, <2>2
<1>11. ProjectionFollowsLedger'
  BY <1>3, <1>9, <1>10 DEF ProjectionFollowsLedger
<1>12. ClosedSessionSettled'
  <2> SUFFICES ASSUME session' = "CLOSED", NEW i \in Intent, status'[i] \in Pending,
                      NEW x \in Item, Holds(i, x)'
               PROVE  order'[OrderOf[x]] = "dropped"
    BY DEF ClosedSessionSettled
  <2>1. order[OrderOf[x]] = "dropped"
    BY <1>1, <1>4 DEF LInv, ClosedSessionSettled
  <2> QED BY <1>1, <1>a, <2>1
<1> QED BY <1>2, <1>3, <1>5, <1>6, <1>11, <1>12 DEF LInv

(* Payments move no money between items, and closing finds all of it paid. *)
LEMMA LedgerStepKeepsLedger ==
  ASSUME IInv, LInv, LedgerStep, Lawful
  PROVE  LInv'
<1>1. UNCHANGED <<alloc, order>> /\ due' \subseteq Intent /\ blocked' \subseteq Participant
      /\ due \subseteq due' /\ session' \in {"OPEN", "CLOSED"}
  BY DEF LedgerStep, LInv, TypeOK
<1>2. Created' = Created
  BY DEF LedgerStep, Created
<1>3. CommittedIntents' \subseteq CommittedIntents
  BY DEF LedgerStep, CommittedIntents, Lawful, Moves
<1>4. \A i, x : Holds(i, x)' <=> Holds(i, x)
  BY <1>1 DEF Holds
<1>5. received' \subseteq Cash
  BY DEF Lawful, LInv, TypeOK
<1>6. \A i \in Intent, x \in Item : alloc'[i][x] <= Price[x] /\ alloc'[i][x] \in Nat
  BY <1>1 DEF LInv, TypeOK, FreshIsFree
<1>7. \A x \in Item : (\A i \in Intent : ~ Holds(i, x)') => itemStatus[x] = "UNPAID"
  BY <1>4 DEF LInv, FreshIsFree
<1>8. /\ itemStatus' \in [Item -> Financial]
      /\ paid' \in [Order -> BOOLEAN]
      /\ finance' \in [Order -> Financial]
      /\ ProjectionFollowsLedger'
      /\ \A x \in Item : (\A i \in Intent : ~ Holds(i, x)') => itemStatus'[x] = "UNPAID"
      /\ \A o \in Order : order[o] \in {"none", "admitted"} => paid'[o] = paid[o]
  <2>1. CASE Projects
    <3>1. PICK stale : Project(stale)
      BY <2>1 DEF Projects
    <3>2. TypeOK /\ order' = order /\ IsFiniteSet(Created')
      BY <1>1, <1>2 DEF LInv
    <3> QED BY <3>1, <3>2, <1>6, <1>7, ProjectionShowsLedger
  <2>2. CASE UNCHANGED <<status, itemStatus, paid, finance>>
    <3>1. \A x : Covered(x)' <=> Covered(x)
      BY <1>1, <2>2, CoveredUnchanged
    <3>2. \A s : With(s)' = With(s)
      BY <2>2 DEF With
    <3>3. \A x \in Item : Billed(x)' <=> Billed(x)
      BY <1>1 DEF Billed
    <3>4. \A o : ItemsOf(o)' = ItemsOf(o)
      BY DEF ItemsOf
    <3>5. \A o \in Order : (\A x \in ItemsOf(o) : Covered(x))' <=> \A x \in ItemsOf(o) : Covered(x)
      BY <3>1, <3>4
    <3>6. ASSUME NEW x \in Item, Billed(x)'
          PROVE  /\ itemStatus'[x] = "PAID" <=> Covered(x)' /\ Price[x] > 0
                 /\ itemStatus'[x] \in Pending => \E i \in With(itemStatus[x])' : Holds(i, x)'
                 /\ itemStatus'[x] = "UNPAID" =>
                      \A i \in Intent \ due' : status'[i] \in Pending => ~ Holds(i, x)'
      <4>1. /\ itemStatus[x] = "PAID" <=> Covered(x) /\ Price[x] > 0
            /\ itemStatus[x] \in Pending => \E i \in With(itemStatus[x]) : Holds(i, x)
            /\ itemStatus[x] = "UNPAID" => \A i \in Intent \ due : status[i] \in Pending => ~ Holds(i, x)
        BY <3>3, <3>6 DEF LInv, ProjectionFollowsLedger
      <4>2. With(itemStatus[x])' = With(itemStatus[x])
        BY <2>2 DEF With
      <4> QED BY <4>1, <4>2, <1>1, <1>4, <2>2, <3>1
    <3>7. ASSUME NEW o \in Order, order'[o] \in {"open", "served"}, \E x \in ItemsOf(o) : Price[x] > 0
          PROVE  paid'[o] <=> (\A x \in ItemsOf(o) : Covered(x))'
      <4>1. paid[o] <=> \A x \in ItemsOf(o) : Covered(x)
        BY <1>1, <3>7 DEF LInv, ProjectionFollowsLedger
      <4> QED BY <4>1, <3>5, <2>2
    <3>8. ProjectionFollowsLedger'
      BY <3>4, <3>6, <3>7 DEF ProjectionFollowsLedger
    <3>9. \A x \in Item : (\A i \in Intent : ~ Holds(i, x)') => itemStatus'[x] = "UNPAID"
      BY <1>7, <2>2
    <3> QED BY <2>2, <3>8, <3>9 DEF LInv, TypeOK
  <2> QED BY <2>1, <2>2 DEF LedgerStep
<1>9. TypeOK'
  BY <1>1, <1>5, <1>8 DEF LInv, TypeOK, Lawful
<1>10. FreshIsFree'
  <2>1. \A o : ItemsOf(o)' = ItemsOf(o) /\ ItemsOf(o) \subseteq Item
    BY DEF ItemsOf
  <2>2. \A i \in Intent : status'[i] = "none" => status[i] = "none"
    BY DEF LedgerStep
  <2>3. \A o \in Order : order'[o] \in {"none", "admitted"} =>
          ~ paid'[o] /\ \A i \in Intent, x \in ItemsOf(o) : ~ Holds(i, x)
    BY <1>1, <1>8 DEF LInv, FreshIsFree
  <2>4. \A i \in Intent, x \in Item : status'[i] = "none" => ~ Holds(i, x)
    BY <2>2 DEF LInv, FreshIsFree
  <2> QED BY <1>4, <1>6, <1>8, <2>1, <2>3, <2>4 DEF FreshIsFree
<1>11. NoOverAllocation'
  <2> SUFFICES ASSUME NEW x \in Item PROVE Share(x, CommittedIntents)' <= Price[x]
    BY DEF NoOverAllocation, CommittedIntents
  <2>1. CommittedIntents \in SUBSET Created
    BY DEF CommittedIntents, Created
  <2>2. Share(x, CommittedIntents') <= Share(x, CommittedIntents) /\ Share(x, CommittedIntents') \in Nat
        /\ Share(x, CommittedIntents) \in Nat
    BY <1>3, <2>1, CreatedSums
  <2>3. Share(x, CommittedIntents)' = Share(x, CommittedIntents')
    BY <1>1, ShareIsCents
  <2>4. Share(x, CommittedIntents) <= Price[x] /\ Price[x] \in Nat
    BY BillAssumption DEF LInv, NoOverAllocation, CommittedIntents
  <2> QED BY <2>2, <2>3, <2>4
<1>12. ClosedSessionSettled'
  <2> SUFFICES ASSUME session' = "CLOSED", NEW i \in Intent, status'[i] \in Pending,
                      NEW x \in Item, Holds(i, x)'
               PROVE  order'[OrderOf[x]] = "dropped"
    BY DEF ClosedSessionSettled
  <2>1. status[i] \in Pending /\ Holds(i, x)
    BY <1>4 DEF Lawful, Moves, LedgerStep
  <2>2. CASE session = "CLOSED"
    BY <2>1, <2>2, <1>1 DEF LInv, ClosedSessionSettled
  <2>3. CASE session # "CLOSED"
    <3>1. PICK stale : AccountSettled(stale)
      BY <2>3 DEF LedgerStep
    <3>2. ~ Billed(x)
      <4> SUFFICES ASSUME Billed(x) PROVE FALSE
        OBVIOUS
      <4>1. Share(x, With("PAID")) = Price[x]
        BY <3>1 DEF AccountSettled, Covered, PaidCents
      <4> DEFINE I == With("PAID") \cup {i}
      <4>2. I \in SUBSET CommittedIntents /\ CommittedIntents \in SUBSET Created
            /\ I \ {i} = With("PAID")
        BY <2>1 DEF With, CommittedIntents, Created
      <4>3. Share(x, I) <= Share(x, CommittedIntents) /\ Share(x, I) \in Nat
            /\ Share(x, CommittedIntents) \in Nat /\ Share(x, CommittedIntents) <= Price[x]
        BY <4>2, CreatedSums DEF LInv, NoOverAllocation, CommittedIntents
      <4>4. IsFiniteSet(I) /\ (\A j \in I : alloc[j][x] \in Nat) /\ i \in I
        BY <4>2, CreatedSums
      <4> HIDE DEF I
      <4>5. Share(x, I) = alloc[i][x] + Share(x, With("PAID"))
        <5>1. Cents(alloc, x, I) = alloc[i][x] + Cents(alloc, x, I \ {i})
          BY <4>4, CentsWithout
        <5>2. Share(x, I) = Cents(alloc, x, I)
          BY ShareIsCents
        <5>3. Share(x, With("PAID")) = Cents(alloc, x, I \ {i})
          BY <4>2, ShareIsCents
        <5> QED BY <5>1, <5>2, <5>3
      <4>6. alloc[i][x] \in Nat /\ alloc[i][x] # 0 /\ Price[x] \in Nat
        BY <2>1, <4>4, BillAssumption DEF Holds
      <4> QED BY <4>1, <4>3, <4>5, <4>6
    <3>3. OrderOf[x] \in Order
      BY BillAssumption
    <3>4. order[OrderOf[x]] \notin {"none", "admitted"}
      BY <2>1, <3>3 DEF LInv, FreshIsFree, ItemsOf
    <3>5. order[OrderOf[x]] # "canceled"
      BY <2>1 DEF IInv, CanceledItemHoldsNoMoney
    <3> QED BY <1>1, <3>2, <3>3, <3>4, <3>5 DEF LInv, TypeOK, Billed
  <2> QED BY <2>2, <2>3
<1> QED BY <1>2, <1>8, <1>9, <1>10, <1>11, <1>12 DEF LInv

(* A reservation adds to what is counted no more than what is available.   *)
LEMMA ReserveKeepsLedger ==
  ASSUME IInv, LInv, Lawful, NEW i \in Intent, NEW a, ReserveStep(i, a)
  PROVE  LInv'
<1>1. /\ session = "OPEN" /\ status[i] = "none" /\ a \in [Item -> Nat]
      /\ alloc' = [alloc EXCEPT ![i] = a] /\ status'[i] = "RESERVED"
      /\ \A j \in Intent \ {i} : status'[j] = "none" <=> status[j] = "none"
      /\ \A x \in Item : a[x] # 0 => Billed(x)
      /\ UNCHANGED <<due, received, order, blocked, session>>
  BY DEF ReserveStep
<1>2. PICK stale : /\ CommittedIntents' = Counted(stale) \cup {i}
                   /\ \A x \in Item : a[x] = 0 \/ a[x] <= Available(stale, x)
  BY DEF ReserveStep
<1>3. alloc' \in [Intent -> [Item -> Nat]] /\ alloc'[i] = a /\ \A j \in Intent \ {i} : alloc'[j] = alloc[j]
  BY <1>1 DEF LInv, TypeOK
<1>4. Created' = Created \cup {i} /\ IsFiniteSet(Created')
  <2>1. Created' = Created \cup {i}
    BY <1>1 DEF Created
  <2> QED BY <2>1, FS_AddElement DEF LInv
<1>5. \A x \in Item : a[x] <= Price[x]
  <2> SUFFICES ASSUME NEW x \in Item PROVE a[x] <= Price[x]
    OBVIOUS
  <2>1. /\ Available(stale, x) \in Nat /\ Price[x] \in Nat
        /\ Available(stale, x) <= Price[x]
    BY AvailableFacts
  <2>2. a[x] \in Nat /\ (a[x] = 0 \/ a[x] <= Available(stale, x))
    BY <1>1, <1>2
  <2> QED
    BY <2>1, <2>2
<1>6. \A j \in Intent, x \in Item : alloc'[j][x] <= Price[x] /\ alloc'[j][x] \in Nat
  <2> TAKE j \in Intent, x \in Item
  <2>1. CASE j = i
    BY <2>1, <1>1, <1>3, <1>5
  <2>2. CASE j # i
    BY <2>2, <1>3 DEF LInv, TypeOK, FreshIsFree
  <2> QED BY <2>1, <2>2
<1>7. \A j \in Intent \ {i}, x \in Item : Holds(j, x)' <=> Holds(j, x)
  BY <1>3 DEF Holds
<1>8. \A x \in Item : Holds(i, x)' => Billed(x)
  BY <1>1, <1>3 DEF Holds
<1>9. \A x \in Item : (\A j \in Intent : ~ Holds(j, x)') => itemStatus[x] = "UNPAID"
  BY <1>1, <1>7 DEF LInv, FreshIsFree
<1>10. /\ itemStatus' \in [Item -> Financial]
       /\ paid' \in [Order -> BOOLEAN]
       /\ finance' \in [Order -> Financial]
       /\ ProjectionFollowsLedger'
       /\ \A x \in Item : (\A j \in Intent : ~ Holds(j, x)') => itemStatus'[x] = "UNPAID"
       /\ \A o \in Order : order[o] \in {"none", "admitted"} => paid'[o] = paid[o]
  <2>1. PICK st : Project(st)
    BY DEF ReserveStep, Projects
  <2> QED BY <2>1, <1>1, <1>4, <1>6, <1>9, ProjectionShowsLedger DEF LInv
<1>11. TypeOK'
  BY <1>1, <1>3, <1>10 DEF LInv, TypeOK, Lawful
<1>12. FreshIsFree'
  <2>1. \A o : ItemsOf(o)' = ItemsOf(o) /\ ItemsOf(o) = {x \in Item : OrderOf[x] = o}
    BY DEF ItemsOf
  <2>2. \A o \in Order : order'[o] \in {"none", "admitted"} =>
          ~ paid'[o] /\ \A j \in Intent, x \in ItemsOf(o) : ~ Holds(j, x)'
    <3> TAKE o \in Order
    <3> HAVE order'[o] \in {"none", "admitted"}
    <3>1. ~ paid'[o] /\ \A j \in Intent, x \in ItemsOf(o) : ~ Holds(j, x)
      BY <1>1, <1>10 DEF LInv, FreshIsFree
    <3>2. \A x \in ItemsOf(o) : x \in Item /\ ~ Billed(x)
      BY <1>1, <2>1 DEF Billed
    <3> QED BY <3>1, <3>2, <1>7, <1>8
  <2>3. \A j \in Intent, x \in Item : status'[j] = "none" => ~ Holds(j, x)'
    BY <1>1, <1>7 DEF LInv, FreshIsFree
  <2> QED BY <1>6, <1>10, <2>1, <2>2, <2>3 DEF FreshIsFree
<1>13. NoOverAllocation'
  <2> SUFFICES ASSUME NEW x \in Item PROVE Share(x, CommittedIntents)' <= Price[x]
    BY DEF NoOverAllocation, CommittedIntents
  <2> DEFINE I == Counted(stale)
  <2>1. I \in SUBSET CommittedIntents /\ CommittedIntents \in SUBSET Created /\ i \notin I
    BY <1>1, AvailableFacts DEF CommittedIntents, Created
  <2>2. IsFiniteSet(I) /\ IsFiniteSet(I \cup {i}) /\ I = (I \cup {i}) \ {i} /\ I \subseteq Intent \ {i}
    BY <2>1, CreatedSums, FS_AddElement DEF Created
  <2> HIDE DEF I
  <2>3. \A j \in I \cup {i} : alloc'[j][x] \in Nat
    BY <1>6, <2>2
  <2>4. Cents(alloc', x, I \cup {i}) = alloc'[i][x] + Cents(alloc', x, I)
    BY <2>2, <2>3, CentsWithout
  <2>5. Cents(alloc', x, I) = Share(x, I)
    <3>1. \A j \in I : alloc'[j][x] = alloc[j][x]
      BY <1>3, <2>2
    <3>2. Cents(alloc', x, I) = Cents(alloc, x, I)
      BY <2>2, <3>1, CentsSame
    <3>3. Share(x, I) = Cents(alloc, x, I)
      BY ShareIsCents
    <3> QED BY <3>2, <3>3
  <2>6. Share(x, CommittedIntents)' = a[x] + Share(x, I)
    BY <1>2, <1>3, <2>4, <2>5, ShareIsCents DEF I
  <2>7. /\ Available(stale, x) = IF Billed(x) THEN Price[x] - Share(x, I) ELSE 0
        /\ Share(x, I) \in Nat /\ Share(x, I) <= Price[x] /\ Price[x] \in Nat
    BY AvailableFacts DEF I
  <2>8. a[x] \in Nat /\ (a[x] = 0 \/ a[x] <= Available(stale, x))
    BY <1>1, <1>2
  <2> QED BY <2>6, <2>7, <2>8
<1>14. ClosedSessionSettled'
  BY <1>1 DEF ClosedSessionSettled
<1> QED BY <1>4, <1>10, <1>11, <1>12, <1>13, <1>14 DEF LInv

LEMMA NextLInv == IInv /\ LInv /\ [Next]_vars => LInv'
<1> SUFFICES ASSUME IInv, LInv, [Next]_vars PROVE LInv'
  OBVIOUS
<1>1. Lawful
  BY StepIsLawful
<1> QED BY <1>1, StepKinds, OrderStepKeepsLedger, LedgerStepKeepsLedger, ReserveKeepsLedger

(* The ledger is consistent in every reachable state.                      *)
THEOREM LedgerInvariance == Spec => []LInv
BY InitLInv, NextLInv, Invariance, PTL DEF Spec

(* Every variable of the bill keeps its type; cents are natural numbers.   *)
THEOREM BillTypeSafety == Spec => []TypeOK
<1>1. LInv => TypeOK
  BY DEF LInv
<1> QED BY <1>1, LedgerInvariance, PTL

(* No cent is promised twice, however many people pay at once and however  *)
(* far their clocks are apart.                                             *)
THEOREM AllocationSafety == Spec => []NoOverAllocation
<1>1. LInv => NoOverAllocation
  BY DEF LInv
<1> QED BY <1>1, LedgerInvariance, PTL

(* What screens and orders show agrees with the payments.                  *)
THEOREM ProjectionSafety == Spec => []ProjectionFollowsLedger
<1>1. LInv => ProjectionFollowsLedger
  BY DEF LInv
<1> QED BY <1>1, LedgerInvariance, PTL

(* No money is on its way to a table that was closed.                      *)
THEOREM ClosingSafety == Spec => []ClosedSessionSettled
<1>1. LInv => ClosedSessionSettled
  BY DEF LInv
<1> QED BY <1>1, LedgerInvariance, PTL

-----------------------------------------------------------------------------
(***************************************************************************)
(* The reservations of the tables, for any calls, reservations, tables and *)
(* clocks.                                                                 *)
(*                                                                         *)
(* RInv adds to the properties what the types leave open (Columns) and     *)
(* that guests sit in a session that was opened (SeatsExist). Each of      *)
(* ConfirmedApart and ReservedTableIsKept is kept because bookings,        *)
(* openings and transfers look at the table in the transaction that        *)
(* writes, after the sweep, and the sweep only takes reservations away     *)
(* (Fading).                                                               *)
(***************************************************************************)

Stage == {"none", "CONFIRMED", "SEATED", "COMPLETED", "CANCELED", "NO_SHOW"}

(* What the types leave open: the columns of a row that is not there, of a *)
(* session that was never opened, and what the calls remember.             *)
Columns ==
  /\ ReservationTypeOK
  /\ span \in [Reservation -> Nat \X Nat]
  /\ until \in [Session -> Nat] /\ since \in [Session -> Nat]
  /\ aim \in [Call -> Table \cup {Nowhere}]
  /\ guest \in [Call -> Reservation \cup {Nobody}]
  /\ found \in [Call -> SUBSET Session] /\ lasts \in [Call -> Nat]
  /\ jobNow <= now

(* Guests sit in a session that was opened.                                *)
SeatsExist == \A r \in Reservation : seatedIn[r] # None => state[seatedIn[r]] # "none"

RInv ==
  /\ Columns /\ SeatsExist
  /\ CompletedWithOwnSession /\ ConfirmedApart /\ ReservedTableIsKept

USE ReservationAssumption DEF ReservationAssumption

LEMMA InitRInv == ReservationInit => RInv
<1> SUFFICES ASSUME ReservationInit PROVE RInv
  OBVIOUS
<1>1. Columns
  <2> USE DEF ReservationInit, Time, Session, None
  <2>1. /\ enabled \in Enabled /\ tolerance \in Tolerance
        /\ jobNow \in Time \cup {-1}
    OBVIOUS
  <2>6. now \in Time /\ jobNow <= now
    BY 0 <= MaxTime
  <2>2. \A r \in Reservation : booking[r] = "none" /\ seatedIn[r] = None
    OBVIOUS
  <2>3. /\ booking \in [Reservation -> Stage] /\ table \in [Reservation -> Table \cup {Nowhere}]
        /\ seatedIn \in [Reservation -> Session \cup {None}]
        /\ span \in [Reservation -> Nat \X Nat]
    BY DEF Stage
  <2>4. /\ state \in [Session -> {"none", "open", "settled", "lapsed"}]
        /\ place \in [Session -> Table \cup {Nowhere}]
        /\ until \in [Session -> Nat] /\ since \in [Session -> Nat]
    OBVIOUS
  <2>5. /\ pc \in [Call -> {"idle", "asked", "clear", "ready"}]
        /\ aim \in [Call -> Table \cup {Nowhere}]
        /\ guest \in [Call -> Reservation \cup {Nobody}]
        /\ found \in [Call -> SUBSET Session] /\ lasts \in [Call -> Nat]
    OBVIOUS
  <2> QED
    BY <2>1, <2>2, <2>3, <2>4, <2>5, <2>6 DEF Columns, ReservationTypeOK, Stage
<1>2. SeatsExist /\ CompletedWithOwnSession
  BY DEF ReservationInit, SeatsExist, CompletedWithOwnSession
<1>3. ConfirmedApart /\ ReservedTableIsKept
  BY DEF ReservationInit, ConfirmedApart, ReservedTableIsKept
<1> QED
  BY <1>1, <1>2, <1>3 DEF RInv

(* A confirmed reservation may go: swept, cancelled or marked by hand.     *)
Goes(r) == booking[r] = "CONFIRMED" /\ booking'[r] \in {"NO_SHOW", "CANCELED"}
Fading ==
  /\ booking' \in [Reservation -> Stage]
  /\ \A r \in Reservation : booking'[r] = booking[r] \/ Goes(r)
  /\ UNCHANGED <<table, span, seatedIn, sessions>>

(* The sweep only marks what is confirmed, and too late to check in.       *)
LEMMA SweptFacts ==
  ASSUME Columns, NEW tables, NEW clock
  PROVE  /\ Swept(tables, clock) \in [Reservation -> Stage]
         /\ \A r \in Reservation : Swept(tables, clock)[r] # booking[r] =>
              booking[r] = "CONFIRMED" /\ Swept(tables, clock)[r] = "NO_SHOW"
  BY DEF Columns, ReservationTypeOK, Swept, Overdue, Stage

(* What the sweep marks cannot check in any more.                          *)
LEMMA SweptIsLate ==
  ASSUME Columns, NEW tables, NEW clock \in Int, clock <= now, NEW r \in Reservation,
         booking[r] = "CONFIRMED", Swept(tables, clock)[r] = "NO_SHOW"
  PROVE  Deadline(r) < now
<1>1. Overdue(r, clock)
  BY DEF Swept
<1>2. /\ now \in Int /\ tolerance \in Nat
      /\ span[r][1] \in Nat /\ span[r][2] \in Nat
  BY DEF Columns, ReservationTypeOK, Time
<1> QED
  BY <1>1, <1>2 DEF Overdue, Deadline, Starts, Ends

(* Neither a reservation nor a session changes.                            *)
Quiet == UNCHANGED <<books, sessions>>

(* A step of the system, by what it does to reservations and sessions.     *)
LEMMA Kinds ==
  ASSUME Columns, [ReservationNext]_reservationVars
  PROVE  \/ Quiet \/ Fading
         \/ \E r \in Reservation, t \in Table, i \in Interval : Book(r, t, i)
         \/ \E c \in Call : CloseExpired(c)
         \/ \E c \in Call, s \in Session : Open(c, s)
         \/ \E s \in Session, t \in Table : Transfer(s, t)
         \/ \E s \in Session : CloseAndComplete(s)
<1>1. CASE Tick \/ StartSweep \/ UNCHANGED reservationVars
  BY <1>1 DEF Tick, StartSweep, reservationVars, Quiet
<1>2. CASE List \/ MarkNoShows
  <2>1. booking' = booking \/ \E tables, clock : booking' = Swept(tables, clock)
    BY <1>2 DEF List, MarkNoShows
  <2>2. booking' \in [Reservation -> Stage] /\ \A r \in Reservation : booking'[r] = booking[r] \/ Goes(r)
    BY <2>1, SweptFacts DEF Goes, Columns, ReservationTypeOK, Stage
  <2> QED
    BY <1>2, <2>2 DEF List, MarkNoShows, Fading
<1>3. ASSUME NEW on \in Enabled, NEW minutes \in Tolerance, UpdateSettings(on, minutes)
      PROVE  Quiet
  BY <1>3 DEF UpdateSettings, Quiet
<1>4. ASSUME NEW r \in Reservation, NEW next \in {"CANCELED", "NO_SHOW"}, ChangeStatus(r, next)
      PROVE  Fading
  BY <1>4 DEF ChangeStatus, Fading, Goes, Columns, ReservationTypeOK, Stage
<1>5. ASSUME NEW c \in Call, \/ \E r \in Reservation : CheckIn(c, r)
                             \/ \E t \in Table : WalkIn(c, t)
                             \/ Inspect(c) \/ Refuse(c) \/ GiveUp(c)
      PROVE  Quiet
  BY <1>5 DEF CheckIn, WalkIn, Inspect, Refuse, GiveUp, Quiet
<1> QED
  BY <1>1, <1>2, <1>3, <1>4, <1>5 DEF ReservationNext

-----------------------------------------------------------------------------
(* Guests keep their session, and it ends with their reservation.          *)
LEMMA NextSeats ==
  ASSUME RInv, [ReservationNext]_reservationVars
  PROVE  SeatsExist' /\ CompletedWithOwnSession'
<1> USE DEF Session, None
<1>0. /\ booking \in [Reservation -> Stage] /\ seatedIn \in [Reservation -> Session \cup {None}]
      /\ state \in [Session -> {"none", "open", "settled", "lapsed"}]
      /\ \A r \in Reservation : (seatedIn[r] # None) <=> (booking[r] \in {"SEATED", "COMPLETED"})
      /\ SeatsExist /\ CompletedWithOwnSession
  BY DEF RInv, Columns, ReservationTypeOK, Stage
<1> USE DEF SeatsExist, CompletedWithOwnSession
<1>1. CASE Quiet
  BY <1>0, <1>1 DEF Quiet, books, sessions
<1>2. CASE Fading
  BY <1>0, <1>2 DEF Fading, Goes, sessions
<1>3. ASSUME NEW r \in Reservation, NEW t \in Table, NEW i \in Interval, Book(r, t, i)
      PROVE  SeatsExist' /\ CompletedWithOwnSession'
  <2>1. \A q \in Reservation : seatedIn[q] # None => booking'[q] = booking[q]
    BY <1>0, <1>3, SweptFacts DEF Book, RInv
  <2> QED
    BY <1>0, <1>3, <2>1 DEF Book, sessions
<1>4. ASSUME NEW c \in Call, CloseExpired(c) PROVE SeatsExist' /\ CompletedWithOwnSession'
  BY <1>0, <1>4 DEF CloseExpired, books
<1>5. ASSUME NEW c \in Call, NEW s \in Session, Open(c, s)
      PROVE  SeatsExist' /\ CompletedWithOwnSession'
  <2>1. \A r \in Reservation : r # guest[c] =>
          seatedIn'[r] = seatedIn[r] /\ (seatedIn[r] # None => booking'[r] = booking[r])
    BY <1>0, <1>5, SweptFacts DEF Open, RInv
  <2>2. \A r \in Reservation : r = guest[c] => seatedIn'[r] = s /\ booking'[r] = "SEATED"
    BY <1>5 DEF Open
  <2>3. state[s] = "none" /\ state' = [state EXCEPT ![s] = "open"]
    BY <1>5 DEF Open
  <2> QED
    BY <1>0, <2>1, <2>2, <2>3
<1>6. ASSUME NEW s \in Session, NEW t \in Table, Transfer(s, t)
      PROVE  SeatsExist' /\ CompletedWithOwnSession'
  BY <1>0, <1>6 DEF Transfer, books
<1>7. ASSUME NEW s \in Session, CloseAndComplete(s)
      PROVE  SeatsExist' /\ CompletedWithOwnSession'
  BY <1>0, <1>7 DEF CloseAndComplete, Linked
<1> QED
  BY Kinds, <1>1, <1>2, <1>3, <1>4, <1>5, <1>6, <1>7 DEF RInv

(* Any two reservations that are confirmed were so before, but for the one *)
(* that is booked, which met none the sweep left.                          *)
LEMMA NextApart ==
  ASSUME RInv, [ReservationNext]_reservationVars
  PROVE  ConfirmedApart'
<1>0. Columns /\ ConfirmedApart
  BY DEF RInv
<1>2. ASSUME NEW r \in Reservation, NEW t \in Table, NEW i \in Interval, Book(r, t, i)
      PROVE  ConfirmedApart'
  <2>1. /\ table' = [table EXCEPT ![r] = t] /\ span' = [span EXCEPT ![r] = i]
        /\ table \in [Reservation -> Table \cup {Nowhere}]
        /\ span \in [Reservation -> Nat \X Nat] /\ i \in Nat \X Nat
        /\ booking[r] = "none"
    BY <1>0, <1>2 DEF Book, Columns, ReservationTypeOK
  <2>2. \A q \in Reservation : q # r =>
          /\ booking'[q] = Swept({t}, now)[q]
          /\ booking'[q] = "CONFIRMED" => booking[q] = "CONFIRMED"
    BY <1>0, <1>2, SweptFacts DEF Book
  <2>3. \A q \in Reservation :
          q # r /\ booking'[q] = "CONFIRMED" /\ table[q] = t =>
            ~ (span[q][1] < i[2] /\ i[1] < span[q][2])
    BY <1>2, <2>2 DEF Book, Meets, Starts, Ends
  <2>4. \A q \in Reservation : q # r => table'[q] = table[q] /\ span'[q] = span[q]
    BY <2>1
  <2>5. table'[r] = t /\ span'[r] = i
    BY <2>1
  <2>6. \A q \in Reservation : span[q][1] \in Int /\ span[q][2] \in Int
    BY <2>1
  <2>7. i[1] \in Int /\ i[2] \in Int
    BY <2>1
  <2> SUFFICES ASSUME NEW q \in Reservation, NEW other \in Reservation, q # other,
                      booking'[q] = "CONFIRMED", booking'[other] = "CONFIRMED",
                      table'[q] = table'[other]
               PROVE  span'[q][2] <= span'[other][1] \/ span'[other][2] <= span'[q][1]
    BY DEF ConfirmedApart, Starts, Ends
  <2>8. CASE q = r
    BY <2>3, <2>4, <2>5, <2>6, <2>7, <2>8
  <2>9. CASE other = r
    BY <2>3, <2>4, <2>5, <2>6, <2>7, <2>9
  <2>10. CASE q # r /\ other # r
    BY <1>0, <2>2, <2>4, <2>10 DEF ConfirmedApart, Starts, Ends
  <2> QED
    BY <2>8, <2>9, <2>10
<1>3. CASE ~ \E r \in Reservation, t \in Table, i \in Interval : Book(r, t, i)
  <2>1. ASSUME NEW c \in Call, NEW s \in Session, Open(c, s)
        PROVE  \A r \in Reservation : booking'[r] = "CONFIRMED" => booking[r] = "CONFIRMED"
    BY <1>0, <2>1, SweptFacts DEF Open
  <2>2. \A r \in Reservation : booking'[r] = "CONFIRMED" => booking[r] = "CONFIRMED"
    BY <1>0, <1>3, <2>1, Kinds
       DEF Quiet, Fading, Goes, CloseExpired, Transfer, CloseAndComplete, books
  <2>3. UNCHANGED <<table, span>>
    BY <1>0, <1>3, Kinds
       DEF Quiet, Fading, CloseExpired, Open, Transfer, CloseAndComplete, books
  <2> QED
    BY <1>0, <2>2, <2>3 DEF ConfirmedApart, Starts, Ends
<1> QED
  BY <1>2, <1>3

(* A session that is new at a table lasts into no reservation the others   *)
(* left there, and one that was there keeps its table: only a booking adds *)
(* a reservation to keep, and a booking looks at every session.            *)
LEMMA NextKept ==
  ASSUME RInv, [ReservationNext]_reservationVars
  PROVE  ReservedTableIsKept'
<1> USE DEF Starts, Ends
<1>0. Columns /\ SeatsExist /\ ReservedTableIsKept
  BY DEF RInv
<1>t. /\ booking \in [Reservation -> Stage] /\ table \in [Reservation -> Table \cup {Nowhere}]
      /\ seatedIn \in [Reservation -> Session \cup {None}]
      /\ state \in [Session -> {"none", "open", "settled", "lapsed"}]
      /\ place \in [Session -> Table \cup {Nowhere}]
      /\ span \in [Reservation -> Nat \X Nat] /\ now \in Int
      /\ until \in [Session -> Nat] /\ since \in [Session -> Nat]
      /\ \A r \in Reservation : (seatedIn[r] # None) <=> (booking[r] \in {"SEATED", "COMPLETED"})
  BY <1>0 DEF Columns, ReservationTypeOK, Stage, Time
<1>1. CASE Quiet \/ Fading
  BY <1>0, <1>1 DEF Quiet, Fading, Goes, books, sessions, ReservedTableIsKept, OwnTable
<1>2. ASSUME NEW r \in Reservation, NEW t \in Table, NEW i \in Interval, Book(r, t, i)
      PROVE  ReservedTableIsKept'
  <2>1. /\ table' = [table EXCEPT ![r] = t] /\ span' = [span EXCEPT ![r] = i]
        /\ booking[r] = "none" /\ seatedIn[r] = None
        /\ UNCHANGED <<seatedIn, state, place, until, since>>
    BY <1>t, <1>2 DEF Book, sessions
  <2>2. \A q \in Reservation : q # r /\ booking'[q] = "CONFIRMED" => booking[q] = "CONFIRMED"
    BY <1>0, <1>t, <1>2, SweptFacts DEF Book
  <2> SUFFICES ASSUME NEW s \in Session, NEW q \in Reservation,
                      state[s] = "open", ~ OwnTable(s)', booking'[q] = "CONFIRMED",
                      table'[q] = place[s]
               PROVE  until[s] <= span'[q][1] \/ span'[q][2] <= since[s]
    BY <2>1 DEF ReservedTableIsKept
  <2>3. ~ OwnTable(s)
    <3>1. \A g \in Reservation : seatedIn[g] = s => g # r
      BY <2>1 DEF Session, None
    <3> QED
      BY <1>t, <2>1, <3>1 DEF OwnTable
  <2>4. CASE q = r
    BY <1>t, <1>2, <2>1, <2>4 DEF Book, NotOccupied, ActiveAt
  <2>5. CASE q # r
    BY <1>0, <1>t, <2>1, <2>2, <2>3, <2>5 DEF ReservedTableIsKept
  <2> QED
    BY <2>4, <2>5
<1>3. ASSUME NEW c \in Call, CloseExpired(c) PROVE ReservedTableIsKept'
  BY <1>0, <1>t, <1>3 DEF CloseExpired, books, ReservedTableIsKept, OwnTable
<1>4. ASSUME NEW c \in Call, NEW s \in Session, Open(c, s) PROVE ReservedTableIsKept'
  <2>1. /\ state[s] = "none" /\ state' = [state EXCEPT ![s] = "open"]
        /\ place' = [place EXCEPT ![s] = aim[c]] /\ until' = [until EXCEPT ![s] = lasts[c]]
        /\ since' = [since EXCEPT ![s] = now] /\ UNCHANGED <<table, span>>
        /\ lasts[c] \in Nat
    BY <1>0, <1>4 DEF Open, Columns
  <2>2. \A q \in Reservation : booking'[q] = "CONFIRMED" =>
          booking[q] = "CONFIRMED" /\ Swept({aim[c]}, now)[q] = "CONFIRMED"
    BY <1>0, <1>t, <1>4, SweptFacts DEF Open
  <2>3. \A q \in Reservation :
          /\ q = guest[c] => seatedIn'[q] = s
          /\ q # guest[c] => seatedIn'[q] = seatedIn[q]
    BY <1>4 DEF Open
  <2>4. guest[c] \in Reservation => seatedIn[guest[c]] = None
    <3>1. guest[c] \in Reservation => booking[guest[c]] = "CONFIRMED"
      BY <1>0, <1>4, <1>t, SweptFacts DEF Open, StillWelcome
    <3> QED
      BY <3>1, <1>t
  <2> SUFFICES ASSUME NEW x \in Session, NEW q \in Reservation,
                      state'[x] = "open", ~ OwnTable(x)', booking'[q] = "CONFIRMED",
                      table[q] = place'[x]
               PROVE  until'[x] <= span[q][1] \/ span[q][2] <= since'[x]
    BY <2>1 DEF ReservedTableIsKept
  <2>5. CASE x = s
    <3>1. place'[x] = aim[c] /\ until'[x] = lasts[c] /\ since'[x] = now
      BY <1>t, <2>1, <2>5
    <3>2. guest[c] \notin Upcoming(c)
      <4>1. ASSUME guest[c] \in Upcoming(c) PROVE FALSE
        <5>1. guest[c] \in Reservation /\ table[guest[c]] = aim[c]
          BY <4>1 DEF Upcoming, Meets
        <5>2. seatedIn'[guest[c]] = s
          BY <2>3, <5>1
        <5> QED
          BY <5>1, <5>2, <2>1, <2>5, <3>1 DEF OwnTable
      <4> QED
        BY <4>1
    <3>3. Upcoming(c) = {}
      BY <1>4, <3>2 DEF Open
    <3>4. ~ (span[q][1] < lasts[c] /\ now < span[q][2])
      BY <2>1, <2>2, <3>1, <3>3 DEF Upcoming, Meets
    <3>5. span[q][1] \in Int /\ span[q][2] \in Int /\ lasts[c] \in Int
      BY <1>t, <2>1
    <3> QED
      BY <1>t, <3>1, <3>4, <3>5
  <2>6. CASE x # s
    <3>1. \A g \in Reservation : seatedIn[g] = x => seatedIn'[g] = x
      BY <2>3, <2>4 DEF Session, None
    <3>2. /\ place'[x] = place[x] /\ until'[x] = until[x] /\ since'[x] = since[x]
          /\ state'[x] = state[x]
      BY <1>t, <2>1, <2>6
    <3>3. ~ OwnTable(x)
      BY <2>1, <3>1, <3>2 DEF OwnTable
    <3> QED
      BY <1>0, <2>2, <3>2, <3>3 DEF ReservedTableIsKept
  <2> QED
    BY <2>5, <2>6
<1>5. ASSUME NEW s \in Session, NEW t \in Table, Transfer(s, t) PROVE ReservedTableIsKept'
  <2>1. /\ place' = [place EXCEPT ![s] = t] /\ since' = [since EXCEPT ![s] = now]
        /\ Meets(booking, t, now, until[s]) = {}
        /\ UNCHANGED <<booking, table, span, seatedIn, state, until>>
    BY <1>5 DEF Transfer, RoomAt, books
  <2> SUFFICES ASSUME NEW x \in Session, NEW q \in Reservation,
                      state[x] = "open", ~ OwnTable(x)', booking[q] = "CONFIRMED",
                      table[q] = place'[x]
               PROVE  until[x] <= span[q][1] \/ span[q][2] <= since'[x]
    BY <2>1 DEF ReservedTableIsKept
  <2>2. CASE x = s
    BY <1>t, <2>1, <2>2 DEF Meets
  <2>3. CASE x # s
    BY <1>0, <1>t, <2>1, <2>3 DEF ReservedTableIsKept, OwnTable
  <2> QED
    BY <2>2, <2>3
<1>6. ASSUME NEW s \in Session, CloseAndComplete(s) PROVE ReservedTableIsKept'
  <2>1. /\ state' = [state EXCEPT ![s] = "settled"]
        /\ UNCHANGED <<table, span, seatedIn, place, until, since>>
        /\ \A r \in Reservation : booking'[r] = "CONFIRMED" => booking[r] = "CONFIRMED"
    BY <1>6 DEF CloseAndComplete, Linked
  <2> QED
    BY <1>0, <1>t, <2>1 DEF ReservedTableIsKept, OwnTable
<1> QED
  BY <1>0, <1>1, <1>2, <1>3, <1>4, <1>5, <1>6, Kinds

-----------------------------------------------------------------------------
(* The sweep leaves every row with its columns.                            *)
LEMMA SweptColumns ==
  ASSUME Columns, NEW tables, NEW clock
  PROVE  /\ Swept(tables, clock) \in [Reservation -> Stage]
         /\ \A r \in Reservation :
              /\ Swept(tables, clock)[r] # "none" => span[r] \in Interval
              /\ (seatedIn[r] # None) <=> (Swept(tables, clock)[r] \in {"SEATED", "COMPLETED"})
<1>1. \A r \in Reservation : booking[r] # "none" => span[r] \in Interval
  BY DEF Columns, ReservationTypeOK
<1>2. \A r \in Reservation : (seatedIn[r] # None) <=> (booking[r] \in {"SEATED", "COMPLETED"})
  BY DEF Columns, ReservationTypeOK
<1> QED
  BY <1>1, <1>2, SweptFacts

(* A step keeps the types and the columns.                                 *)
LEMMA NextColumns ==
  ASSUME Columns, [ReservationNext]_reservationVars PROVE Columns'
<1> USE DEF Columns, ReservationTypeOK
<1>1. CASE UNCHANGED reservationVars
  BY <1>1 DEF reservationVars, settings, books, sessions, calls
<1>2. CASE Tick \/ List \/ StartSweep \/ MarkNoShows
  <2>1. CASE Tick
    BY <2>1 DEF Tick, settings, books, sessions, calls, Time
  <2>2. CASE StartSweep
    BY <2>2 DEF StartSweep, settings, books, sessions, calls, Time
  <2>3. CASE List
    <3>1. booking' = Swept(Table, now) /\ UNCHANGED <<now, settings, table, span, seatedIn, sessions, calls, jobNow>>
      BY <2>3 DEF List
    <3> QED
      BY <3>1, SweptColumns DEF settings, sessions, calls, Stage
  <2>4. CASE MarkNoShows
    <3>1. /\ booking' = booking \/ booking' = Swept(Table, jobNow)
          /\ UNCHANGED <<now, settings, table, span, seatedIn, sessions, calls>>
          /\ jobNow' = -1
      BY <2>4 DEF MarkNoShows
    <3> QED
      BY <3>1, SweptColumns DEF settings, sessions, calls, Stage, Time
  <2> QED
    BY <1>2, <2>1, <2>2, <2>3, <2>4
<1>3. ASSUME NEW on \in Enabled, NEW minutes \in Tolerance, UpdateSettings(on, minutes)
      PROVE  Columns'
  BY <1>3 DEF UpdateSettings, books, sessions, calls
<1>4. ASSUME NEW r \in Reservation, NEW next \in {"CANCELED", "NO_SHOW"}, ChangeStatus(r, next)
      PROVE  Columns'
  BY <1>4 DEF ChangeStatus, settings, sessions, calls
<1>5. ASSUME NEW r \in Reservation, NEW t \in Table, NEW i \in Interval, Book(r, t, i)
      PROVE  Columns'
  <2>1. /\ booking[r] = "none" /\ booking' = [Swept({t}, now) EXCEPT ![r] = "CONFIRMED"]
        /\ table' = [table EXCEPT ![r] = t] /\ span' = [span EXCEPT ![r] = i]
        /\ UNCHANGED <<now, settings, seatedIn, sessions, calls, jobNow>>
    BY <1>5 DEF Book
  <2>2. /\ booking' \in [Reservation -> Stage] /\ booking'[r] = "CONFIRMED"
        /\ \A q \in Reservation : q # r => booking'[q] = Swept({t}, now)[q]
    BY <2>1, SweptFacts DEF Stage
  <2>3. /\ table' \in [Reservation -> Table \cup {Nowhere}]
        /\ span' \in [Reservation -> Nat \X Nat] /\ span'[r] = i
        /\ \A q \in Reservation : q # r => span'[q] = span[q]
    BY <2>1
  <2>4. \A q \in Reservation : booking'[q] # "none" => span'[q] \in Interval
    BY <2>2, <2>3, SweptColumns
  <2>5. \A q \in Reservation :
          (seatedIn'[q] # None) <=> (booking'[q] \in {"SEATED", "COMPLETED"})
    BY <2>1, <2>2, SweptColumns
  <2> QED
    BY <2>1, <2>2, <2>3, <2>4, <2>5 DEF settings, sessions, calls, Stage
<1>6. ASSUME NEW c \in Call, NEW r \in Reservation, CheckIn(c, r) PROVE Columns'
  BY <1>6 DEF CheckIn, settings, books, sessions
<1>7. ASSUME NEW c \in Call, NEW t \in Table, WalkIn(c, t) PROVE Columns'
  BY <1>7 DEF WalkIn, settings, books, sessions
<1>8. ASSUME NEW c \in Call, Inspect(c) PROVE Columns'
  BY <1>8 DEF Inspect, ActiveAt, settings, books, sessions
<1>9. ASSUME NEW c \in Call, CloseExpired(c) PROVE Columns'
  BY <1>9 DEF CloseExpired, settings, books, Time
<1>10. ASSUME NEW c \in Call, Refuse(c) \/ GiveUp(c) PROVE Columns'
  <2>1. Finish(c) /\ UNCHANGED <<now, settings, books, sessions, jobNow>>
    BY <1>10 DEF Refuse, GiveUp
  <2>2. /\ pc' \in [Call -> {"idle", "asked", "clear", "ready"}]
        /\ aim' \in [Call -> Table \cup {Nowhere}]
        /\ guest' \in [Call -> Reservation \cup {Nobody}]
        /\ found' \in [Call -> SUBSET Session] /\ lasts' \in [Call -> Nat]
    BY <2>1 DEF Finish
  <2> QED
    BY <2>1, <2>2 DEF settings, books, sessions
<1>11. ASSUME NEW c \in Call, NEW s \in Session, Open(c, s) PROVE Columns'
  <2>1. /\ booking' \in [Reservation -> Stage]
        /\ \A r \in Reservation :
             booking'[r] = IF r = guest[c] THEN "SEATED" ELSE Swept({aim[c]}, now)[r]
    BY <1>11, SweptFacts DEF Open, Stage
  <2>2. /\ seatedIn' \in [Reservation -> Session \cup {None}]
        /\ \A r \in Reservation :
             seatedIn'[r] = IF r = guest[c] THEN s ELSE seatedIn[r]
    BY <1>11 DEF Open
  <2>3. \A r \in Reservation :
          r # guest[c] => (booking'[r] \in {"SEATED", "COMPLETED"}
                             <=> booking[r] \in {"SEATED", "COMPLETED"})
    BY <2>1, SweptFacts
  <2>4. guest[c] \in Reservation => booking[guest[c]] = "CONFIRMED"
    BY <1>11, SweptFacts DEF Open, StillWelcome
  <2>5. \A r \in Reservation :
          booking'[r] # "none" => span'[r] \in Interval
    BY <1>11, <2>1, <2>4, SweptFacts DEF Open
  <2>6. \A r \in Reservation :
          (seatedIn'[r] # None) <=> (booking'[r] \in {"SEATED", "COMPLETED"})
    BY <2>1, <2>2, <2>3 DEF Session, None
  <2>7. /\ state' \in [Session -> {"none", "open", "settled", "lapsed"}]
        /\ place' \in [Session -> Table \cup {Nowhere}]
        /\ until' \in [Session -> Nat] /\ since' \in [Session -> Nat]
    BY <1>11 DEF Open, Time
  <2>8. /\ pc' \in [Call -> {"idle", "asked", "clear", "ready"}]
        /\ aim' \in [Call -> Table \cup {Nowhere}]
        /\ guest' \in [Call -> Reservation \cup {Nobody}]
        /\ found' \in [Call -> SUBSET Session] /\ lasts' \in [Call -> Nat]
    BY <1>11 DEF Open, Finish
  <2> QED
    BY <1>11, <2>1, <2>2, <2>5, <2>6, <2>7, <2>8 DEF Open, settings, Stage
<1>12. ASSUME NEW s \in Session, NEW t \in Table, Transfer(s, t) PROVE Columns'
  <2>1. /\ place' \in [Session -> Table \cup {Nowhere}] /\ since' \in [Session -> Nat]
    BY <1>12 DEF Transfer, Time
  <2> QED
    BY <1>12, <2>1 DEF Transfer, settings, books, calls
<1>13. ASSUME NEW s \in Session, CloseAndComplete(s) PROVE Columns'
  BY <1>13 DEF CloseAndComplete, Linked, settings, calls
<1> QED
  BY <1>1, <1>2, <1>3, <1>4, <1>5, <1>6, <1>7, <1>8, <1>9, <1>10, <1>11, <1>12, <1>13
     DEF ReservationNext

(* The invariant holds in every state of every behaviour.                  *)
THEOREM ReservationInvariance == ReservationSpec => []RInv
<1>1. RInv /\ [ReservationNext]_reservationVars => RInv'
  BY NextColumns, NextSeats, NextApart, NextKept DEF RInv
<1> QED
  BY InitRInv, <1>1, PTL DEF ReservationSpec

(* No session that walked in or was transferred lasts into a confirmed     *)
(* interval of its table (TableReservationService.create,                  *)
(* OpenTableSessionService, TransferTableSessionService).                  *)
THEOREM KeptSafety == ReservationSpec => []ReservedTableIsKept
<1>1. RInv => ReservedTableIsKept
  BY DEF RInv
<1> QED
  BY <1>1, ReservationInvariance, PTL

(* No two confirmed reservations of a table meet                           *)
(* (TableReservationService.create).                                       *)
THEOREM ApartSafety == ReservationSpec => []ConfirmedApart
<1>1. RInv => ConfirmedApart
  BY DEF RInv
<1> QED
  BY <1>1, ReservationInvariance, PTL

(* A reservation is completed with the settled bill of its own session and *)
(* by no other (CloseTableSessionService).                                 *)
THEOREM CompletionSafety == ReservationSpec => []CompletedWithOwnSession
<1>1. RInv => CompletedWithOwnSession
  BY DEF RInv
<1> QED
  BY <1>1, ReservationInvariance, PTL

(* Guests are seated once, from a confirmed reservation, and stay seated   *)
(* until their session is closed (OpenTableSessionService).                *)
THEOREM SeatingSafety == ReservationSpec => SeatedOnce
<1> DEFINE Once ==
      \A r \in Reservation :
        /\ booking'[r] = "SEATED" /\ booking[r] # "SEATED" => booking[r] = "CONFIRMED"
        /\ booking[r] = "SEATED" => booking'[r] \in {"SEATED", "COMPLETED"}
        /\ seatedIn[r] # None => seatedIn'[r] = seatedIn[r]
<1>1. RInv /\ [ReservationNext]_reservationVars => Once
  <2> SUFFICES ASSUME RInv, [ReservationNext]_reservationVars PROVE Once
    OBVIOUS
  <2>0. /\ Columns /\ booking \in [Reservation -> Stage]
        /\ \A r \in Reservation :
             (seatedIn[r] # None) <=> (booking[r] \in {"SEATED", "COMPLETED"})
    BY DEF RInv, Columns, ReservationTypeOK, Stage
  <2>1. CASE Quiet \/ Fading
    BY <2>1 DEF Quiet, Fading, Goes, books
  <2>2. ASSUME NEW r \in Reservation, NEW t \in Table, NEW i \in Interval, Book(r, t, i)
        PROVE  Once
    <3>1. \A q \in Reservation : booking'[q] = booking[q]
                                \/ (booking[q] \in {"none", "CONFIRMED"}
                                    /\ booking'[q] \in {"CONFIRMED", "NO_SHOW"})
      BY <2>0, <2>2, SweptFacts DEF Book
    <3> QED
      BY <2>2, <3>1 DEF Book
  <2>3. ASSUME NEW c \in Call, NEW s \in Session, Open(c, s) PROVE Once
    <3>1. guest[c] \in Reservation => booking[guest[c]] = "CONFIRMED"
      BY <2>0, <2>3, SweptFacts DEF Open, StillWelcome
    <3>2. \A r \in Reservation :
            /\ booking'[r] = IF r = guest[c] THEN "SEATED" ELSE Swept({aim[c]}, now)[r]
            /\ seatedIn'[r] = IF r = guest[c] THEN s ELSE seatedIn[r]
      BY <2>3 DEF Open
    <3> QED
      BY <2>0, <3>1, <3>2, SweptFacts
  <2>4. ASSUME NEW c \in Call, CloseExpired(c) PROVE Once
    BY <2>4 DEF CloseExpired, books
  <2>5. ASSUME NEW s \in Session, NEW t \in Table, Transfer(s, t) PROVE Once
    BY <2>5 DEF Transfer, books
  <2>6. ASSUME NEW s \in Session, CloseAndComplete(s) PROVE Once
    BY <2>6 DEF CloseAndComplete, Linked
  <2> QED
    BY <2>0, <2>1, <2>2, <2>3, <2>4, <2>5, <2>6, Kinds
<1> QED
  BY <1>1, ReservationInvariance, PTL DEF SeatedOnce, ReservationSpec

(* Guests who were not marked by hand are absent only once they could not  *)
(* check in any more (jobs/registry.ts, tableReservationTolerance.ts).     *)
THEOREM AbsenceSafety == ReservationSpec => AbsentOnlyWhenLate
<1> DEFINE Late ==
      \A r \in Reservation :
        booking[r] = "CONFIRMED" /\ booking'[r] = "NO_SHOW" /\ ~ ChangeStatus(r, "NO_SHOW")
          => Deadline(r) < now
<1>1. RInv /\ [ReservationNext]_reservationVars => Late
  <2> SUFFICES ASSUME RInv, [ReservationNext]_reservationVars, NEW r \in Reservation,
                      booking[r] = "CONFIRMED", booking'[r] = "NO_SHOW",
                      ~ ChangeStatus(r, "NO_SHOW")
               PROVE  Deadline(r) < now
    OBVIOUS
  <2>0. Columns /\ now \in Int /\ jobNow \in Int /\ jobNow <= now
    BY DEF RInv, Columns, ReservationTypeOK, Time
  <2>1. \E tables : \/ Swept(tables, now)[r] = "NO_SHOW"
                    \/ Swept(tables, jobNow)[r] = "NO_SHOW"
    <3>1. CASE List \/ MarkNoShows
      BY <3>1 DEF List, MarkNoShows
    <3>2. ASSUME NEW q \in Reservation, NEW t \in Table, NEW i \in Interval, Book(q, t, i)
          PROVE  Swept({t}, now)[r] = "NO_SHOW"
      BY <2>0, <3>2, SweptFacts DEF Book
    <3>3. ASSUME NEW c \in Call, NEW s \in Session, Open(c, s)
          PROVE  Swept({aim[c]}, now)[r] = "NO_SHOW"
      BY <3>3 DEF Open
    <3>4. ASSUME NEW q \in Reservation, NEW next \in {"CANCELED", "NO_SHOW"}, ChangeStatus(q, next)
          PROVE  FALSE
      BY <2>0, <3>4 DEF ChangeStatus, Columns, ReservationTypeOK
    <3>5. ASSUME NEW s \in Session, CloseAndComplete(s) PROVE FALSE
      BY <3>5 DEF CloseAndComplete
    <3>6. UNCHANGED booking => FALSE
      OBVIOUS
    <3> QED
      BY <3>1, <3>2, <3>3, <3>4, <3>5, <3>6
         DEF ReservationNext, reservationVars, books, Tick, StartSweep, UpdateSettings,
             CheckIn, WalkIn, Inspect, CloseExpired, Refuse, GiveUp, Transfer
  <2> QED
    BY <2>0, <2>1, SweptIsLate
<1> QED
  BY <1>1, ReservationInvariance, PTL DEF AbsentOnlyWhenLate, ReservationSpec

=============================================================================
