---------------------- MODULE NotificationOutboxProofs ----------------------
(***************************************************************************)
(* Safety of the outbox for any orders, lives, limits and durations.       *)
(*                                                                         *)
(* The strengthening ties an attempt to its row: it still holds the token, *)
(* or the row is settled, or its lock ran out (Held); a token belongs to   *)
(* the last reservation of a pending row, and once its lock is gone it is  *)
(* recorded as expired (Reserved).                                         *)
(***************************************************************************)
EXTENDS NotificationOutbox, TLAPS

USE OutboxAssumption DEF OutboxAssumption

(* TypeOK without the slots, whose type rests on the maximum of a set.     *)
Typed ==
  /\ stage \in [Order -> 0 .. Len(Life)]
  /\ open \subseteq Order
  /\ consent \in BOOLEAN /\ withdrew \in BOOLEAN
  /\ status \in [Message -> Status]
  /\ lock \in [Message -> Nat]
  /\ token \in [Message -> Nat]
  /\ attempts \in [Message -> 0 .. MaxPicks]
  /\ old \subseteq Message
  /\ run \in [Attempt -> Phase]
  /\ expired \subseteq Attempt

(* Rows exist for the messages an order has passed, and an order waiting   *)
(* for a slot is about to pass a throttled one.                            *)
Enqueued ==
  /\ \A m \in Message : status[m] # "ABSENT" => m[2] <= stage[m[1]]
  /\ \A m \in Message : status[m] = "ABSENT" => attempts[m] = 0 /\ m \notin old
  /\ \A o \in open : stage[o] < Len(Life) /\ Class(NextMessage(o)) = "throttled"
  /\ ~consent => withdrew

Reserved ==
  \A m \in Message : token[m] # 0 =>
    /\ status[m] = "PENDING"
    /\ token[m] = attempts[m]
    /\ lock[m] = 0 => <<m, token[m]>> \in expired

Held ==
  \A a \in Attempt :
    /\ run[a] \in Busy => a[2] <= attempts[a[1]]
    /\ run[a] \in Busy =>
         \/ Holds(a)
         \/ status[a[1]] # "PENDING"
         \/ a \in expired

(* A row waiting for its next attempt is below the limit.                  *)
BelowLimit ==
  \A m \in Message :
    status[m] = "PENDING" /\ token[m] = 0 => attempts[m] < MaxAttempts

OvertakenSettled == \A m \in Message : Overtaken(m) => status[m] # "PENDING"

IInv ==
  /\ Typed
  /\ Enqueued
  /\ Reserved
  /\ Held
  /\ BelowLimit
  /\ OneSenderPerRow
  /\ DiscardHasReason
  /\ ExtraAttemptOnlyAfterExpiry
  /\ OvertakenSettled

(* Messages and attempts are pairs.                                        *)
LEMMA Pairs ==
  /\ \A m \in Message : m[1] \in Order /\ m[2] \in 1 .. Len(Life) /\ m = <<m[1], m[2]>>
  /\ \A a \in Attempt : a[1] \in Message /\ a[2] \in 1 .. MaxPicks /\ a = <<a[1], a[2]>>
  /\ \A m \in Message, n \in 1 .. MaxPicks : <<m, n>> \in Attempt
  /\ \A o \in Order, k \in 1 .. Len(Life) : <<o, k>> \in Message
  /\ Len(Life) \in Nat
  BY DEF Message, Attempt

LEMMA InitIInv == Init => IInv
  <1> SUFFICES ASSUME Init PROVE IInv
    OBVIOUS
  <1>1. Typed
    <2>1. stage \in [Order -> 0 .. Len(Life)] /\ attempts \in [Message -> 0 .. MaxPicks]
      BY Pairs DEF Init
    <2>2. status \in [Message -> Status] /\ run \in [Attempt -> Phase]
      BY DEF Init, Status, Phase
    <2> QED
      BY <2>1, <2>2 DEF Init, Typed
  <1>2. Enqueued /\ Reserved
    BY Pairs DEF Init, Enqueued, Reserved
  <1>3. Held /\ BelowLimit /\ OneSenderPerRow
    BY Pairs DEF Init, Held, BelowLimit, OneSenderPerRow, Busy
  <1>4. DiscardHasReason /\ OvertakenSettled
    BY DEF Init, DiscardHasReason, OvertakenSettled
  <1>5. ExtraAttemptOnlyAfterExpiry
    BY Pairs DEF Init, ExtraAttemptOnlyAfterExpiry
  <1> QED
    BY <1>1, <1>2, <1>3, <1>4, <1>5 DEF IInv

-----------------------------------------------------------------------------
(* Enqueueing touches no attempt.                                          *)

LEMMA InsertTyped ==
  ASSUME IInv, NEW o \in Order, stage[o] < Len(Life)
  PROVE  /\ NextMessage(o) \in Message
         /\ NextMessage(o)[1] = o /\ NextMessage(o)[2] = stage[o] + 1
         /\ status[NextMessage(o)] = "ABSENT"
         /\ token[NextMessage(o)] = 0
  <1>1. stage[o] \in 0 .. Len(Life)
    BY DEF IInv, Typed
  <1>2. /\ NextMessage(o) \in Message
        /\ NextMessage(o)[1] = o /\ NextMessage(o)[2] = stage[o] + 1
    BY <1>1, Pairs DEF NextMessage
  <1>3. status[NextMessage(o)] = "ABSENT"
    BY <1>1, <1>2 DEF IInv, Enqueued
  <1> QED
    BY <1>2, <1>3 DEF IInv, Reserved

(* What later messages of an order say of an earlier one does not change   *)
(* unless the order moves on.                                              *)
LEMMA SameReasons ==
  ASSUME IInv, UNCHANGED stage, withdrew => withdrew', old \subseteq old',
         NEW m \in Message, status'[m] = status[m]
  PROVE  status'[m] = "DISCARDED" =>
           \/ withdrew'
           \/ m \in old'
           \/ \E k \in (m[2] + 1) .. stage'[m[1]] :
                Class(m) = "throttled" /\ Life[k] = "superseding"
  BY DEF IInv, DiscardHasReason

LEMMA SameOvertaken ==
  ASSUME IInv, UNCHANGED stage,
         \A k \in Message : status[k] = "ABSENT" <=> status'[k] = "ABSENT",
         NEW m \in Message, Overtaken(m)'
  PROVE  Overtaken(m)
  <1>1. PICK k \in (m[2] + 1) .. stage[m[1]] :
          Life[k] = "superseding" /\ status'[<<m[1], k>>] # "ABSENT"
    BY DEF Overtaken
  <1>2. m[1] \in Order /\ m[2] \in 1 .. Len(Life) /\ stage[m[1]] \in 0 .. Len(Life)
    BY Pairs DEF IInv, Typed
  <1>3. k \in 1 .. Len(Life)
    BY <1>1, <1>2, Pairs
  <1>4. status[<<m[1], k>>] # "ABSENT"
    BY <1>1, <1>2, <1>3, Pairs
  <1> QED
    BY <1>1, <1>4 DEF Overtaken, Class

(* An order that moves on overtakes nothing unless it inserts a final row. *)
LEMMA MovesOn ==
  ASSUME IInv, NEW o \in Order, stage[o] < Len(Life),
         stage' = [stage EXCEPT ![o] = stage[o] + 1],
         \A m \in Message \ {NextMessage(o)} :
            status[m] = "ABSENT" <=> status'[m] = "ABSENT",
         NEW m \in Message, m # NextMessage(o), Overtaken(m)'
  PROVE  \/ Overtaken(m)
         \/ /\ m[1] = o /\ Class(m) = "throttled"
            /\ Class(NextMessage(o)) = "superseding"
            /\ status'[NextMessage(o)] # "ABSENT"
  <1>1. PICK k \in (m[2] + 1) .. stage'[m[1]] :
          Life[k] = "superseding" /\ status'[<<m[1], k>>] # "ABSENT"
    BY DEF Overtaken
  <1>2. /\ m[1] \in Order /\ m[2] \in 1 .. Len(Life)
        /\ stage[m[1]] \in 0 .. Len(Life) /\ stage[o] \in 0 .. Len(Life)
        /\ stage'[m[1]] = IF m[1] = o THEN stage[o] + 1 ELSE stage[m[1]]
    BY Pairs DEF IInv, Typed
  <1>3. k \in 1 .. Len(Life) /\ <<m[1], k>> \in Message
    BY <1>1, <1>2, Pairs
  <1>4. Class(m) = "throttled"
    BY DEF Overtaken, Class
  <1>5. CASE <<m[1], k>> = NextMessage(o)
    BY <1>1, <1>3, <1>4, <1>5 DEF NextMessage, Class
  <1>6. CASE <<m[1], k>> # NextMessage(o)
    <2>1. status[<<m[1], k>>] # "ABSENT"
      BY <1>1, <1>3, <1>6
    <2>2. k <= stage[m[1]]
      BY <2>1, <1>3 DEF IInv, Enqueued
    <2>3. k \in (m[2] + 1) .. stage[m[1]]
      BY <1>1, <1>2, <1>3, <2>2
    <2> QED
      BY <2>1, <2>3, <1>1, <1>4 DEF Overtaken
  <1> QED
    BY <1>5, <1>6

LEMMA RefusedPreserves ==
  ASSUME IInv, NEW o \in Order, EnqueueRefused(o)
  PROVE  IInv'
  <1> USE DEF EnqueueRefused, rows
  <1>0. stage[o] \in 0 .. Len(Life) /\ stage[o] < Len(Life)
    BY DEF IInv, Typed
  <1>1. Typed'
    <2>1. stage' \in [Order -> 0 .. Len(Life)]
      BY <1>0 DEF IInv, Typed
    <2> QED
      BY <2>1 DEF IInv, Typed
  <1>2. Enqueued'
    <2>1. \A p \in Order : stage[p] <= stage'[p] /\ (p \in open => stage'[p] = stage[p])
      BY <1>0 DEF IInv, Typed
    <2>2. \A m \in Message : status[m] # "ABSENT" => m[2] <= stage'[m[1]]
      <3> SUFFICES ASSUME NEW m \in Message, status[m] # "ABSENT"
                   PROVE  m[2] <= stage'[m[1]]
        OBVIOUS
      <3>1. m[1] \in Order /\ m[2] \in 1 .. Len(Life) /\ m[2] <= stage[m[1]]
        BY Pairs DEF IInv, Enqueued
      <3>2. stage[m[1]] \in Nat /\ stage'[m[1]] \in Nat
        BY <3>1, <1>1 DEF IInv, Typed
      <3> QED
        BY <2>1, <3>1, <3>2
    <2>3. \A p \in open : stage'[p] < Len(Life) /\ Class(NextMessage(p))' = "throttled"
      BY <2>1 DEF IInv, Typed, Enqueued, NextMessage, Class
    <2> QED
      BY <2>2, <2>3 DEF IInv, Enqueued
  <1>3. Reserved' /\ Held'
    BY DEF IInv, Reserved, Held, Holds
  <1>3a. BelowLimit' /\ OneSenderPerRow' /\ ExtraAttemptOnlyAfterExpiry'
    BY DEF IInv, BelowLimit, OneSenderPerRow, ExtraAttemptOnlyAfterExpiry
  <1>4. DiscardHasReason'
    BY <1>0, Pairs DEF IInv, Typed, DiscardHasReason
  <1>5. OvertakenSettled'
    <2> SUFFICES ASSUME NEW m \in Message, Overtaken(m)'
                 PROVE  status[m] # "PENDING"
      BY DEF OvertakenSettled
    <2>1. /\ NextMessage(o) \in Message
          /\ status[NextMessage(o)] = "ABSENT"
      BY <1>0, InsertTyped
    <2>2. m = NextMessage(o) \/ Overtaken(m)
      BY <1>0, <2>1, MovesOn
    <2> QED
      BY <2>1, <2>2 DEF IInv, OvertakenSettled
  <1> QED
    BY <1>1, <1>2, <1>3, <1>3a, <1>4, <1>5 DEF IInv

(* The two ways to insert a row.  S is   what the statement discards.      *)
Inserts(o, S) ==
  /\ stage[o] < Len(Life)
  /\ stage' = [stage EXCEPT ![o] = stage[o] + 1]
  /\ status' = [Discarded(S) EXCEPT ![NextMessage(o)] = "PENDING"]
  /\ UNCHANGED <<attempts, consent, old, run, wire, heard, expired, withdrew>>
  /\ token' = Unlocked(S)
  /\ lock' = [m \in Message |-> IF m \in S THEN 0 ELSE lock[m]]
  /\ open' \in {open, open \ {o}} /\ o \notin open'
  /\ S = Discards(o)

LEMMA InsertPreserves ==
  ASSUME IInv, NEW o \in Order, NEW S \in SUBSET Message, Inserts(o, S)
  PROVE  IInv'
  <1> DEFINE n == NextMessage(o)
  <1>0. /\ n \in Message /\ n[1] = o /\ n[2] = stage[o] + 1
        /\ status[n] = "ABSENT" /\ token[n] = 0 /\ attempts[n] = 0
        /\ stage[o] \in 0 .. Len(Life) /\ stage[o] < Len(Life) /\ n \notin S
        /\ \A m \in S : status[m] = "PENDING"
    <2>1. stage[o] < Len(Life) /\ S \subseteq {m \in Message : status[m] = "PENDING"}
      BY DEF Inserts, Discards, Superseded
    <2>2. n \in Message /\ n[1] = o /\ n[2] = stage[o] + 1 /\ status[n] = "ABSENT" /\ token[n] = 0
      BY <2>1, InsertTyped
    <2>3. attempts[n] = 0
      BY <2>2 DEF IInv, Enqueued
    <2> QED
      BY <2>1, <2>2, <2>3 DEF IInv, Typed
  <1>a. /\ stage' = [stage EXCEPT ![o] = stage[o] + 1]
        /\ status' = [m \in Message |-> IF m = n THEN "PENDING"
                                        ELSE IF m \in S THEN "DISCARDED" ELSE status[m]]
        /\ token' = [m \in Message |-> IF m \in S THEN 0 ELSE token[m]]
        /\ lock' = [m \in Message |-> IF m \in S THEN 0 ELSE lock[m]]
        /\ UNCHANGED <<attempts, consent, old, run, wire, heard, expired, withdrew>>
        /\ open' \subseteq open /\ o \notin open'
    BY <1>0 DEF Inserts, Discarded, Unlocked
  <1> HIDE DEF n
  <1>1. Typed'
    <2>1. stage' \in [Order -> 0 .. Len(Life)]
      BY <1>0, <1>a DEF IInv, Typed
    <2>2. status' \in [Message -> Status]
      BY <1>a DEF IInv, Typed, Status
    <2>3. token' \in [Message -> Nat] /\ lock' \in [Message -> Nat]
      BY <1>a DEF IInv, Typed
    <2> QED
      BY <1>a, <2>1, <2>2, <2>3 DEF IInv, Typed
  <1>2. Enqueued'
    <2>1. ASSUME NEW m \in Message, status'[m] # "ABSENT" PROVE m[2] <= stage'[m[1]]
      <3>1. m = n \/ status[m] # "ABSENT"
        BY <1>0, <1>a, <2>1
      <3>2. m = n \/ m[2] <= stage[m[1]]
        BY <3>1 DEF IInv, Enqueued
      <3>3. stage[m[1]] \in Nat /\ stage'[m[1]] \in Nat /\ stage[m[1]] <= stage'[m[1]] /\ m[2] \in Nat
        BY <1>0, <1>a, Pairs DEF IInv, Typed
      <3> QED
        BY <1>0, <1>a, <3>2, <3>3 DEF IInv, Typed
    <2>2. \A m \in Message : status'[m] = "ABSENT" => attempts'[m] = 0 /\ m \notin old'
      BY <1>0, <1>a DEF IInv, Enqueued
    <2>3. ASSUME NEW p \in open' PROVE stage'[p] = stage[p] /\ p \in open
      BY <1>0, <1>a, <2>3 DEF IInv, Typed
    <2> QED
      BY <2>1, <2>2, <2>3, <1>a DEF IInv, Enqueued, NextMessage, Class
  <1>3. Reserved'
    BY <1>0, <1>a DEF IInv, Reserved
  <1>4. Held'
    BY <1>0, <1>a, Pairs DEF IInv, Held, Holds, Typed
  <1>5. BelowLimit'
    BY <1>0, <1>a DEF IInv, BelowLimit, Typed
  <1>6. OneSenderPerRow' /\ ExtraAttemptOnlyAfterExpiry'
    BY <1>a DEF IInv, OneSenderPerRow, ExtraAttemptOnlyAfterExpiry
  <1>7. DiscardHasReason'
    <2> SUFFICES ASSUME NEW m \in Message, status'[m] = "DISCARDED"
                 PROVE  \/ withdrew
                        \/ m \in old
                        \/ \E k \in (m[2] + 1) .. stage'[m[1]] :
                             Class(m) = "throttled" /\ Life[k] = "superseding"
      BY <1>a DEF DiscardHasReason
    <2>1. CASE m \in S
      <3>1. /\ m[1] = o /\ Class(m) = "throttled" /\ status[m] = "PENDING"
            /\ Life[stage[o] + 1] = "superseding"
        BY <1>0, <2>1 DEF Inserts, Discards, Superseded, Class, n
      <3>2. m[2] <= stage[o] /\ m[2] \in 1 .. Len(Life)
        BY <3>1, Pairs DEF IInv, Enqueued
      <3>3. stage[o] + 1 \in (m[2] + 1) .. stage'[m[1]]
        BY <1>0, <1>a, <3>1, <3>2 DEF IInv, Typed
      <3> QED
        BY <3>1, <3>3
    <2>2. CASE m \notin S
      <3>1. status[m] = "DISCARDED"
        BY <1>0, <1>a, <2>2
      <3>2. stage[m[1]] \in Int /\ stage'[m[1]] \in Int /\ stage[m[1]] <= stage'[m[1]] /\ m[2] \in Int
        BY <1>0, <1>a, Pairs DEF IInv, Typed
      <3>3. \A k \in (m[2] + 1) .. stage[m[1]] : k \in (m[2] + 1) .. stage'[m[1]]
        BY <3>2
      <3> QED
        BY <3>1, <3>3 DEF IInv, DiscardHasReason
    <2> QED
      BY <2>1, <2>2
  <1>8. OvertakenSettled'
    <2> SUFFICES ASSUME NEW m \in Message, Overtaken(m)'
                 PROVE  status'[m] # "PENDING"
      BY DEF OvertakenSettled
    <2>1. m # n
      <3> SUFFICES ASSUME m = n PROVE FALSE
        OBVIOUS
      <3>1. stage'[m[1]] = m[2]
        BY <1>0, <1>a DEF IInv, Typed
      <3>2. (m[2] + 1) .. stage'[m[1]] = {}
        BY <3>1, Pairs
      <3> QED
        BY <3>2 DEF Overtaken
    <2>2. \A k \in Message \ {n} : status[k] = "ABSENT" <=> status'[k] = "ABSENT"
      BY <1>0, <1>a DEF Inserts, Discards, Superseded
    <2>3. \/ Overtaken(m)
          \/ m[1] = o /\ Class(m) = "throttled" /\ Class(n) = "superseding"
      BY <1>0, <1>a, <2>1, <2>2, MovesOn DEF n
    <2>4. CASE Overtaken(m)
      BY <1>0, <1>a, <2>1, <2>4 DEF IInv, OvertakenSettled
    <2>5. CASE m[1] = o /\ Class(m) = "throttled" /\ Class(n) = "superseding"
      <3>1. status[m] = "PENDING" => m \in S
        BY <2>5 DEF Inserts, Discards, Superseded, n
      <3> QED
        BY <1>a, <2>1, <3>1
    <2> QED
      BY <2>3, <2>4, <2>5
  <1> QED
    BY <1>1, <1>2, <1>3, <1>4, <1>5, <1>6, <1>7, <1>8 DEF IInv

LEMMA SnapshotPreserves ==
  ASSUME IInv, NEW o \in Order, SlotSnapshot(o)
  PROVE  IInv'
  <1> USE DEF SlotSnapshot, rows
  <1>1. Typed' /\ Enqueued'
    BY DEF IInv, Typed, Enqueued, HasNext, NextMessage
  <1>2. Reserved' /\ Held'
    BY DEF IInv, Reserved, Held, Holds
  <1>2a. BelowLimit' /\ OneSenderPerRow' /\ ExtraAttemptOnlyAfterExpiry'
    BY DEF IInv, BelowLimit, OneSenderPerRow, ExtraAttemptOnlyAfterExpiry
  <1>3. DiscardHasReason' /\ OvertakenSettled'
    BY DEF IInv, DiscardHasReason, OvertakenSettled, Overtaken
  <1> QED
    BY <1>1, <1>2, <1>2a, <1>3 DEF IInv

LEMMA EnqueuePreserves ==
  ASSUME IInv, NEW o \in Order, Enqueue(o)
  PROVE  IInv'
  <1>0. /\ Unlocked({}) = token /\ Discarded({}) = status
        /\ [m \in Message |-> IF m \in {} THEN 0 ELSE lock[m]] = lock
    BY DEF IInv, Typed, Unlocked, Discarded
  <1>1. CASE EnqueueRefused(o)
    BY <1>1, RefusedPreserves
  <1>2. CASE EnqueuePrompt(o)
    <2>1. Inserts(o, Discards(o)) /\ Discards(o) \in SUBSET Message
      BY <1>2 DEF EnqueuePrompt, HasNext, Inserts, InsertRow, Discards, Superseded
    <2> QED
      BY <2>1, InsertPreserves
  <1>4. CASE SlotSnapshot(o)
    BY <1>4, SnapshotPreserves
  <1>5. CASE SlotInsert(o)
    <2>1. Inserts(o, {})
      BY <1>0, <1>5 DEF SlotInsert, Inserts, InsertRow, Discards, IInv, Enqueued
    <2> QED
      BY <2>1, InsertPreserves
  <1> QED
    BY <1>1, <1>2, <1>4, <1>5 DEF Enqueue

-----------------------------------------------------------------------------
(* The actions of a pass.                                                  *)

LEMMA DiscardPreserves ==
  ASSUME IInv, DiscardWithoutConsent
  PROVE  IInv'
  <1> DEFINE S == {m \in Message : status[m] = "PENDING" /\ lock[m] = 0}
  <1>a. /\ ~consent
        /\ status' = [m \in Message |-> IF m \in S THEN "DISCARDED" ELSE status[m]]
        /\ token' = [m \in Message |-> IF m \in S THEN 0 ELSE token[m]]
        /\ UNCHANGED <<stage, open, consent, lock, attempts, old, run, expired, withdrew>>
    BY DEF DiscardWithoutConsent, Discarded, Unlocked, orders
  <1>b. \A m \in S : status[m] = "PENDING"
    OBVIOUS
  <1> HIDE DEF S
  <1>1. Typed' /\ Enqueued'
    BY <1>a, <1>b DEF IInv, Typed, Status, Enqueued, NextMessage
  <1>2. Reserved' /\ Held' /\ BelowLimit'
    BY <1>a, <1>b, Pairs DEF IInv, Reserved, Held, Holds, BelowLimit
  <1>3. OneSenderPerRow' /\ ExtraAttemptOnlyAfterExpiry'
    BY <1>a DEF IInv, OneSenderPerRow, ExtraAttemptOnlyAfterExpiry
  <1>4. DiscardHasReason'
    BY <1>a DEF IInv, DiscardHasReason, Enqueued
  <1>5. OvertakenSettled'
    BY <1>a, <1>b, SameOvertaken DEF IInv, OvertakenSettled
  <1> QED
    BY <1>1, <1>2, <1>3, <1>4, <1>5 DEF IInv

LEMMA PickPreserves ==
  ASSUME IInv, NEW m \in Message, Pick(m)
  PROVE  IInv'
  <1> DEFINE n == attempts[m] + 1
             b == <<m, n>>
  <1>z. attempts[m] < MaxPicks /\ status[m] = "PENDING" /\ lock[m] = 0
    <2>1. attempts[m] \in 0 .. MaxPicks
      BY DEF IInv, Typed
    <2>2. ~(attempts[m] >= MaxPicks) /\ status[m] = "PENDING" /\ lock[m] = 0
      BY DEF Pick, Due, Explored
    <2> QED
      BY <2>1, <2>2
  <1>0. /\ attempts[m] \in 0 .. MaxPicks /\ n \in 1 .. MaxPicks /\ b \in Attempt
        /\ b[1] = m /\ b[2] = n /\ status[m] = "PENDING" /\ lock[m] = 0
    BY <1>z, Pairs DEF IInv, Typed
  <1>a. /\ attempts' = [attempts EXCEPT ![m] = n]
        /\ token' = [token EXCEPT ![m] = n]
        /\ lock' = [lock EXCEPT ![m] = Lock]
        /\ run' = [run EXCEPT ![b] = "checking"]
        /\ UNCHANGED <<stage, open, consent, status, old, expired, withdrew>>
    BY DEF Pick, orders
  <1> HIDE DEF b
  <1>b. token[m] # 0 => token[m] = attempts[m] /\ <<m, attempts[m]>> \in expired
    BY <1>0 DEF IInv, Reserved
  <1>c. \A a \in Attempt : a[1] = m /\ run[a] \in Busy => a \in expired /\ a[2] < n
    <2> SUFFICES ASSUME NEW a \in Attempt, a[1] = m, run[a] \in Busy
                 PROVE  a \in expired /\ a[2] < n
      OBVIOUS
    <2>1. a[2] <= attempts[m] /\ (Holds(a) \/ a \in expired)
      BY <1>0 DEF IInv, Held
    <2>2. a[2] \in 1 .. MaxPicks /\ a = <<m, a[2]>>
      BY Pairs
    <2>3. Holds(a) => a \in expired
      BY <1>b, <2>2 DEF Holds
    <2> QED
      BY <1>0, <2>1, <2>2, <2>3
  <1>1. Typed'
    <2>1. run' \in [Attempt -> Phase]
      BY <1>0, <1>a DEF IInv, Typed, Phase
    <2>2. attempts' \in [Message -> 0 .. MaxPicks] /\ token' \in [Message -> Nat]
      BY <1>0, <1>a DEF IInv, Typed
    <2> QED
      BY <1>a, <2>1, <2>2 DEF IInv, Typed
  <1>2. Enqueued'
    BY <1>0, <1>a DEF IInv, Typed, Enqueued, NextMessage
  <1>3. Reserved'
    BY <1>0, <1>a DEF IInv, Typed, Reserved
  <1>4. Held'
    <2> SUFFICES ASSUME NEW a \in Attempt, run'[a] \in Busy
                 PROVE  /\ a[2] <= attempts'[a[1]]
                        /\ Holds(a)' \/ status'[a[1]] # "PENDING" \/ a \in expired'
      BY DEF Held
    <2>1. CASE a = b
      BY <1>0, <1>a, <2>1 DEF IInv, Typed, Holds
    <2>2. CASE a # b /\ a[1] = m
      BY <1>0, <1>a, <1>c, <2>2, Pairs DEF IInv, Typed
    <2>3. CASE a[1] # m
      BY <1>0, <1>a, <2>3, Pairs DEF IInv, Typed, Held, Holds
    <2> QED
      BY <2>1, <2>2, <2>3
  <1>5. BelowLimit'
    BY <1>0, <1>a DEF IInv, Typed, BelowLimit
  <1>6. OneSenderPerRow'
    <2> SUFFICES ASSUME NEW a \in Attempt, NEW c \in Attempt,
                        a[1] = c[1], a[2] < c[2], run'[a] \in Busy, run'[c] \in Busy
                 PROVE  a \in expired
      BY <1>a DEF OneSenderPerRow
    <2>1. CASE a[1] = m
      <3>1. a # b
        <4> SUFFICES ASSUME a = b PROVE FALSE
          OBVIOUS
        <4>1. c # b /\ c[1] = m /\ run[c] \in Busy
          BY <1>0, <1>a, <2>1, Pairs DEF IInv, Typed
        <4> QED
          BY <1>0, <1>c, <4>1, Pairs
      <3>2. run[a] \in Busy
        BY <1>a, <3>1 DEF IInv, Typed
      <3> QED
        BY <1>c, <2>1, <3>2
    <2>2. CASE a[1] # m
      <3>1. a # b /\ c # b
        BY <1>0, <2>2
      <3> QED
        BY <1>a, <3>1 DEF IInv, Typed, OneSenderPerRow
    <2> QED
      BY <2>1, <2>2
  <1>7. DiscardHasReason' /\ OvertakenSettled'
    BY <1>a, SameOvertaken DEF IInv, DiscardHasReason, OvertakenSettled
  <1>8. ExtraAttemptOnlyAfterExpiry'
    <2> SUFFICES ASSUME NEW a \in Attempt, a[2] >= MaxAttempts, a[2] < attempts'[a[1]]
                 PROVE  a \in expired
      BY <1>a DEF ExtraAttemptOnlyAfterExpiry
    <2>1. CASE a[1] = m /\ a[2] = attempts[m]
      <3>1. token[m] # 0
        BY <1>0, <2>1 DEF IInv, BelowLimit
      <3> QED
        BY <1>b, <2>1, <3>1, Pairs
    <2>2. CASE ~ (a[1] = m /\ a[2] = attempts[m])
      <3>0. a[1] \in Message /\ a[2] \in 1 .. MaxPicks
        BY Pairs
      <3>1. a[1] \in Message /\ a[2] \in Nat
        BY <3>0
      <3>1a. attempts \in [Message -> 0 .. MaxPicks]
        BY DEF IInv, Typed
      <3>2. CASE a[1] = m
        <4>1. attempts'[a[1]] = attempts[m] + 1
          BY <1>0, <1>a, <3>1, <3>1a, <3>2
        <4>2. attempts[m] \in Nat
          BY <1>0, <3>1a
        <4>3. a[2] < attempts[a[1]]
          BY <2>2, <3>1, <3>2, <4>1, <4>2
        <4> QED
          BY <4>3 DEF IInv, ExtraAttemptOnlyAfterExpiry
      <3>3. CASE a[1] # m
        <4>1. attempts'[a[1]] = attempts[a[1]]
          BY <1>a, <3>1, <3>1a, <3>3
        <4> QED
          BY <4>1 DEF IInv, ExtraAttemptOnlyAfterExpiry
      <3> QED
        BY <3>2, <3>3
    <2> QED
      BY <2>1, <2>2
  <1> QED
    BY <1>1, <1>2, <1>3, <1>4, <1>5, <1>6, <1>7, <1>8 DEF IInv

LEMMA SettlePreserves ==
  ASSUME IInv, NEW a \in Attempt, run[a] \in Busy,
         NEW outcome \in {"PENDING", "DELIVERED", "DISCARDED", "FAILED"},
         NEW when, Settle(a, outcome, when),
         outcome = "PENDING" => a[2] < MaxAttempts,
         outcome = "DISCARDED" => Unwanted(a[1])
  PROVE  IInv'
  <1>0. a[1] \in Message /\ a[2] \in 1 .. MaxPicks /\ a = <<a[1], a[2]>>
    BY Pairs
  <1>1. /\ run' = [run EXCEPT ![a] = "done"]
        /\ UNCHANGED <<stage, open, consent, attempts, old, expired, withdrew>>
        /\ \A c \in Attempt : run'[c] \in Busy => c # a /\ run[c] \in Busy
    BY DEF Settle, orders, IInv, Typed, Busy
  <1>2. run' \in [Attempt -> Phase]
    BY <1>1 DEF IInv, Typed, Phase
  <1>3. OneSenderPerRow' /\ ExtraAttemptOnlyAfterExpiry'
    BY <1>1 DEF IInv, OneSenderPerRow, ExtraAttemptOnlyAfterExpiry
  <1>4. CASE ~Holds(a)
    <2>1. UNCHANGED <<status, lock, token>>
      BY <1>4 DEF Settle
    <2>2. Typed' /\ Enqueued' /\ Reserved' /\ BelowLimit'
      BY <1>1, <1>2, <2>1 DEF IInv, Typed, Enqueued, Reserved, BelowLimit, NextMessage
    <2>3. Held'
      BY <1>1, <2>1 DEF IInv, Held, Holds
    <2>4. DiscardHasReason' /\ OvertakenSettled'
      BY <1>1, <2>1, SameOvertaken DEF IInv, DiscardHasReason, OvertakenSettled
    <2> QED
      BY <1>3, <2>2, <2>3, <2>4 DEF IInv
  <1>5. CASE Holds(a)
    <2>1. /\ status' = [status EXCEPT ![a[1]] = outcome]
          /\ lock' = [lock EXCEPT ![a[1]] = 0]
          /\ token' = [token EXCEPT ![a[1]] = 0]
      BY <1>5 DEF Settle
    <2>2. /\ status[a[1]] = "PENDING"
          /\ attempts[a[1]] = a[2]
      BY <1>0, <1>5 DEF Holds, IInv, Reserved
    <2>3. Typed' /\ Enqueued'
      BY <1>0, <1>1, <1>2, <2>1, <2>2 DEF IInv, Typed, Status, Enqueued, NextMessage
    <2>4. Reserved' /\ BelowLimit'
      BY <1>0, <1>1, <2>1, <2>2 DEF IInv, Typed, Reserved, BelowLimit
    <2>5. Held'
      <3> SUFFICES ASSUME NEW c \in Attempt, run'[c] \in Busy
                   PROVE  /\ c[2] <= attempts'[c[1]]
                          /\ Holds(c)' \/ status'[c[1]] # "PENDING" \/ c \in expired'
        BY DEF Held
      <3>1. c # a /\ run[c] \in Busy /\ c[1] \in Message /\ c = <<c[1], c[2]>>
        BY <1>1, Pairs
      <3>2. CASE c[1] = a[1]
        <4>1. ~Holds(c)
          BY <1>0, <1>5, <3>1, <3>2 DEF Holds
        <4> QED
          BY <1>1, <2>2, <3>1, <3>2, <4>1 DEF IInv, Held
      <3>3. CASE c[1] # a[1]
        BY <1>0, <1>1, <2>1, <3>1, <3>3 DEF IInv, Typed, Held, Holds
      <3> QED
        BY <3>2, <3>3
    <2>6. DiscardHasReason'
      <3> SUFFICES ASSUME NEW m \in Message, status'[m] = "DISCARDED"
                   PROVE  \/ withdrew
                          \/ m \in old
                          \/ \E k \in (m[2] + 1) .. stage[m[1]] :
                               Class(m) = "throttled" /\ Life[k] = "superseding"
        BY <1>1 DEF DiscardHasReason
      <3>1. CASE m = a[1]
        BY <1>0, <2>1, <3>1 DEF IInv, Typed, Enqueued, Unwanted
      <3>2. CASE m # a[1]
        BY <1>0, <2>1, <3>2 DEF IInv, Typed, DiscardHasReason
      <3> QED
        BY <3>1, <3>2
    <2>7. OvertakenSettled'
      <3>1. \A k \in Message : status[k] = "ABSENT" <=> status'[k] = "ABSENT"
        BY <1>0, <2>1, <2>2 DEF IInv, Typed
      <3>2. \A k \in Message : status'[k] = "PENDING" => status[k] = "PENDING"
        BY <1>0, <2>1, <2>2 DEF IInv, Typed
      <3> QED
        BY <1>1, <3>1, <3>2, SameOvertaken DEF IInv, OvertakenSettled
    <2> QED
      BY <1>3, <2>3, <2>4, <2>5, <2>6, <2>7 DEF IInv
  <1> QED
    BY <1>4, <1>5

(* Steps of an attempt that leave the rows alone.                          *)
LEMMA ProgressPreserves ==
  ASSUME IInv, NEW a \in Attempt, Send(a) \/ Accept(a) \/ Die(a)
  PROVE  IInv'
  <1>1. /\ run' \in [Attempt -> Phase]
        /\ \A c \in Attempt : run'[c] \in Busy => run[c] \in Busy
    BY DEF Send, Accept, Die, IInv, Typed, Phase, Busy
  <1>2. UNCHANGED <<stage, open, consent, status, lock, token, attempts, old, expired, withdrew>>
    BY DEF Send, Accept, Die, orders, rows
  <1>3. Typed' /\ Enqueued' /\ Reserved' /\ BelowLimit'
    BY <1>1, <1>2 DEF IInv, Typed, Enqueued, Reserved, BelowLimit, NextMessage
  <1>4. Held' /\ OneSenderPerRow' /\ ExtraAttemptOnlyAfterExpiry'
    BY <1>1, <1>2 DEF IInv, Held, Holds, OneSenderPerRow, ExtraAttemptOnlyAfterExpiry
  <1>5. DiscardHasReason' /\ OvertakenSettled'
    BY <1>2 DEF IInv, DiscardHasReason, OvertakenSettled, Overtaken
  <1> QED
    BY <1>3, <1>4, <1>5 DEF IInv

LEMMA AttemptPreserves ==
  ASSUME IInv, NEW a \in Attempt, AttemptStep(a)
  PROVE  IInv'
  <1>0. a[2] \in Nat
    BY Pairs
  <1>1. CASE CheckDiscards(a)
    BY <1>1, SettlePreserves DEF CheckDiscards, Busy
  <1>2. CASE RecordDelivered(a)
    BY <1>2, SettlePreserves DEF RecordDelivered, Busy
  <1>3. CASE SendFails(a) \/ DatabaseFails(a)
    <2>1. run[a] \in Busy /\ Failed(a)
      BY <1>3 DEF SendFails, DatabaseFails, Busy
    <2>2. CASE Exhausted(a[2])
      BY <2>1, <2>2, SettlePreserves DEF Failed
    <2>3. CASE ~Exhausted(a[2])
      <3>1. Settle(a, "PENDING", Backoff(a[2])) /\ a[2] < MaxAttempts
        BY <1>0, <2>1, <2>3 DEF Failed, Exhausted
      <3> QED
        BY <2>1, <3>1, SettlePreserves
    <2> QED
      BY <2>2, <2>3
  <1>4. CASE ConfigurationFails(a)
    BY <1>4, SettlePreserves DEF ConfigurationFails, Busy
  <1>5. CASE Send(a) \/ Accept(a) \/ Die(a)
    BY <1>5, ProgressPreserves
  <1> QED
    BY <1>1, <1>2, <1>3, <1>4, <1>5 DEF AttemptStep

LEMMA WorldPreserves ==
  ASSUME IInv, SetConsent \/ GrowOld \/ Tick
  PROVE  IInv'
  <1>1. /\ UNCHANGED <<stage, open, status, token, attempts, run>>
        /\ lock' \in [Message -> Nat]
        /\ expired \subseteq expired' /\ expired' \subseteq Attempt
        /\ old \subseteq old' /\ old' \subseteq Message
        /\ \A m \in old' : status[m] # "ABSENT"
        /\ consent' \in BOOLEAN /\ withdrew' \in BOOLEAN
        /\ withdrew => withdrew'
        /\ ~consent' => withdrew'
    <2>1. CASE SetConsent
      BY <2>1 DEF SetConsent, orders, rows, IInv, Typed, Enqueued
    <2>2. CASE GrowOld
      BY <2>2 DEF GrowOld, orders, rows, IInv, Typed, Enqueued
    <2>3. CASE Tick
      BY <2>3 DEF Tick, Down, IInv, Typed, Enqueued
    <2> QED
      BY <2>1, <2>2, <2>3
  <1>2. \A m \in Message :
          token[m] # 0 /\ lock'[m] = 0 => <<m, token[m]>> \in expired'
    <2> SUFFICES ASSUME NEW m \in Message, token[m] # 0, lock'[m] = 0
                 PROVE  <<m, token[m]>> \in expired'
      OBVIOUS
    <2>1. CASE UNCHANGED <<lock, expired>>
      BY <2>1 DEF IInv, Reserved
    <2>2. CASE Tick
      <3>0. token[m] = attempts[m] /\ attempts[m] \in 0 .. MaxPicks /\ lock[m] \in Nat
        BY DEF IInv, Typed, Reserved
      <3>1. token[m] \in 1 .. MaxPicks
        BY <3>0
      <3>2. lock[m] <= 1
        BY <2>2, <3>0 DEF Tick, Down
      <3> QED
        BY <2>2, <3>1, <3>2, Pairs DEF Tick
    <2> QED
      BY <2>1, <2>2 DEF SetConsent, GrowOld, rows
  <1>3. Typed' /\ Enqueued'
    BY <1>1 DEF IInv, Typed, Enqueued, NextMessage
  <1>4. Reserved' /\ BelowLimit'
    BY <1>1, <1>2 DEF IInv, Reserved, BelowLimit
  <1>5. Held' /\ OneSenderPerRow' /\ ExtraAttemptOnlyAfterExpiry'
    BY <1>1 DEF IInv, Held, Holds, OneSenderPerRow, ExtraAttemptOnlyAfterExpiry
  <1>6. DiscardHasReason'
    BY <1>1, SameReasons DEF DiscardHasReason
  <1>7. OvertakenSettled'
    BY <1>1 DEF IInv, OvertakenSettled, Overtaken
  <1> QED
    BY <1>3, <1>4, <1>5, <1>6, <1>7 DEF IInv

LEMMA NextPreserves == IInv /\ [Next]_vars => IInv'
  <1> SUFFICES ASSUME IInv, [Next]_vars PROVE IInv'
    OBVIOUS
  <1>1. ASSUME NEW o \in Order, Enqueue(o) PROVE IInv'
    BY <1>1, EnqueuePreserves
  <1>2. ASSUME NEW m \in Message, Pick(m) PROVE IInv'
    BY <1>2, PickPreserves
  <1>3. ASSUME NEW a \in Attempt, AttemptStep(a) PROVE IInv'
    BY <1>3, AttemptPreserves
  <1>4. CASE DiscardWithoutConsent
    BY <1>4, DiscardPreserves
  <1>5. CASE SetConsent \/ GrowOld \/ Tick
    BY <1>5, WorldPreserves
  <1>6. CASE UNCHANGED vars
    <2>1. UNCHANGED <<stage, open, consent, status, lock, token, attempts, old, run, expired, withdrew>>
      BY <1>6 DEF vars, orders, rows
    <2>2. Typed' /\ Enqueued' /\ Reserved' /\ BelowLimit' /\ Held'
      BY <2>1 DEF IInv, Typed, Enqueued, Reserved, BelowLimit, Held, Holds, NextMessage
    <2>3. OneSenderPerRow' /\ ExtraAttemptOnlyAfterExpiry' /\ DiscardHasReason' /\ OvertakenSettled'
      BY <2>1 DEF IInv, OneSenderPerRow, ExtraAttemptOnlyAfterExpiry, DiscardHasReason,
                  OvertakenSettled, Overtaken
    <2> QED
      BY <2>2, <2>3 DEF IInv
  <1> QED
    BY <1>1, <1>2, <1>3, <1>4, <1>5, <1>6 DEF Next

LEMMA Inductive == Spec => []IInv
  <1> QED
    BY InitIInv, NextPreserves, PTL DEF Spec

-----------------------------------------------------------------------------
(* For any lives of any orders: two attempts on one row overlap only after *)
(* the lock of the earlier one ran out.                                    *)
THEOREM ReservationSafety == Spec => []OneSenderPerRow
  <1>1. IInv => OneSenderPerRow
    BY DEF IInv
  <1> QED
    BY <1>1, Inductive, PTL

(* A row is only discarded without consent, after 24 hours, or by a final  *)
(* message of its own order.                                               *)
THEOREM DiscardSafety == Spec => []DiscardHasReason
  <1>1. IInv => DiscardHasReason
    BY DEF IInv
  <1> QED
    BY <1>1, Inductive, PTL

(* Attempts beyond the limit follow attempts that were cut off.            *)
THEOREM AttemptsSafety == Spec => []ExtraAttemptOnlyAfterExpiry
  <1>1. IInv => ExtraAttemptOnlyAfterExpiry
    BY DEF IInv
  <1> QED
    BY <1>1, Inductive, PTL

(* No step starts an attempt of a message that a final one overtook.       *)
THEOREM OvertakenSafety == Spec => OvertakenNeverReserved
  <1>1. IInv /\ [Next]_vars =>
          [\A m \in Message : Overtaken(m) => attempts'[m] = attempts[m]]_vars
    <2> SUFFICES ASSUME IInv, Next, NEW m \in Message, Overtaken(m)
                 PROVE  attempts'[m] = attempts[m]
      BY DEF vars
    <2>1. status[m] # "PENDING"
      BY DEF IInv, OvertakenSettled
    <2>2. CASE \E k \in Message : Pick(k)
      BY <2>1, <2>2 DEF Pick, Due, IInv, Typed
    <2>3. CASE \E o \in Order : Enqueue(o)
      BY <2>3 DEF Enqueue, EnqueueRefused, EnqueuePrompt,
                  SlotSnapshot, SlotInsert, InsertRow, rows
    <2>4. CASE \E a \in Attempt : AttemptStep(a)
      BY <2>4 DEF AttemptStep, CheckDiscards, Send, Accept, RecordDelivered, SendFails,
                  DatabaseFails, ConfigurationFails, Die, Failed, Settle, rows
    <2>5. CASE DiscardWithoutConsent \/ SetConsent \/ GrowOld \/ Tick
      BY <2>5 DEF DiscardWithoutConsent, SetConsent, GrowOld, Tick, rows
    <2> QED
      BY <2>2, <2>3, <2>4, <2>5 DEF Next
  <1> QED
    BY <1>1, Inductive, PTL DEF Spec, OvertakenNeverReserved
=============================================================================
