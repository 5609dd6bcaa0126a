------------------------- MODULE LoyaltyJobProofs -------------------------
(***************************************************************************)
(* What holds of the scheduled jobs and of the loyalty rewards, which one  *)
(* of those jobs expires.                                                  *)
(*                                                                         *)
(* Safety of the job lease for any number of workers, any durations and    *)
(* any clock offsets. IInv says who may still be executing a claim that is *)
(* not the current one: only a worker whose lease deadline has passed.     *)
(***************************************************************************)
EXTENDS JobLease, CouponRedemption, FiniteSetTheorems, WellFoundedInduction, TLAPS

VersionsBounded ==
  /\ \A w \in Worker : lease[w] <= row.version
  /\ \A o \in outcomes : o[1] <= row.version

(* An owned row is due, its version has no outcome yet, and once its       *)
(* deadline is reached its version is recorded as expired.                 *)
OwnedRow ==
  row.owner # None =>
    /\ row.wait = 0
    /\ \A o \in outcomes : o[1] # row.version
    /\ row.left = 0 => row.version \in expired

(* An executing worker owns the row or has outlived its lease.             *)
HolderOrExpired ==
  \A w \in Worker : pc[w] = "executing" =>
    \/ row.owner = w /\ row.version = lease[w]
    \/ lease[w] \in expired

IInv ==
  /\ TypeOK
  /\ VersionsBounded
  /\ OwnedRow
  /\ HolderOrExpired
  /\ SingleOutcome

USE LeaseAssumption DEF LeaseAssumption

LEMMA InitIInv == Init => IInv
  BY DEF Init, IInv, TypeOK, Phase, Renewal, VersionsBounded, OwnedRow,
         HolderOrExpired, SingleOutcome

LEMMA DueInNat ==
  ASSUME NEW delay \in Nat, NEW skew \in ClockSkew
  PROVE  DueIn(delay, skew) \in Nat
  BY DEF DueIn

(* A claim: everybody who was executing the previous version outlived it.  *)
LEMMA ClaimExpires ==
  ASSUME IInv, NEW w \in Worker, ClaimRow(w)
  PROVE  \A u \in Worker : pc[u] = "executing" => lease[u] \in expired
  <1>1. CASE row.owner = None
    BY <1>1 DEF IInv, HolderOrExpired
  <1>2. CASE row.owner # None
    <2>1. row.left = 0
      BY <1>2 DEF ClaimRow, LeaseFree
    <2>2. row.version \in expired
      BY <1>2, <2>1 DEF IInv, OwnedRow
    <2> QED
      BY <2>2 DEF IInv, HolderOrExpired
  <1> QED
    BY <1>1, <1>2

LEMMA ClaimPreserves ==
  ASSUME IInv, NEW w \in Worker, Dispatch(w) \/ DispatchAnswerLost(w)
  PROVE  IInv'
  <1> USE DEF ClaimRow, Claimed
  <1>1. ClaimRow(w)
    BY DEF Dispatch, DispatchAnswerLost
  <1>2. TypeOK'
    BY <1>1 DEF IInv, TypeOK, Phase, Dispatch, DispatchAnswerLost
  <1>3. VersionsBounded'
    BY <1>1 DEF IInv, TypeOK, VersionsBounded, Dispatch, DispatchAnswerLost
  <1>4. OwnedRow'
    BY <1>1 DEF IInv, TypeOK, VersionsBounded, OwnedRow
  <1>5. HolderOrExpired'
    <2>1. \A u \in Worker : pc[u] = "executing" => lease[u] \in expired
      BY <1>1, ClaimExpires
    <2> QED
      BY <1>1, <2>1 DEF IInv, TypeOK, HolderOrExpired, Dispatch, DispatchAnswerLost
  <1>6. SingleOutcome'
    BY <1>1 DEF IInv, SingleOutcome
  <1> QED
    BY <1>2, <1>3, <1>4, <1>5, <1>6 DEF IInv

(* complete() and fail() write an outcome only for the current version and *)
(* release the row, which a worker in the settling phases is not executing.*)
LEMMA SettlePreserves ==
  ASSUME IInv, NEW w \in Worker, CompleteLease(w) \/ FailLease(w)
  PROVE  IInv'
  <1>1. CASE UNCHANGED <<row, outcomes>>
    BY <1>1 DEF IInv, TypeOK, Phase, VersionsBounded, OwnedRow, HolderOrExpired,
                SingleOutcome, CompleteLease, FailLease
  <1>2. CASE ~ UNCHANGED <<row, outcomes>>
    <2>1. PICK delay \in Nat, kind \in {"completed", "failed"}, skew \in ClockSkew :
            /\ Fence(w)
            /\ row' = Settled(delay, skew)
            /\ outcomes' = outcomes \cup {<<lease[w], kind>>}
      BY <1>2 DEF CompleteLease, FailLease, SettleRow
    <2>2. /\ pc[w] # "executing"
          /\ pc' = [pc EXCEPT ![w] = pc'[w]] /\ pc'[w] \in {"idle", "failing"}
          /\ UNCHANGED <<lease, lost, renewal, stopping, expired>>
      BY DEF IInv, TypeOK, CompleteLease, FailLease
    <2>3. DueIn(delay, skew) \in Nat
      BY DueInNat
    <2>4. TypeOK'
      <3>1. row' \in [owner : Worker \cup {None}, version : Nat, left : Nat, wait : Nat]
        BY <2>1, <2>3 DEF IInv, TypeOK, Settled
      <3>2. outcomes' \subseteq Nat \X {"completed", "failed"}
        BY <2>1 DEF IInv, TypeOK
      <3> QED
        BY <2>2, <3>1, <3>2 DEF IInv, TypeOK, Phase
    <2>5. VersionsBounded'
      BY <2>1, <2>2 DEF IInv, TypeOK, VersionsBounded, Settled, Fence
    <2>6. OwnedRow'
      BY <2>1 DEF IInv, TypeOK, OwnedRow, Settled
    <2>7. HolderOrExpired'
      BY <2>1, <2>2 DEF IInv, TypeOK, HolderOrExpired, Settled, Fence
    <2>8. SingleOutcome'
      BY <2>1 DEF IInv, OwnedRow, SingleOutcome, Fence
    <2> QED
      BY <2>4, <2>5, <2>6, <2>7, <2>8 DEF IInv
  <1> QED
    BY <1>1, <1>2

LEMMA TickPreserves ==
  ASSUME IInv, Tick
  PROVE  IInv'
  <1>1. TypeOK'
    <2>1. Down(row.left) \in Nat /\ Down(row.wait) \in Nat
      BY DEF IInv, TypeOK, Down
    <2>2. row' \in [owner : Worker \cup {None}, version : Nat, left : Nat, wait : Nat]
      BY <2>1 DEF IInv, TypeOK, Tick
    <2> QED
      BY <2>2 DEF IInv, TypeOK, Tick
  <1>2. VersionsBounded' /\ OwnedRow' /\ HolderOrExpired' /\ SingleOutcome'
    BY DEF Tick, Down, IInv, TypeOK, VersionsBounded, OwnedRow, HolderOrExpired, SingleOutcome
  <1> QED
    BY <1>1, <1>2 DEF IInv

LEMMA NextIInv == IInv /\ [Next]_vars => IInv'
  <1> SUFFICES ASSUME IInv, [Next]_vars PROVE IInv'
    OBVIOUS
  <1> USE DEF IInv, TypeOK, Phase, Renewal, VersionsBounded, OwnedRow,
              HolderOrExpired, SingleOutcome
  <1>1. CASE Tick
    BY <1>1, TickPreserves
  <1>2. ASSUME NEW w \in Worker, Dispatch(w) \/ DispatchAnswerLost(w) PROVE IInv'
    BY <1>2, ClaimPreserves
  <1>3. ASSUME NEW w \in Worker, CompleteLease(w) \/ FailLease(w) PROVE IInv'
    BY <1>3, SettlePreserves
  <1>4. ASSUME NEW w \in Worker, RenewCommit(w) PROVE IInv'
    <2>1. row' \in [owner : Worker \cup {None}, version : Nat, left : Nat, wait : Nat]
      BY <1>4 DEF RenewCommit
    <2>2. TypeOK'
      BY <1>4, <2>1 DEF RenewCommit
    <2> QED
      BY <1>4, <2>2 DEF RenewCommit
  <1>5. ASSUME NEW w \in Worker,
               HeartbeatSend(w) \/ RenewError(w) \/ RenewAnswer(w)
        PROVE  IInv'
    BY <1>5 DEF HeartbeatSend, RenewError, RenewAnswer
  <1>6. ASSUME NEW w \in Worker,
               ExecuteEnds(w) \/ LeaseLost(w) \/ Stop(w) \/ Exit(w)
        PROVE  IInv'
    <2>1. CASE ExecuteEnds(w)
      BY <2>1 DEF ExecuteEnds
    <2>2. CASE LeaseLost(w)
      BY <2>2 DEF LeaseLost
    <2>3. CASE Stop(w)
      BY <2>3 DEF Stop
    <2>4. CASE Exit(w)
      BY <2>4 DEF Exit
    <2> QED
      BY <1>6, <2>1, <2>2, <2>3, <2>4
  <1>7. CASE UNCHANGED vars
    BY <1>7 DEF vars
  <1> QED
    BY <1>1, <1>2, <1>3, <1>4, <1>5, <1>6, <1>7 DEF Next, WorkerStep

(* The inductive invariant: whoever executes holds the row, or outlived a  *)
(* lease whose deadline passed.                                            *)
THEOREM Invariance == Spec => []IInv
  BY InitIInv, NextIInv, PTL DEF Spec

(* JobRunner.ts:57 runs execute() while another replica may claim: the two *)
(* executions overlap only after a lease deadline was missed.              *)
THEOREM OverlapSafety == Spec => []OverlapOnlyAfterExpiry
  <1>1. IInv => OverlapOnlyAfterExpiry
    BY DEF IInv, HolderOrExpired, OverlapOnlyAfterExpiry, TypeOK
  <1> QED
    BY <1>1, Invariance, PTL

(* The typing of every variable.                                           *)
THEOREM TypeCorrect == Spec => []TypeOK
  <1>1. IInv => TypeOK
    BY DEF IInv
  <1> QED
    BY <1>1, Invariance, PTL

(* One outcome per claimed version, whatever answers are lost.             *)
THEOREM OutcomeSafety == Spec => []SingleOutcome
  <1>1. IInv => SingleOutcome
    BY DEF IInv
  <1> QED
    BY <1>1, Invariance, PTL

(* A recorded cooldown is never shortened, by any interleaving of late     *)
(* complete(), fail() and renew() calls.                                   *)
THEOREM CooldownSafety == Spec => CooldownNeverShortened
  <1>1. IInv /\ [Next]_vars => [row'.wait >= row.wait - 1]_vars
    <2> SUFFICES ASSUME IInv, [Next]_vars PROVE row'.wait >= row.wait - 1
      OBVIOUS
    <2>1. row.wait \in Nat /\ (row.owner # None => row.wait = 0)
      BY DEF IInv, TypeOK, OwnedRow
    <2>2. CASE Tick
      BY <2>1, <2>2 DEF Tick, Down, IInv, TypeOK
    <2>3. ASSUME NEW w \in Worker, ClaimRow(w) PROVE row'.wait >= row.wait - 1
      BY <2>1, <2>3 DEF ClaimRow, Claimed
    <2>4. ASSUME NEW w \in Worker, NEW delay \in Nat, NEW kind,
                 SettleRow(w, delay, kind)
          PROVE  row'.wait >= row.wait - 1
      <3>1. CASE Fence(w)
        <4>1. PICK skew \in ClockSkew : row' = Settled(delay, skew)
          BY <2>4, <3>1 DEF SettleRow
        <4>2. DueIn(delay, skew) \in Nat /\ row.wait = 0
          BY <2>1, <3>1, DueInNat DEF Fence
        <4> QED
          BY <4>1, <4>2 DEF Settled, IInv, TypeOK
      <3>2. CASE ~ Fence(w)
        BY <2>1, <2>4, <3>2 DEF SettleRow
      <3> QED
        BY <3>1, <3>2
    <2>5. ASSUME NEW w \in Worker, RenewCommit(w) PROVE row'.wait >= row.wait - 1
      BY <2>1, <2>5 DEF RenewCommit, IInv, TypeOK
    <2>6. CASE row' = row
      BY <2>1, <2>6
    <2> QED
      BY <2>2, <2>3, <2>4, <2>5, <2>6
      DEF Next, WorkerStep, vars, Dispatch, DispatchAnswerLost, HeartbeatSend,
          RenewError, RenewAnswer, ExecuteEnds, LeaseLost, CompleteLease,
          FailLease, Stop, Exit
  <1> QED
    BY <1>1, Invariance, PTL DEF Spec, CooldownNeverShortened

-----------------------------------------------------------------------------
(***************************************************************************)
(* The rewards of a customer, for any number of calls, orders and cycles.  *)
(*                                                                         *)
(* A call reads the wallet, counts deliveries and grants in separate       *)
(* steps. CInv says why the grant is still right: a call holds the first   *)
(* cycle that is free, so while its cycle is free nobody granted since     *)
(* (Fresh), the wallet has the room that was read (Room) and no claim is   *)
(* later than the one it counts from (Watermark).                          *)
(***************************************************************************)

(* The rewards were granted in the order of their cycles.                  *)
Gapless == \E n \in 1 .. MaxCycle + 1 : Known = 1 .. n - 1

(* Clocks of the past.                                                     *)
Clocks == /\ \A k \in Call : at[k] <= now
          /\ \A c \in Known : claimedAt[c] <= now

(* What a call read is still so while its cycle is free: a call reads the  *)
(* first free cycle, and any reward granted since took that one.           *)
Fresh(k) == stage[k] \in {"read", "counted"} /\ cycle[k] \in Cycle \ Known
Turns == \A k \in Call : \A c \in 1 .. cycle[k] - 1 : c \in Known
Room == \A k \in Call : Fresh(k) /\ room[k] => Cardinality(Active(now)) < Limit
Watermark == \A k \in Call : Fresh(k) => \A d \in Known : claimedAt[d] <= since[k]

(* What was counted was delivered after the claims that were read.         *)
CountedLate ==
  \A k \in Call : stage[k] = "counted" =>
    \A o \in counted[k] : status[o] = "delivered" /\ deliveredAt[o] > since[k]

(* An order that was not placed spent nothing.                             *)
Unplaced == \A o \in Order : status[o] = "none" => reward[o] = NoReward /\ ~paid[o]

(* The inductive invariant: the claims under way, and the orders.          *)
CInv ==
  /\ CouponTypeOK /\ Gapless /\ Clocks /\ Turns /\ Room /\ Watermark /\ CountedLate
  /\ Unplaced /\ RewardFollowsOrder /\ WalletIsLimited /\ SettledRewardIsUsed

USE CouponAssumption DEF CouponAssumption

(* A reward, and a cycle without one.                                      *)
RewardState == {"none", "CLAIMED", "RESERVED", "USED", "EXPIRED"}

-----------------------------------------------------------------------------
(* Counting rewards: the cycles are finitely many.                         *)
LEMMA ActiveFinite ==
  ASSUME NEW t PROVE IsFiniteSet(Active(t)) /\ Cardinality(Active(t)) \in Nat
<1>1. IsFiniteSet(Cycle)
  BY FS_Interval DEF Cycle
<1> QED
  BY <1>1, FS_Subset, FS_CardinalityType DEF Active

(* A part of the wallet counts for no more than the wallet.                *)
LEMMA FewerActive ==
  ASSUME NEW S, NEW t, S \subseteq Active(t)
  PROVE  IsFiniteSet(S) /\ Cardinality(S) \in Nat /\ Cardinality(S) <= Cardinality(Active(t))
  BY ActiveFinite, FS_Subset, FS_CardinalityType

(* One reward more counts for at most one.                                 *)
LEMMA OneMore ==
  ASSUME NEW S, NEW x, IsFiniteSet(S)
  PROVE  /\ IsFiniteSet(S \cup {x}) /\ Cardinality(S \cup {x}) \in Nat
         /\ Cardinality(S \cup {x}) <= Cardinality(S) + 1
<1>1. Cardinality(S) \in Nat
  BY FS_CardinalityType
<1>2. /\ IsFiniteSet(S \cup {x})
      /\ Cardinality(S \cup {x}) = IF x \in S THEN Cardinality(S) ELSE Cardinality(S) + 1
  BY FS_AddElement
<1> QED
  BY <1>1, <1>2

(* The cycle a call reads is the first one without a reward.               *)
LEMMA NextIsFree ==
  ASSUME Gapless
  PROVE  NextCycle \in 1 .. MaxCycle + 1 /\ \A c \in 1 .. MaxCycle + 1 : c \in Known <=> c < NextCycle
<1>1. PICK n \in 1 .. MaxCycle + 1 : Known = 1 .. n - 1
  BY DEF Gapless
<1>2. \A c \in 1 .. MaxCycle + 1 : (c < n => c \in Known) /\ (c >= n => c \notin Known)
  BY <1>1
<1>3. /\ NextCycle \in 1 .. MaxCycle + 1
      /\ \A c \in 1 .. MaxCycle + 1 :
           (c < NextCycle => c \in Known) /\ (c >= NextCycle => c \notin Known)
  BY <1>2 DEF NextCycle
<1> QED
  BY <1>3

(* A non-empty set of clocks has a latest one.                             *)
LEMMA LatestExists ==
  ASSUME NEW S \in SUBSET Time, S # {}
  PROVE  \E t \in S : \A u \in S : u <= t
<1> DEFINE D == {MaxTime - t : t \in S}
<1>0. \A t \in S : t \in Nat /\ MaxTime - t \in Nat
  BY DEF Time
<1>1. D \subseteq Nat
  BY <1>0
<1>2. D # {}
  <2>1. PICK t \in S : TRUE
    OBVIOUS
  <2> QED
    BY <2>1
<1>3. PICK d \in D : \A e \in D : ~ (<<e, d>> \in OpToRel(<, Nat))
  <2> HIDE DEF D
  <2> QED
    BY <1>1, <1>2, WFMin, NatLessThanWellFounded, Zenon
<1>4. PICK t \in S : d = MaxTime - t
  BY <1>3
<1>5. ASSUME NEW u \in S PROVE u <= t
  <2>1. MaxTime - u \in D
    OBVIOUS
  <2>2. ~ (MaxTime - u < d)
    <3>1. \A p \in Nat \X Nat : p[1] < p[2] => p \in OpToRel(<, Nat)
      BY DEF OpToRel
    <3>2. <<MaxTime - u, d>> \in Nat \X Nat
      BY <1>0, <1>4
    <3> HIDE DEF D
    <3>3. MaxTime - u < d => <<MaxTime - u, d>> \in OpToRel(<, Nat)
      BY <3>1, <3>2
    <3> QED
      BY <2>1, <3>3, <1>3
  <2> QED
    BY <2>2, <1>0, <1>4
<1> QED
  BY <1>4, <1>5

(* What a call counts from is the latest claim it read.                    *)
LEMMA LatestIsLast ==
  ASSUME CouponTypeOK
  PROVE  /\ LatestClaim \in Time \cup {-1}
         /\ \A d \in Known : claimedAt[d] <= LatestClaim
<1>1. CASE Known = {}
  BY <1>1 DEF LatestClaim
<1>2. CASE Known # {}
  <2> DEFINE S == {claimedAt[c] : c \in Known}
  <2>1. S \in SUBSET Time /\ S # {}
    <3>1. \A c \in Known : c \in Cycle /\ claimedAt[c] \in Time
      BY DEF CouponTypeOK, Known
    <3>2. PICK c \in Known : TRUE
      BY <1>2
    <3> QED
      BY <3>1, <3>2
  <2>2. \E t \in S : \A c \in Known : claimedAt[c] <= t
    <3>1. PICK t \in S : \A u \in S : u <= t
      BY <2>1, LatestExists
    <3> QED
      BY <3>1
  <2>3. LatestClaim = CHOOSE t \in S : \A c \in Known : claimedAt[c] <= t
    BY <1>2 DEF LatestClaim
  <2>4. LatestClaim \in S /\ \A c \in Known : claimedAt[c] <= LatestClaim
    BY <2>2, <2>3
  <2> QED
    BY <2>1, <2>4
<1> QED
  BY <1>1, <1>2

-----------------------------------------------------------------------------
(* A step keeps the types; a new reward needs a cycle that is left.        *)
LEMMA NextType == ASSUME CouponTypeOK, Gapless, [CouponNext]_couponVars PROVE CouponTypeOK'
<1> USE DEF CouponTypeOK, orders, rewards, calls
<1>1. CASE UNCHANGED couponVars
  BY <1>1 DEF couponVars
<1>2. \A t : Expired(t) \in [Cycle -> RewardState]
  BY DEF Expired, RewardState
<1>3. CASE Expire
  BY <1>2, <1>3 DEF Expire, RewardState
<1>4. CASE TimePasses
  BY <1>4 DEF TimePasses, Time
<1>5. ASSUME NEW k \in Call, Ask(k) PROVE CouponTypeOK'
  BY <1>2, <1>5 DEF Ask, RewardState
<1>6. ASSUME NEW k \in Call, ReadRewards(k) PROVE CouponTypeOK'
  BY <1>6, NextIsFree, LatestIsLast DEF ReadRewards
<1>7. ASSUME NEW k \in Call, Count(k) PROVE CouponTypeOK'
  BY <1>7 DEF Count, Purchases
<1>8. ASSUME NEW k \in Call, Finish(k)
      PROVE  /\ stage' \in [Call -> {"idle", "asked", "read", "counted"}]
             /\ at' \in [Call -> Time] /\ cycle' \in [Call -> 1 .. MaxCycle + 1]
             /\ room' \in [Call -> BOOLEAN]
             /\ since' \in [Call -> Time \cup {-1}] /\ counted' \in [Call -> SUBSET Order]
  BY <1>8 DEF Finish, Time
<1>9. ASSUME NEW k \in Call, Grant(k) PROVE CouponTypeOK'
  <2>1. /\ state' \in [Cycle -> RewardState] /\ claimedAt' \in [Cycle -> Time]
        /\ earnedWith' \in [Cycle -> SUBSET Order]
    BY <1>9 DEF Grant, RewardState
  <2> QED
    BY <1>8, <1>9, <2>1 DEF Grant, RewardState
<1>10. ASSUME NEW k \in Call, Refuse(k) PROVE CouponTypeOK'
  BY <1>8, <1>10 DEF Refuse
<1>11. ASSUME NEW o \in Order, NEW c \in Cycle \cup {NoReward}, Place(o, c) PROVE CouponTypeOK'
  BY <1>11 DEF Place
<1>12. ASSUME NEW o \in Order, Pay(o) PROVE CouponTypeOK'
  BY <1>12 DEF Pay, MarkUsed
<1>13. ASSUME NEW o \in Order, SettleByBill(o) PROVE CouponTypeOK'
  BY <1>13 DEF SettleByBill
<1>14. ASSUME NEW o \in Order, Deliver(o) PROVE CouponTypeOK'
  BY <1>14 DEF Deliver, MarkUsed
<1>15. ASSUME NEW o \in Order, Cancel(o) PROVE CouponTypeOK'
  BY <1>15 DEF Cancel
<1> QED
  BY <1>1, <1>3, <1>4, <1>5, <1>6, <1>7, <1>9, <1>10, <1>11, <1>12, <1>13, <1>14, <1>15
     DEF CouponNext

(* Every step but a grant leaves the claims as they are, revives no reward *)
(* and undoes no delivery.                                                 *)
Ages ==
  /\ UNCHANGED <<claimedAt, earnedWith>> /\ Known' = Known
  /\ now' \in Int /\ now <= now' /\ Active(now)' \subseteq Active(now)
  /\ \A o \in Order : status[o] = "delivered" =>
       status'[o] = "delivered" /\ deliveredAt'[o] = deliveredAt[o]

(* What may become of one reward meanwhile.                                *)
Moves(c) ==
  \/ state'[c] = state[c]
  \/ state[c] = "CLAIMED" /\ state'[c] = "EXPIRED"
  \/ state[c] = "CLAIMED" /\ ~Lapsed(c, now) /\ state'[c] = "RESERVED"
  \/ state[c] \in {"RESERVED", "USED"} /\ state'[c] = "USED"
  \/ state[c] = "RESERVED" /\ state'[c] = "EXPIRED"
  \/ state[c] = "RESERVED" /\ ~Lapsed(c, now) /\ state'[c] = "CLAIMED"

(* Without a grant, each reward keeps its state or makes one of the moves. *)
LEMMA RewardMoves ==
  ASSUME CouponTypeOK, [CouponNext]_couponVars, ~ \E k \in Call : Grant(k)
  PROVE  /\ \A c \in Cycle : Moves(c)
         /\ UNCHANGED <<claimedAt, earnedWith>>
         /\ now' = now \/ (now' = now + 1 /\ UNCHANGED state)
<1> USE DEF Moves
<1>0. state \in [Cycle -> RewardState] /\ reward \in [Order -> Cycle \cup {NoReward}]
  BY DEF CouponTypeOK, RewardState
<1>1. CASE UNCHANGED rewards
  BY <1>1 DEF rewards, CouponNext, couponVars, Ask, ReadRewards, Count, Refuse, Place, Pay, SettleByBill,
              Deliver, Cancel, Expire, TimePasses
<1>2. ASSUME NEW t, t = now, state' = Expired(t) PROVE \A c \in Cycle : Moves(c)
  BY <1>0, <1>2 DEF Expired
<1>3. CASE Expire \/ \E k \in Call : Ask(k)
  BY <1>2, <1>3 DEF Expire, Ask
<1>4. ASSUME NEW o \in Order, NEW c \in Cycle \cup {NoReward}, Place(o, c)
      PROVE  \A d \in Cycle : Moves(d)
  BY <1>0, <1>4 DEF Place, Reservable
<1>5. ASSUME NEW o \in Order, MarkUsed(o) PROVE \A d \in Cycle : Moves(d)
  BY <1>0, <1>5 DEF MarkUsed
<1>6. ASSUME NEW o \in Order, Cancel(o) PROVE \A d \in Cycle : Moves(d)
  BY <1>0, <1>6 DEF Cancel, Releasable
<1>7. CASE \E o \in Order : Pay(o) \/ Deliver(o) \/ SettleByBill(o)
  BY <1>5, <1>7 DEF Pay, Deliver, SettleByBill, rewards
<1>8. CASE TimePasses \/ \E k \in Call : ReadRewards(k) \/ Count(k) \/ Refuse(k)
  BY <1>8 DEF TimePasses, ReadRewards, Count, Refuse, rewards
<1> QED
  BY <1>1, <1>3, <1>4, <1>6, <1>7, <1>8
     DEF CouponNext, couponVars, Expire, Ask, Place, Pay, Deliver, SettleByBill, Cancel,
         ReadRewards, Count, Refuse, TimePasses, rewards

(* ... so the rewards that are active only become fewer, and what was      *)
(* delivered stays so.                                                     *)
LEMMA NothingRevives ==
  ASSUME CouponTypeOK, [CouponNext]_couponVars, ~ \E k \in Call : Grant(k)
  PROVE  Ages
<1>0. /\ state \in [Cycle -> RewardState] /\ now \in Int /\ claimedAt \in [Cycle -> Time]
      /\ status \in [Order -> {"none", "open", "delivered", "cancelled"}]
  BY DEF CouponTypeOK, RewardState, Time
<1>1. now' \in Int /\ now <= now'
  BY <1>0, RewardMoves
<1>2. Known' = Known
  BY <1>0, RewardMoves DEF Known, Moves
<1>3. Active(now)' \subseteq Active(now)
  <2> SUFFICES ASSUME NEW c \in Cycle,
                      state'[c] = "RESERVED" \/ (state'[c] = "CLAIMED" /\ ~Lapsed(c, now)')
               PROVE  state[c] = "RESERVED" \/ (state[c] = "CLAIMED" /\ ~Lapsed(c, now))
    BY DEF Active
  <2>1. ~Lapsed(c, now)' => ~Lapsed(c, now)
    BY <1>0, <1>1, RewardMoves DEF Lapsed, Time
  <2> QED
    BY <2>1, RewardMoves DEF Moves
<1>4. \A o \in Order : status[o] = "delivered" =>
        status'[o] = "delivered" /\ deliveredAt'[o] = deliveredAt[o]
  <2>1. ASSUME NEW p \in Order, \/ \E c \in Cycle \cup {NoReward} : Place(p, c)
                                \/ Deliver(p) \/ Cancel(p)
        PROVE  /\ status[p] # "delivered"
               /\ \A o \in Order : o # p =>
                    status'[o] = status[o] /\ deliveredAt'[o] = deliveredAt[o]
    BY <1>0, <2>1 DEF Place, Deliver, Cancel, CouponTypeOK
  <2>2. CASE UNCHANGED <<status, deliveredAt>>
    BY <2>2
  <2> QED
    BY <2>1, <2>2 DEF CouponNext, couponVars, orders, Ask, ReadRewards, Count, Refuse, Pay,
                      SettleByBill, Expire, TimePasses
<1> QED
  BY <1>1, <1>2, <1>3, <1>4, RewardMoves DEF Ages

-----------------------------------------------------------------------------
(* Claiming.                                                               *)
Claiming == Gapless /\ Clocks /\ Turns /\ Room /\ Watermark /\ CountedLate

(* Two calls that hold a free cycle hold the same one.                     *)
LEMMA SameTurn ==
  ASSUME CouponTypeOK, Turns, NEW k \in Call, NEW j \in Call,
         cycle[k] \notin Known, cycle[j] \notin Known
  PROVE  cycle[k] = cycle[j]
<1>1. cycle[k] \in Int /\ cycle[j] \in Int /\ cycle[k] >= 1 /\ cycle[j] >= 1
  BY DEF CouponTypeOK
<1>2. ~ (cycle[k] < cycle[j]) /\ ~ (cycle[j] < cycle[k])
  BY <1>1 DEF Turns
<1> QED
  BY <1>1, <1>2

(* What a grant does, seen from the invariant.                             *)
LEMMA GrantFacts ==
  ASSUME CInv, NEW k \in Call, Grant(k)
  PROVE  /\ stage[k] = "counted" /\ Fresh(k) /\ room[k] /\ Redeemable(k)
         /\ Known' = Known \cup {cycle[k]}
         /\ claimedAt' = [claimedAt EXCEPT ![cycle[k]] = at[k]]
         /\ earnedWith' = [earnedWith EXCEPT ![cycle[k]] = counted[k]]
         /\ state' = [state EXCEPT ![cycle[k]] = "CLAIMED"]
         /\ Finish(k) /\ UNCHANGED <<now, orders>>
         /\ Active(now)' \subseteq Active(now) \cup {cycle[k]}
         /\ at[k] <= now
<1>0. state \in [Cycle -> RewardState] /\ claimedAt \in [Cycle -> Time]
  BY DEF CInv, CouponTypeOK, RewardState
<1>1. /\ stage[k] = "counted" /\ Fresh(k) /\ room[k] /\ Redeemable(k)
      /\ claimedAt' = [claimedAt EXCEPT ![cycle[k]] = at[k]]
      /\ earnedWith' = [earnedWith EXCEPT ![cycle[k]] = counted[k]]
      /\ state' = [state EXCEPT ![cycle[k]] = "CLAIMED"]
      /\ Finish(k) /\ UNCHANGED <<now, orders>>
  BY DEF Grant, Row, Fresh, Redeemable
<1>2. Known' = Known \cup {cycle[k]}
  BY <1>0, <1>1 DEF Known, Fresh
<1>3. Active(now)' \subseteq Active(now) \cup {cycle[k]}
  BY <1>0, <1>1 DEF Active, Lapsed, Fresh
<1> QED
  BY <1>1, <1>2, <1>3 DEF CInv, Clocks

(* A grant leaves the claiming of the other calls sound: the cycle they    *)
(* hold is taken, and the wallet had room when it was read.                *)
LEMMA GrantClaims ==
  ASSUME CInv, NEW k \in Call, Grant(k)
  PROVE  Claiming' /\ WalletIsLimited'
<1> USE GrantFacts
<1>0. /\ CouponTypeOK /\ Gapless /\ Clocks /\ Turns /\ Room /\ Watermark /\ CountedLate
      /\ cycle[k] \in Cycle \ Known /\ cycle[k] \in Nat
  BY DEF CInv, Fresh, Cycle
<1>1. Gapless'
  <2>1. PICK n \in 1 .. MaxCycle + 1 : Known = 1 .. n - 1
    BY <1>0 DEF Gapless
  <2>2. cycle[k] = n
    <3>1. cycle[k] >= n
      BY <1>0, <2>1 DEF Cycle
    <3>2. n < cycle[k] => n \in Known
      BY <1>0 DEF Turns
    <3> QED
      BY <1>0, <2>1, <3>1, <3>2
  <2>3. Known' = 1 .. (n + 1) - 1 /\ n + 1 \in 1 .. MaxCycle + 1
    <3>1. (1 .. n - 1) \cup {n} = 1 .. (n + 1) - 1 /\ n \in 1 .. MaxCycle
      BY <1>0, <2>2 DEF Cycle
    <3>2. Known' = Known \cup {n} /\ n + 1 \in 1 .. MaxCycle + 1
      BY <2>2, <3>1
    <3> QED
      BY <2>1, <3>1, <3>2
  <2> QED
    BY <2>3 DEF Gapless
<1>2. /\ stage' = [stage EXCEPT ![k] = "idle"] /\ at' = [at EXCEPT ![k] = 0]
      /\ cycle' = [cycle EXCEPT ![k] = 1]
      /\ room' = [room EXCEPT ![k] = FALSE]
      /\ since' = [since EXCEPT ![k] = -1] /\ counted' = [counted EXCEPT ![k] = {}]
  BY DEF Finish
<1>3. \A j \in Call : ~ Fresh(j)'
  <2> SUFFICES ASSUME NEW j \in Call, Fresh(j)' PROVE FALSE
    OBVIOUS
  <2>1. j # k
    BY <1>0, <1>2 DEF Fresh, CouponTypeOK
  <2>2. cycle[j] \notin Known \cup {cycle[k]}
    BY <1>0, <1>2, <2>1 DEF Fresh, CouponTypeOK
  <2> QED
    BY <1>0, <2>2, SameTurn
<1>4. Clocks'
  <2>1. now' = now /\ now \in Nat /\ \A j \in Call : at'[j] <= now
    BY <1>0, <1>2 DEF Clocks, CouponTypeOK, Time
  <2>2. \A c \in Known : claimedAt'[c] = claimedAt[c]
    BY <1>0 DEF CouponTypeOK, Known
  <2>3. claimedAt'[cycle[k]] = at[k]
    BY <1>0 DEF CouponTypeOK
  <2> QED
    BY <1>0, <2>1, <2>2, <2>3 DEF Clocks
<1>5. Turns'
  <2>1. \A j \in Call : cycle'[j] = IF j = k THEN 1 ELSE cycle[j]
    BY <1>0, <1>2 DEF CouponTypeOK
  <2> QED
    BY <1>0, <2>1 DEF Turns
<1>6. Room' /\ Watermark'
  BY <1>3 DEF Room, Watermark
<1>7. CountedLate'
  <2>1. \A j \in Call : stage'[j] = "counted" =>
          stage[j] = "counted" /\ counted'[j] = counted[j] /\ since'[j] = since[j]
    <3>1. stage'[k] = "idle"
      BY <1>0, <1>2 DEF CouponTypeOK
    <3>2. \A j \in Call : j # k =>
            stage'[j] = stage[j] /\ counted'[j] = counted[j] /\ since'[j] = since[j]
      BY <1>0, <1>2 DEF CouponTypeOK
    <3> QED
      BY <3>1, <3>2
  <2> QED
    BY <1>0, <2>1 DEF CountedLate, orders
<1>8. WalletIsLimited'
  <2>1. Cardinality(Active(now)) < Limit
    BY <1>0 DEF Room
  <2>2. /\ IsFiniteSet(Active(now) \cup {cycle[k]})
        /\ Cardinality(Active(now) \cup {cycle[k]}) \in Nat
        /\ Cardinality(Active(now) \cup {cycle[k]}) <= Cardinality(Active(now)) + 1
    BY ActiveFinite, OneMore
  <2>3. /\ Cardinality(Active(now)') \in Nat
        /\ Cardinality(Active(now)') <= Cardinality(Active(now) \cup {cycle[k]})
    BY <2>2, FS_Subset, FS_CardinalityType
  <2>4. Cardinality(Active(now)) \in Nat
    BY ActiveFinite
  <2> QED
    BY <2>1, <2>2, <2>3, <2>4 DEF WalletIsLimited
<1> QED
  BY <1>1, <1>4, <1>5, <1>6, <1>7, <1>8 DEF Claiming
(* A call that goes on without a grant.                                    *)
LEMMA CallSteps ==
  ASSUME CouponTypeOK, [CouponNext]_couponVars, ~ \E k \in Call : Grant(k), NEW j \in Call
  PROVE  \/ /\ stage'[j] = stage[j] /\ cycle'[j] = cycle[j] /\ room'[j] = room[j]
            /\ since'[j] = since[j] /\ counted'[j] = counted[j] /\ at'[j] = at[j]
         \/ ReadRewards(j)
         \/ Count(j)
         \/ stage'[j] \in {"idle", "asked"} /\ cycle'[j] \in {1, cycle[j]} /\ at'[j] <= now
<1>1. /\ now \in Nat /\ stage \in [Call -> {"idle", "asked", "read", "counted"}]
      /\ at \in [Call -> Time] /\ cycle \in [Call -> 1 .. MaxCycle + 1]
      /\ room \in [Call -> BOOLEAN]
      /\ since \in [Call -> Time \cup {-1}] /\ counted \in [Call -> SUBSET Order]
  BY DEF CouponTypeOK, Time
<1>2. CASE UNCHANGED calls
  BY <1>2 DEF calls
<1>3. ASSUME NEW k \in Call, Ask(k) \/ ReadRewards(k) \/ Count(k) \/ Refuse(k), k # j
      PROVE  /\ stage'[j] = stage[j] /\ cycle'[j] = cycle[j] /\ room'[j] = room[j]
             /\ since'[j] = since[j] /\ counted'[j] = counted[j] /\ at'[j] = at[j]
  BY <1>1, <1>3 DEF Ask, ReadRewards, Count, Refuse, Finish
<1>4. CASE Refuse(j)
  BY <1>1, <1>4 DEF Refuse, Finish
<1>5. CASE Ask(j)
  BY <1>1, <1>5 DEF Ask
<1>6. UNCHANGED calls \/ \E k \in Call : Ask(k) \/ ReadRewards(k) \/ Count(k) \/ Refuse(k)
  BY DEF CouponNext, couponVars, Place, Pay, SettleByBill, Deliver, Cancel, Expire, TimePasses
<1> QED
  BY <1>2, <1>3, <1>4, <1>5, <1>6

(* Any other step leaves it sound: the wallet has no less room and no      *)
(* delivery goes back in time.                                             *)
LEMMA ClaimsKept ==
  ASSUME CInv, [CouponNext]_couponVars, ~ \E k \in Call : Grant(k)
  PROVE  Claiming' /\ WalletIsLimited'
<1>0. /\ CouponTypeOK /\ Gapless /\ Clocks /\ Turns /\ Room /\ Watermark /\ CountedLate
      /\ WalletIsLimited /\ Ages
  BY NothingRevives DEF CInv
<1>1. /\ now \in Nat /\ now' \in Int /\ claimedAt \in [Cycle -> Time]
      /\ Cardinality(Active(now)) \in Nat /\ Cardinality(Active(now)') \in Nat
      /\ Cardinality(Active(now)') <= Cardinality(Active(now))
  BY <1>0, ActiveFinite, FewerActive DEF CouponTypeOK, Time, Ages
<1>2. Gapless'
  BY <1>0 DEF Gapless, Ages
<1>3. WalletIsLimited'
  BY <1>0, <1>1 DEF WalletIsLimited
<1>4. Clocks'
  <2>1. \A k \in Call : at'[k] <= now'
    <3> SUFFICES ASSUME NEW k \in Call PROVE at'[k] <= now'
      OBVIOUS
    <3>1. at[k] \in Int /\ at'[k] \in Int
      BY <1>0, NextType DEF CouponTypeOK, Time
    <3>2. at'[k] = at[k] \/ at'[k] <= now
      BY <1>0, CallSteps DEF ReadRewards, Count
    <3> QED
      BY <1>0, <1>1, <3>1, <3>2 DEF Clocks, Ages
  <2>2. \A c \in Known' : claimedAt'[c] <= now'
    BY <1>0, <1>1 DEF Clocks, Ages, Known, Time
  <2> QED
    BY <2>1, <2>2 DEF Clocks
<1> SUFFICES ASSUME NEW k \in Call
             PROVE  /\ \A c \in 1 .. cycle'[k] - 1 : c \in Known'
                    /\ Fresh(k)' =>
                         /\ room'[k] => Cardinality(Active(now)') < Limit
                         /\ \A d \in Known' : claimedAt'[d] <= since'[k]
                    /\ stage'[k] = "counted" => \A o \in counted'[k] :
                         status'[o] = "delivered" /\ deliveredAt'[o] > since'[k]
  BY <1>2, <1>3, <1>4 DEF Claiming, Turns, Room, Watermark, CountedLate
<1>5. Known' = Known /\ claimedAt' = claimedAt
  BY <1>0 DEF Ages
<1>6. \A o \in counted[k] : stage[k] = "counted" =>
        status'[o] = "delivered" /\ deliveredAt'[o] > since[k]
  BY <1>0 DEF CountedLate, Ages, CouponTypeOK
<1>7. CASE /\ stage'[k] = stage[k] /\ cycle'[k] = cycle[k] /\ room'[k] = room[k]
           /\ since'[k] = since[k] /\ counted'[k] = counted[k]
  BY <1>0, <1>1, <1>5, <1>6, <1>7 DEF Turns, Room, Watermark, Fresh
<1>8. CASE ReadRewards(k)
  <2>1. /\ stage'[k] = "read" /\ cycle'[k] = NextCycle /\ since'[k] = LatestClaim
        /\ room'[k] => Cardinality(Active(at[k])) < Limit
    BY <1>0, <1>8 DEF ReadRewards, CouponTypeOK
  <2>2. \A c \in 1 .. NextCycle - 1 : c \in Known
    BY <1>0, NextIsFree
  <2>3. \A d \in Known : claimedAt[d] <= LatestClaim
    BY <1>0, LatestIsLast
  <2>4. Active(now)' \subseteq Active(at[k])
    <3>1. at[k] <= now /\ at[k] \in Int /\ Active(now)' \subseteq Active(now)
      BY <1>0 DEF Clocks, Ages, CouponTypeOK, Time
    <3>2. Active(now) \subseteq Active(at[k])
      BY <1>1, <3>1 DEF Active, Lapsed, Time
    <3> QED
      BY <3>1, <3>2
  <2>5. /\ Cardinality(Active(now)') <= Cardinality(Active(at[k]))
        /\ Cardinality(Active(at[k])) \in Nat
    BY <2>4, FewerActive, ActiveFinite
  <2>6. room'[k] => Cardinality(Active(now)') < Limit
    BY <1>1, <2>1, <2>5
  <2> QED
    BY <1>5, <2>1, <2>2, <2>3, <2>6
<1>9. CASE Count(k)
  <2>1. /\ stage[k] = "read" /\ stage'[k] = "counted" /\ cycle'[k] = cycle[k]
        /\ room'[k] = room[k] /\ since'[k] = since[k]
        /\ counted'[k] = Purchases(since[k]) /\ UNCHANGED <<status, deliveredAt>>
    BY <1>0, <1>9 DEF Count, CouponTypeOK, orders
  <2> QED
    BY <1>0, <1>1, <1>5, <2>1 DEF Turns, Room, Watermark, Fresh, Purchases
<1>10. CASE stage'[k] \in {"idle", "asked"} /\ cycle'[k] \in {1, cycle[k]}
  BY <1>0, <1>5, <1>10 DEF Turns, Fresh
<1> QED
  BY <1>0, <1>7, <1>8, <1>9, <1>10, CallSteps

-----------------------------------------------------------------------------
(* Orders.                                                                 *)
Free(c) == \A o \in Order : reward[o] # c
HeldBy(c, o) == o \in Order /\ reward[o] = c /\ \A p \in Order : reward[p] = c => p = o

(* One holder, said without counting.                                      *)
LEMMA HolderIsAlone ==
  ASSUME NEW c \in Cycle, CouponTypeOK
  PROVE  Cardinality(Holders(c)) = 1 <=> \E o \in Order : HeldBy(c, o)
<1>1. IsFiniteSet(Holders(c))
  BY FS_Subset DEF Holders
<1>2. ASSUME Cardinality(Holders(c)) = 1 PROVE \E o \in Order : HeldBy(c, o)
  <2>1. PICK o : Holders(c) = {o}
    BY <1>1, <1>2, FS_Singleton
  <2> QED
    BY <2>1 DEF Holders, HeldBy
<1>3. ASSUME NEW o \in Order, HeldBy(c, o) PROVE Cardinality(Holders(c)) = 1
  <2>1. Holders(c) = {o}
    BY <1>3 DEF Holders, HeldBy
  <2> QED
    BY <2>1, FS_Singleton
<1> QED
  BY <1>2, <1>3

(* RewardFollowsOrder without counting.                                    *)
Owned(c) ==
  /\ state[c] \in {"none", "CLAIMED", "EXPIRED"} => Free(c)
  /\ state[c] = "RESERVED" => \E o \in Order : HeldBy(c, o) /\ status[o] # "cancelled"
  /\ state[c] = "USED" => \E o \in Order : HeldBy(c, o)

AllOwned == \A c \in Cycle : Owned(c)

LEMMA FollowsOrder == CouponTypeOK => (RewardFollowsOrder <=> AllOwned)
<1> SUFFICES ASSUME CouponTypeOK, NEW c \in Cycle
             PROVE  (/\ state[c] \in {"none", "CLAIMED", "EXPIRED"} => Holders(c) = {}
                     /\ state[c] = "RESERVED" =>
                          Cardinality(Holders(c)) = 1 /\ \A o \in Holders(c) : status[o] # "cancelled"
                     /\ state[c] = "USED" => Cardinality(Holders(c)) = 1) <=> Owned(c)
  BY DEF RewardFollowsOrder, AllOwned
<1>1. Holders(c) = {} <=> Free(c)
  BY DEF Holders, Free
<1>2. Cardinality(Holders(c)) = 1 <=> \E o \in Order : HeldBy(c, o)
  BY HolderIsAlone
<1>3. \A o \in Order : HeldBy(c, o) => Holders(c) = {o}
  BY DEF Holders, HeldBy
<1> QED
  BY <1>1, <1>2, <1>3 DEF Owned

Placing == Unplaced /\ SettledRewardIsUsed /\ AllOwned

(* Each move of a reward is one of its order.                              *)
LEMMA OrdersKept ==
  ASSUME CouponTypeOK, Placing, [CouponNext]_couponVars
  PROVE  Placing'
<1>0. /\ state \in [Cycle -> RewardState] /\ reward \in [Order -> Cycle \cup {NoReward}]
      /\ status \in [Order -> {"none", "open", "delivered", "cancelled"}]
      /\ paid \in [Order -> BOOLEAN] /\ NoReward \notin Cycle
      /\ Unplaced /\ SettledRewardIsUsed /\ AllOwned
  BY DEF CouponTypeOK, RewardState, NoReward, Cycle, Placing
<1> USE DEF Unplaced, SettledRewardIsUsed, AllOwned, Owned, Free, HeldBy
<1>1. CASE UNCHANGED <<orders, state>>
  BY <1>0, <1>1 DEF orders, Placing
<1>2. CASE UNCHANGED orders /\ state' = Expired(now)
  BY <1>0, <1>2 DEF orders, Expired, Placing
<1>3. ASSUME NEW k \in Call, Grant(k) PROVE Placing'
  BY <1>0, <1>3 DEF Grant, orders, Known, Placing
<1>4. ASSUME NEW o \in Order, NEW c \in Cycle \cup {NoReward}, Place(o, c) PROVE Placing'
  BY <1>0, <1>4 DEF Place, Reservable, Placing
<1>5. ASSUME NEW o \in Order, Pay(o) PROVE Placing'
  BY <1>0, <1>5 DEF Pay, MarkUsed, Placing
<1>6. ASSUME NEW o \in Order, SettleByBill(o) PROVE Placing'
  BY <1>0, <1>6 DEF SettleByBill, rewards, Placing
<1>7. ASSUME NEW o \in Order, Deliver(o) PROVE Placing'
  BY <1>0, <1>7 DEF Deliver, MarkUsed, Uses, Placing
<1>8. ASSUME NEW o \in Order, Cancel(o) PROVE Placing'
  BY <1>0, <1>8 DEF Cancel, Releasable, Detaches, Placing
<1> QED
  BY <1>1, <1>2, <1>3, <1>4, <1>5, <1>6, <1>7, <1>8
     DEF CouponNext, couponVars, Ask, ReadRewards, Count, Refuse, Expire, TimePasses, rewards

LEMMA InitCInv == CouponInit => CInv
<1> SUFFICES ASSUME CouponInit PROVE CInv
  OBVIOUS
<1> USE DEF CouponInit
<1>1. CouponTypeOK
  BY DEF CouponTypeOK, Time, Cycle
<1>2. Known = {}
  BY DEF Known
<1>3. Gapless
  <2>1. Known = 1 .. 1 - 1 /\ 1 \in 1 .. MaxCycle + 1
    BY <1>2
  <2> QED
    BY <2>1 DEF Gapless
<1>4. Clocks /\ Turns /\ Room /\ Watermark /\ CountedLate
  BY <1>2 DEF Clocks, Turns, Room, Watermark, CountedLate, Fresh
<1>5. Unplaced /\ SettledRewardIsUsed
  BY DEF Unplaced, SettledRewardIsUsed
<1>6. RewardFollowsOrder
  <2>1. \A c \in Cycle : state[c] = "none" /\ Free(c)
    BY DEF Free, Cycle, NoReward
  <2>2. AllOwned
    BY <2>1 DEF AllOwned, Owned
  <2> QED
    BY <1>1, <2>2, FollowsOrder
<1>7. WalletIsLimited
  <2>1. Active(now) = {}
    BY DEF Active
  <2>2. Cardinality(Active(now)) = 0
    BY <2>1, FS_EmptySet
  <2> QED
    BY <2>2 DEF WalletIsLimited
<1> QED
  BY <1>1, <1>3, <1>4, <1>5, <1>6, <1>7 DEF CInv

LEMMA NextCInv == ASSUME CInv, [CouponNext]_couponVars PROVE CInv'
<1>1. CouponTypeOK'
  BY NextType DEF CInv
<1>2. Claiming' /\ WalletIsLimited'
  BY GrantClaims, ClaimsKept
<1>3. Placing'
  BY FollowsOrder, OrdersKept DEF CInv, Placing
<1>4. RewardFollowsOrder'
  <2>1. CouponTypeOK' => (RewardFollowsOrder' <=> AllOwned')
    BY FollowsOrder, PTL
  <2> QED
    BY <1>1, <1>3, <2>1 DEF Placing
<1> QED
  BY <1>1, <1>2, <1>3, <1>4 DEF CInv, Claiming, Placing

(* The invariant holds in every state of every behaviour.                  *)
THEOREM CouponInvariance == CouponSpec => []CInv
<1>1. CInv /\ [CouponNext]_couponVars => CInv'
  BY NextCInv
<1> QED
  BY InitCInv, <1>1, PTL DEF CouponSpec

(* A reward is spent on one order and follows it, whatever jobs, calls and *)
(* deliveries come between (couponRedemptionLifecycle).                    *)
THEOREM RewardSafety == CouponSpec => []RewardFollowsOrder
<1>1. CInv => RewardFollowsOrder
  BY DEF CInv
<1> QED
  BY <1>1, CouponInvariance, PTL

(* A customer never holds more active rewards than the campaign allows,    *)
(* although two calls may read the wallet before either grants             *)
(* (RedeemLoyaltyCouponService).                                           *)
THEOREM WalletSafety == CouponSpec => []WalletIsLimited
<1>1. CInv => WalletIsLimited
  BY DEF CInv
<1> QED
  BY <1>1, CouponInvariance, PTL

(* Outside tables the reward of an order that was paid or delivered is     *)
(* used (FinalizeOrderPixPaymentService, UpdateOrderStatusService).        *)
THEOREM SettlementSafety == CouponSpec => []SettledRewardIsUsed
<1>1. CInv => SettledRewardIsUsed
  BY DEF CInv
<1> QED
  BY <1>1, CouponInvariance, PTL

(* A reward is granted for enough orders, all delivered after every        *)
(* earlier claim; an order delivered while a claim is under way may still  *)
(* count for the next one (RedeemLoyaltyCouponService).                    *)
THEOREM EarningSafety == CouponSpec => EarnedSinceLastClaim
<1> DEFINE Earned ==
      \A c \in Cycle : state[c] = "none" /\ state'[c] # "none" =>
        /\ Cardinality(earnedWith'[c]) >= Required
        /\ \A o \in earnedWith'[c], d \in Known : deliveredAt[o] > claimedAt[d]
<1>1. CInv /\ [CouponNext]_couponVars => Earned
  <2> SUFFICES ASSUME CInv, [CouponNext]_couponVars, NEW c \in Cycle,
                      state[c] = "none", state'[c] # "none"
               PROVE  /\ Cardinality(earnedWith'[c]) >= Required
                      /\ \A o \in earnedWith'[c], d \in Known : deliveredAt[o] > claimedAt[d]
    OBVIOUS
  <2>0. CouponTypeOK /\ Watermark /\ CountedLate
    BY DEF CInv
  <2>1. PICK k \in Call : Grant(k)
    BY <2>0, RewardMoves DEF Moves
  <2>2. /\ stage[k] = "counted" /\ Fresh(k) /\ Redeemable(k)
        /\ state' = [state EXCEPT ![cycle[k]] = "CLAIMED"]
        /\ earnedWith' = [earnedWith EXCEPT ![cycle[k]] = counted[k]]
    BY <2>1, GrantFacts
  <2>3. c = cycle[k] /\ earnedWith'[c] = counted[k]
    BY <2>0, <2>2 DEF CouponTypeOK, Fresh
  <2>4. ASSUME NEW o \in counted[k], NEW d \in Known PROVE deliveredAt[o] > claimedAt[d]
    <3>1. deliveredAt[o] > since[k] /\ claimedAt[d] <= since[k]
      BY <2>0, <2>2 DEF CountedLate, Watermark
    <3>2. deliveredAt[o] \in Int /\ since[k] \in Int /\ claimedAt[d] \in Int
      BY <2>0 DEF CouponTypeOK, Time, Known
    <3> QED
      BY <3>1, <3>2
  <2> QED
    BY <2>2, <2>3, <2>4 DEF Redeemable
<1> QED
  BY <1>1, CouponInvariance, PTL DEF EarnedSinceLastClaim, CouponSpec

(* A used reward is never given back, by no cancellation, expiry or new    *)
(* order (couponRedemptionLifecycle).                                      *)
THEOREM UsedSafety == CouponSpec => UsedIsFinal
<1> DEFINE Final == \A c \in Cycle : state[c] = "USED" => state'[c] = "USED"
<1>1. CInv /\ [CouponNext]_couponVars => Final
  <2> SUFFICES ASSUME CInv, [CouponNext]_couponVars, NEW c \in Cycle, state[c] = "USED"
               PROVE  state'[c] = "USED"
    OBVIOUS
  <2>0. CouponTypeOK
    BY DEF CInv
  <2>1. ASSUME NEW k \in Call, Grant(k) PROVE state'[c] = "USED"
    BY <2>0, <2>1, GrantFacts DEF Fresh, Known, CouponTypeOK
  <2>2. CASE ~ \E k \in Call : Grant(k)
    BY <2>0, <2>2, RewardMoves DEF Moves
  <2> QED
    BY <2>1, <2>2
<1> QED
  BY <1>1, CouponInvariance, PTL DEF UsedIsFinal, CouponSpec

=============================================================================
