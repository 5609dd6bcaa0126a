-------------------------- MODULE CouponRedemption --------------------------
(***************************************************************************)
(* The loyalty rewards a customer earns with one campaign of a restaurant: *)
(* purchases earn a reward, the customer claims it, an order reserves it,  *)
(* payment or delivery uses it, a cancellation gives it back, and time     *)
(* ends it. A reward is known by its cycle, unique per customer.           *)
(*                                                                         *)
(* Claiming reads the clock, the rewards and the purchases in three steps  *)
(* without a transaction. Orders change a reward inside the transaction of *)
(* their own change, by guarded updates, and those are one step here; a    *)
(* creation that finds the reward taken or lapsed rolls back. The campaign *)
(* stays as it is. Left out: the clean-up of all orders, which production  *)
(* refuses, and promotional codes, which have no redemption.               *)
(***************************************************************************)
EXTENDS Integers, FiniteSets

CONSTANTS
  Order,      \* orders the customer may place
  Kind,       \* of each: paid "online", at the "door" or by the bill of a "table"
  Call,       \* requests to claim a reward
  Required,   \* purchases a reward costs
  Limit,      \* rewards a customer may hold at once
  Validity,   \* lifetime of a claimed reward
  MaxCycle,   \* bound on the rewards ever claimed
  MaxTime     \* bound on the clock

ASSUME CouponAssumption ==
  /\ IsFiniteSet(Order) /\ Kind \in [Order -> {"online", "door", "table"}]
  /\ Required \in Nat \ {0} /\ Limit \in Nat \ {0} /\ Validity \in Nat \ {0}
  /\ MaxCycle \in Nat \ {0} /\ MaxTime \in Nat

Cycle == 1 .. MaxCycle
Time == 0 .. MaxTime
NoReward == 0  \* no reward

VARIABLES
  now,
  status,       \* of each order: "none", "open", "delivered", "cancelled"
  paid,
  deliveredAt,  \* Order.deliveredAt, once delivered
  reward,       \* Order.couponRedemptionId: the cycle of its reward, or NoReward
  state,        \* CouponRedemption.status by cycle, "none" without a row
  claimedAt,    \* its claimedAt
  stage, at, cycle, room, since,  \* of each call: progress, its clock and what it read
  counted,      \* of each call: the purchases it counted
  earnedWith    \* the purchases each reward was granted for

orders == <<status, paid, deliveredAt, reward>>
rewards == <<state, claimedAt, earnedWith>>
calls == <<stage, at, cycle, room, since, counted>>
couponVars == <<now, orders, rewards, calls>>

CouponTypeOK ==
  /\ now \in Time
  /\ status \in [Order -> {"none", "open", "delivered", "cancelled"}]
  /\ paid \in [Order -> BOOLEAN] /\ deliveredAt \in [Order -> Time]
  /\ reward \in [Order -> Cycle \cup {NoReward}]
  /\ state \in [Cycle -> {"none", "CLAIMED", "RESERVED", "USED", "EXPIRED"}]
  /\ claimedAt \in [Cycle -> Time] /\ earnedWith \in [Cycle -> SUBSET Order]
  /\ stage \in [Call -> {"idle", "asked", "read", "counted"}]
  /\ at \in [Call -> Time] /\ cycle \in [Call -> 1 .. MaxCycle + 1]
  /\ room \in [Call -> BOOLEAN]
  /\ since \in [Call -> Time \cup {-1}] /\ counted \in [Call -> SUBSET Order]

CouponInit ==
  /\ now = 0
  /\ status = [o \in Order |-> "none"] /\ paid = [o \in Order |-> FALSE]
  /\ deliveredAt = [o \in Order |-> 0] /\ reward = [o \in Order |-> NoReward]
  /\ state = [c \in Cycle |-> "none"] /\ claimedAt = [c \in Cycle |-> 0]
  /\ earnedWith = [c \in Cycle |-> {}]
  /\ stage = [k \in Call |-> "idle"] /\ at = [k \in Call |-> 0]
  /\ cycle = [k \in Call |-> 1] /\ room = [k \in Call |-> FALSE]
  /\ since = [k \in Call |-> -1] /\ counted = [k \in Call |-> {}]

-----------------------------------------------------------------------------
(* Claiming a reward: RedeemLoyaltyCouponService.                          *)
Lapsed(c, t) == claimedAt[c] + Validity <= t

Expired(t) ==
  [c \in Cycle |-> IF state[c] = "CLAIMED" /\ Lapsed(c, t) THEN "EXPIRED" ELSE state[c]]

Ask(k) ==
  /\ stage[k] = "idle"
  /\ stage' = [stage EXCEPT ![k] = "asked"] /\ at' = [at EXCEPT ![k] = now]
  /\ state' = Expired(now)
  /\ UNCHANGED <<now, orders, claimedAt, earnedWith, cycle, room, since, counted>>

Known == {c \in Cycle : state[c] # "none"}

Active(t) ==
  {c \in Cycle : state[c] = "RESERVED" \/ (state[c] = "CLAIMED" /\ ~Lapsed(c, t))}

NextCycle == CHOOSE n \in 1 .. MaxCycle + 1 :
  \A c \in 1 .. MaxCycle + 1 : (c < n => c \in Known) /\ (c >= n => c \notin Known)

LatestClaim ==
  IF Known = {} THEN -1
  ELSE CHOOSE t \in {claimedAt[c] : c \in Known} : \A c \in Known : claimedAt[c] <= t

ReadRewards(k) ==
  /\ stage[k] = "asked"
  /\ cycle' = [cycle EXCEPT ![k] = NextCycle]
  /\ room' = [room EXCEPT ![k] = Cardinality(Active(at[k])) < Limit]
  /\ since' = [since EXCEPT ![k] = LatestClaim]
  /\ stage' = [stage EXCEPT ![k] = "read"]
  /\ UNCHANGED <<now, orders, rewards, at, counted>>

Bug_PurchasesFrom(t) ==
  {o \in Order : status[o] = "delivered" /\ paid[o] /\ deliveredAt[o] >= t}
Purchases(t) ==
  {o \in Order : status[o] = "delivered" /\ paid[o] /\ deliveredAt[o] > t}

Count(k) ==
  /\ stage[k] = "read"
  /\ counted' = [counted EXCEPT ![k] = Purchases(since[k])]
  /\ stage' = [stage EXCEPT ![k] = "counted"]
  /\ UNCHANGED <<now, orders, rewards, at, cycle, room, since>>

Redeemable(k) == room[k] /\ Cardinality(counted[k]) >= Required

(* The row of the same cycle is refused by the unique index.               *)
Bug_RowOfNextFree(k) == NextCycle
Row(k) == cycle[k]

Finish(k) ==
  /\ stage' = [stage EXCEPT ![k] = "idle"] /\ at' = [at EXCEPT ![k] = 0]
  /\ cycle' = [cycle EXCEPT ![k] = 1] /\ room' = [room EXCEPT ![k] = FALSE]
  /\ since' = [since EXCEPT ![k] = -1] /\ counted' = [counted EXCEPT ![k] = {}]

Grant(k) ==
  /\ stage[k] = "counted" /\ Redeemable(k)
  /\ Row(k) \in Cycle \ Known
  /\ state' = [state EXCEPT ![Row(k)] = "CLAIMED"]
  /\ claimedAt' = [claimedAt EXCEPT ![Row(k)] = at[k]]
  /\ earnedWith' = [earnedWith EXCEPT ![Row(k)] = counted[k]]
  /\ Finish(k)
  /\ UNCHANGED <<now, orders>>

Refuse(k) ==
  /\ stage[k] = "counted" /\ (Redeemable(k) => Row(k) \notin Cycle \ Known)
  /\ Finish(k)
  /\ UNCHANGED <<now, orders, rewards>>

-----------------------------------------------------------------------------
(* An order reserves, uses and releases its reward.                        *)
Reservable(c) == state[c] = "CLAIMED" /\ ~Lapsed(c, now)

(* Order.couponRedemptionId is unique.                                     *)
Place(o, c) ==
  /\ status[o] = "none"
  /\ c # NoReward => Reservable(c) /\ \A p \in Order : reward[p] # c
  /\ status' = [status EXCEPT ![o] = "open"]
  /\ reward' = [reward EXCEPT ![o] = c]
  /\ state' = IF c = NoReward THEN state ELSE [state EXCEPT ![c] = "RESERVED"]
  /\ UNCHANGED <<now, paid, deliveredAt, claimedAt, earnedWith, calls>>

(* It throws for any other status, undoing the change of the order.        *)
MarkUsed(o) ==
  /\ reward[o] # NoReward => state[reward[o]] \in {"RESERVED", "USED"}
  /\ state' = IF reward[o] = NoReward THEN state ELSE [state EXCEPT ![reward[o]] = "USED"]

Pay(o) ==
  /\ Kind[o] # "table" /\ status[o] \in {"open", "delivered"} /\ ~paid[o]
  /\ paid' = [paid EXCEPT ![o] = TRUE]
  /\ MarkUsed(o)
  /\ UNCHANGED <<now, status, deliveredAt, reward, claimedAt, earnedWith, calls>>

(* The ledger of the table settles or refunds the order: no reward is used. *)
SettleByBill(o) ==
  /\ Kind[o] = "table" /\ status[o] \in {"open", "delivered"}
  /\ paid' = [paid EXCEPT ![o] = ~@]
  /\ UNCHANGED <<now, status, deliveredAt, reward, rewards, calls>>

Uses(o) == Kind[o] # "table" \/ paid[o]

Deliver(o) ==
  /\ status[o] = "open" /\ (Kind[o] = "online" => paid[o])
  /\ status' = [status EXCEPT ![o] = "delivered"]
  /\ deliveredAt' = [deliveredAt EXCEPT ![o] = now]
  /\ IF Uses(o) THEN MarkUsed(o) ELSE state' = state
  /\ UNCHANGED <<now, paid, reward, claimedAt, earnedWith, calls>>

Releasable(c) == state[c] = "RESERVED"

Bug_DetachesReserved(c) == Releasable(c) /\ ~Lapsed(c, now)
Detaches(c) == Releasable(c)

(* A used reward stays used and attached to the cancelled order.           *)
Cancel(o) ==
  /\ status[o] = "open"
  /\ status' = [status EXCEPT ![o] = "cancelled"]
  /\ LET c == reward[o] IN
       IF c # NoReward /\ Releasable(c)
       THEN /\ state' = [state EXCEPT ![c] = IF Lapsed(c, now) THEN "EXPIRED" ELSE "CLAIMED"]
            /\ reward' = IF Detaches(c) THEN [reward EXCEPT ![o] = NoReward] ELSE reward
       ELSE UNCHANGED <<state, reward>>
  /\ UNCHANGED <<now, paid, deliveredAt, claimedAt, earnedWith, calls>>

(* LoyaltyRedemptionExpirationJob; listing the rewards does the same.      *)
Expire ==
  /\ state' = Expired(now)
  /\ UNCHANGED <<now, orders, claimedAt, earnedWith, calls>>

TimePasses ==
  /\ now < MaxTime /\ now' = now + 1
  /\ UNCHANGED <<orders, rewards, calls>>

CouponNext ==
  \/ \E k \in Call : Ask(k) \/ ReadRewards(k) \/ Count(k) \/ Grant(k) \/ Refuse(k)
  \/ \E o \in Order :
       \/ \E c \in Cycle \cup {NoReward} : Place(o, c)
       \/ Pay(o) \/ SettleByBill(o) \/ Deliver(o) \/ Cancel(o)
  \/ Expire \/ TimePasses

CouponSpec == CouponInit /\ [][CouponNext]_couponVars

-----------------------------------------------------------------------------
Holders(c) == {o \in Order : reward[o] = c}

(* A customer never holds more rewards than the campaign allows, although  *)
(* requests to claim check it on what they read before (the unique cycle   *)
(* of RedeemLoyaltyCouponService is what stops the second).                *)
WalletIsLimited == Cardinality(Active(now)) <= Limit

(* A claimed reward is free for the next order, a reserved one belongs to  *)
(* one order that is not cancelled, a used one to one order for ever       *)
(* (couponRedemptionLifecycle).                                            *)
RewardFollowsOrder ==
  \A c \in Cycle :
    /\ state[c] \in {"none", "CLAIMED", "EXPIRED"} => Holders(c) = {}
    /\ state[c] = "RESERVED" =>
         Cardinality(Holders(c)) = 1 /\ \A o \in Holders(c) : status[o] # "cancelled"
    /\ state[c] = "USED" => Cardinality(Holders(c)) = 1

(* Outside tables an order is not paid or delivered with its reward still  *)
(* to be given back: payment and delivery use it in their transaction.     *)
SettledRewardIsUsed ==
  \A o \in Order :
    Kind[o] # "table" /\ reward[o] # NoReward /\ (paid[o] \/ status[o] = "delivered")
      => state[reward[o]] = "USED"

(* No cancellation, expiry or new order revives a used reward.             *)
UsedIsFinal == [][\A c \in Cycle : state[c] = "USED" => state'[c] = "USED"]_couponVars

(* Every reward is granted for purchases delivered after all the claims    *)
(* granted before it, however long its request took.                       *)
EarnedSinceLastClaim ==
  [][\A c \in Cycle : state[c] = "none" /\ state'[c] # "none" =>
       /\ Cardinality(earnedWith'[c]) >= Required
       /\ \A o \in earnedWith'[c], d \in Known : deliveredAt[o] > claimedAt[d]]_couponVars

(* A purchase earns one reward: a new one takes new purchases              *)
(* (LoyaltyCouponServices.test.ts).                                        *)
PurchaseEarnsOnce ==
  \A c, d \in Cycle : c # d => earnedWith[c] \cap earnedWith[d] = {}

(* The wallet tells rewards that were used from those that were not.       *)
PaidRewardIsUsed ==
  \A o \in Order :
    status[o] = "delivered" /\ paid[o] /\ reward[o] # NoReward => state[reward[o]] = "USED"
=============================================================================
