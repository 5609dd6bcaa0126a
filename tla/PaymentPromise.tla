---------------------------- MODULE PaymentPromise ----------------------------
(***************************************************************************)
(* What an online payment of a table promises to the people at the table   *)
(* and to the restaurant, without saying how: the bill of an intent is     *)
(* settled only by money that was paid, and a settled bill is reopened     *)
(* only when that money went back.  Money may still arrive for a bill that *)
(* was given up.                                                           *)
(***************************************************************************)
VARIABLES
  bill,    \* "open", "settled", "returned" or "void"
  money    \* "none", "held" or "back"

Init == bill = "open" /\ money = "none"

Pay == money = "none" /\ money' = "held" /\ UNCHANGED bill
GiveBack == money = "held" /\ money' = "back" /\ UNCHANGED bill
Settle == bill = "open" /\ money # "none" /\ bill' = "settled" /\ UNCHANGED money
Return == bill = "settled" /\ money = "back" /\ bill' = "returned" /\ UNCHANGED money
GiveUp == bill = "open" /\ bill' = "void" /\ UNCHANGED money

Next == Pay \/ GiveBack \/ Settle \/ Return \/ GiveUp

Spec == Init /\ [][Next]_<<bill, money>>
=============================================================================
