---------------------------- MODULE MCTableBill ----------------------------
(* A bill of three cents: an order of one item, and one of an item and of  *)
(* another that costs nothing, of two participants, with a Pix intent and  *)
(* a cash intent.                                                          *)
EXTENDS TableBill, TLC

CONSTANTS o1, o2, p1, p2
Items == 1 .. 3
Orders == 1 :> o1 @@ 2 :> o2 @@ 3 :> o2
Owners == o1 :> p1 @@ o2 :> p2
SameOwner == [o \in Order |-> p1]
Prices == <<2, 1, 0>>

(* The smallest bill, for liveness: one item of two cents.                 *)
OneItem == {1}
OneOrder == 1 :> o1
OneOwner == o1 :> p1
OnePrice == <<2>>
=============================================================================
