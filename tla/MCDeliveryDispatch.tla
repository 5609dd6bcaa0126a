------------------------- MODULE MCDeliveryDispatch -------------------------
(* Two deliveries: one paid online, one paid at the door.                  *)
EXTENDS DeliveryDispatch, TLC

CONSTANTS o1, o2, DoorPayment

KindOfOrder == [o \in Order |-> IF o = o1 THEN "online" ELSE DoorPayment]

Symmetry == Permutations(Courier) \cup Permutations(Call) \cup Permutations(RequestKey)
=============================================================================
