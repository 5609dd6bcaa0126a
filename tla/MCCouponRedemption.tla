------------------------- MODULE MCCouponRedemption -------------------------
(* Two orders of a customer, and a third where a run needs it.             *)
EXTENDS CouponRedemption, TLC

CONSTANTS o1, o2, o3, FirstKind, ThirdKind

KindOfOrder == [o \in Order |-> IF o = o1 THEN FirstKind
                                ELSE IF o = o2 THEN "door" ELSE ThirdKind]

Symmetry == Permutations(Call)
=============================================================================
