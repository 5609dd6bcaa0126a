--------------------------- MODULE MCOrderRefund ---------------------------
(* Three calls: one that holds a claim, one that lost it or consults, and  *)
(* one that read the order before either.                                  *)
EXTENDS OrderRefund, TLC

Symmetry == Permutations(Call)
=============================================================================
