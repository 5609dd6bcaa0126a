------------------------- MODULE MCOrderCardCharge -------------------------
(* Model values of the calls, interchangeable, for the instances of         *)
(* OrderCardCharge.                                                         *)
EXTENDS OrderCardCharge, TLC

Symmetric == Permutations(Call)
=============================================================================
