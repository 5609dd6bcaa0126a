-------------------------- MODULE MCOrderCapacity --------------------------
(* Orders are alike until their kind is chosen.                            *)
EXTENDS OrderCapacity, TLC

Symmetry == Permutations(Order)
=============================================================================
