------------------------ MODULE MCTablePaymentGateway ------------------------
(* Two handlers run at once; workers are interchangeable.                  *)
EXTENDS TablePaymentGateway, TLC

Workers == Permutations(Worker)
=============================================================================
