------------------------ MODULE MCTableReservation ------------------------
(* Short intervals on one day: two that meet and one of the evening.       *)
EXTENDS TableReservation, TLC

CONSTANTS Evening

Day == {<<1, 3>>, <<2, 3>>} \cup (IF Evening THEN {<<3, 4>>} ELSE {})

Symmetry == Permutations(Table) \cup Permutations(Reservation) \cup Permutations(Call)
===========================================================================
