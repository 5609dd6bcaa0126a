--------------------------- MODULE MCKitchenPrinting ---------------------------
(* Two devices of one restaurant and one ticket, in two copies for safety. *)
EXTENDS KitchenPrinting, TLC

CONSTANTS d1, d2
TwoDevices == {d1, d2}
DeviceSymmetry == Permutations(TwoDevices)
=============================================================================
