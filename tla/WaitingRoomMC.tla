--------------------------- MODULE WaitingRoomMC ---------------------------
(***************************************************************************)
(* Two instances; customers who cannot be told apart and neither can the   *)
(* instances, which the runs of safety properties use.                     *)
(***************************************************************************)
EXTENDS WaitingRoom

CONSTANTS i1, i2, c1, c2, c3

Alike == Permutations(Instance) \cup Permutations(Customer)
=============================================================================
