-------------------------- MODULE AdmitControllerMC --------------------------
(***************************************************************************)
(* Two instances; a person per second is two units of the rate, the floor  *)
(* one person and the ceiling three.                                       *)
(***************************************************************************)
EXTENDS AdmitController

CONSTANTS i1, i2
=============================================================================
