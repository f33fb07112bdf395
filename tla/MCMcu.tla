-------------------------------- MODULE MCMcu --------------------------------
(* Mcu for TLC: every constant is a bound, set in the .cfg. *)
EXTENDS Mcu
=============================================================================
