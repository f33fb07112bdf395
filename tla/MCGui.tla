-------------------------------- MODULE MCGui --------------------------------
(* Instances of Gui for TLC: everything may fail, or nothing.                 *)
EXTENDS Gui

MCAllFail == Failures
MCNoneFail == {}
=============================================================================
