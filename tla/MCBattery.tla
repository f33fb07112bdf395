----------------------------- MODULE MCBattery -----------------------------
(* Battery with voltages at the borders of the bands and of the levels -2 to 10. *)
EXTENDS Battery

MCVolts == {584, 587, 597, 600, 601, 620, 621, 649, 650}
=============================================================================
