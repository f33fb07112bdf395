----------------------------- MODULE MCEventQueue -----------------------------
(* Instance of EventQueue for TLC: the key scan thread and the MCU reader     *)
(* thread post key and power-off events.                                      *)
EXTENDS EventQueue

CONSTANTS Keyscan, Mcu, Keyin, Power

MCProducers == {Keyscan, Mcu}
MCCodes == {Keyin, Power}
MCStopCodes == {Power}
=============================================================================
