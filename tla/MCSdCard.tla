------------------------------- MODULE MCSdCard -------------------------------
(* Instance of SdCard for TLC: two cards swapped in and out of the slot.      *)
EXTENDS SdCard

CONSTANTS CardA, CardB

MCCards == {CardA, CardB}
=============================================================================
