--------------------------- MODULE MCAcquisition ---------------------------
(* Acquisition with two measurements besides distances that are typed in, one failure,
   late answers included, and a buffer of three points, what a square takes. *)
EXTENDS Acquisition
=============================================================================
