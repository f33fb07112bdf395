------------------------------ MODULE MCObmode ------------------------------
(* Obmode with one of the eight settings, one command of the user between the
   changes of view, one late answer and one failure. *)
EXTENDS Obmode
=============================================================================
