---------------------------- MODULE MCKeyinHandler ----------------------------
(* Instance of KeyinHandler for TLC: two known keys and one the program does  *)
(* not use; a long key after two quiet scans instead of six.                  *)
EXTENDS KeyinHandler

MCSymbols == {"CURSOR_LEFT", "ENTER", "ESCAPE"}
=============================================================================
