----------------------------- MODULE MCDialogs -----------------------------
EXTENDS Dialogs
=============================================================================
