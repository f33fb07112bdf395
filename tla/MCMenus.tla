------------------------------ MODULE MCMenus ------------------------------
EXTENDS Menus
=============================================================================
