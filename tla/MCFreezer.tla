------------------------------ MODULE MCFreezer ------------------------------
EXTENDS Freezer
=============================================================================
