------------------------------ MODULE MCSpscRing ------------------------------
EXTENDS SpscRing
=============================================================================
