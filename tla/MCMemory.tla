------------------------------ MODULE MCMemory ------------------------------
\* Two processes with two pages of two bytes each.
EXTENDS ProcessSpace
=============================================================================
