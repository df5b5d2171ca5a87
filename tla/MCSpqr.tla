------------------------------- MODULE MCSpqr -------------------------------
EXTENDS Spqr
==============================================================================
