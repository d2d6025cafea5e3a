------------------------------- MODULE MCCalls -------------------------------
EXTENDS Calls
=============================================================================
