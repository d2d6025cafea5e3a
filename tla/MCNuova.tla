------------------------------- MODULE MCNuova -------------------------------
EXTENDS Nuova
=============================================================================
