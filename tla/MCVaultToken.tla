---------------------------- MODULE MCVaultToken ----------------------------
EXTENDS VaultToken
=============================================================================
