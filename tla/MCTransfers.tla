---------------------------- MODULE MCTransfers ----------------------------
EXTENDS Transfers
=============================================================================
