------------------------------ MODULE MCListIdx ------------------------------
EXTENDS ListIdxUse
=============================================================================
