------------------------------ MODULE MCEvents ------------------------------
EXTENDS EventListening
=============================================================================
