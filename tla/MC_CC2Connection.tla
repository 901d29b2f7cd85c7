-------------------------- MODULE MC_CC2Connection --------------------------
EXTENDS CC2Connection
=============================================================================
