---------------------------- MODULE MC_CC2Status ----------------------------
EXTENDS CC2Status
=============================================================================
