---------------------------- MODULE MC_CC2JobFiles ----------------------------
EXTENDS CC2JobFiles
=============================================================================
