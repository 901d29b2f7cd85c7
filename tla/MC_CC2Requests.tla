--------------------------- MODULE MC_CC2Requests ---------------------------
EXTENDS CC2Requests
=============================================================================
