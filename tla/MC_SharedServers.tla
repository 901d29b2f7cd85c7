-------------------------- MODULE MC_SharedServers --------------------------
EXTENDS SharedServers
=============================================================================
