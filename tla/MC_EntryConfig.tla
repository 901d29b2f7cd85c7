---------------------------- MODULE MC_EntryConfig ----------------------------
EXTENDS EntryConfig, TLC

MCEntities == <<"state", "progress">>
MCSymmetry == Permutations(Addresses) \union Permutations(Flows)
=============================================================================
