-------------------------- MODULE MCProjectCatalog --------------------------
EXTENDS ProjectCatalog, TLC

MCSymmetry == Permutations(Sessions) \cup Permutations(FlagIds)
=============================================================================
