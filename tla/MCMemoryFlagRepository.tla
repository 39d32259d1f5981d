----------------------- MODULE MCMemoryFlagRepository -----------------------
EXTENDS MemoryFlagRepository, TLC

MCTwoInstants == 1..2
MCSymmetry == Permutations(Names) \cup Permutations(ValidContents)
=============================================================================
