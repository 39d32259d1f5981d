--------------------------- MODULE MCTokenManager ---------------------------
EXTENDS TokenManager, TLC

CONSTANTS root, other, p

MCSeeds == [u \in {root, other} |->
              [password |-> p, role |-> IF u = root THEN "admin" ELSE "user"]]

\* Two admins: either may take the role or the account of the other.
MCDirectories == {[u \in {root, other} |-> [password |-> p, role |-> "admin"]]}

MCSymmetry == Permutations(Sessions)
=============================================================================
