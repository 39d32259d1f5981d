----------------------- MODULE MCPostgresFlagService -----------------------
EXTENDS PostgresFlagService, TLC

MCInstants == 1..2
MCSymmetry == Permutations(Sessions)

\* The three valid ranges over two instants.
MCRanges == {[from |-> 1, to |-> 2], [from |-> 1, to |-> NoEnd], [from |-> 2, to |-> NoEnd]}

\* The two of them that overlap without starting together, and one that starts
\* nowhere.
MCAskedRanges == {r \in MCRanges : r.to = NoEnd} \cup {[from |-> ZeroTime, to |-> NoEnd]}
=============================================================================
