-------------------------- MODULE MCConsoleSession --------------------------
EXTENDS ConsoleSession, TLC

CONSTANTS root, p

MCUser == [u \in {root} |-> [password |-> p, role |-> "admin"]]
MCDirectories == {MCUser}
=============================================================================
