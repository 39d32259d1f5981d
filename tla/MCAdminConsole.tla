--------------------------- MODULE MCAdminConsole ---------------------------
EXTENDS AdminConsole

\* Two projects with a stage of the same name, and one that the first has alone.
MCCatalogs == {[p \in {1, 2} |-> IF p = 1 THEN {1, 2} ELSE {2}]}
=============================================================================
