CONSTANTS
    Connections = {c1, c2, c3}
    Nobody = Nobody
    MaxConns = 1
    MaxAsks = 3
CHECK_DEADLOCK FALSE
SPECIFICATION Spec
INVARIANTS MutexInOrder SomebodyGoesOn CutOnlyOverdue
PROPERTIES AllAnswered Stops
