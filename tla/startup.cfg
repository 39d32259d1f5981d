CONSTANTS
    Replicas = {r1, r2}
    Nobody = Nobody
    Scripts = 3
    Admin = admin
    User = user
    MaxFaults = 3
    MaxSignals = 1
    MaxDeletes = 2
SPECIFICATION Spec
INVARIANTS ServesWholeSchema ScriptsInOrder
PROPERTIES ComesUp
CHECK_DEADLOCK FALSE
