CONSTANTS
    Projects = {1, 2}
    Stages = {1, 2}
    None = None
    Catalogs <- MCCatalogs
    MaxEvents = 1
    MaxWaiting = 2
CHECK_DEADLOCK FALSE
SPECIFICATION Spec
INVARIANTS FlagsOfSelection
