CONSTANTS
    Projects = {1, 2}
    Stages = {1, 2}
    None = None
    Catalogs <- MCCatalogs
    MaxEvents = 3
    MaxWaiting = 1
CHECK_DEADLOCK FALSE
SPECIFICATION Spec
INVARIANTS TypeOK StageIsListed
PROPERTIES Settles
