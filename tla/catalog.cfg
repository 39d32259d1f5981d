CONSTANTS
    Stores = {"memory", "postgres"}
    Projects = {default, other}
    StageKeys = {production, staging}
    FlagIds = {f1}
    DefaultProject = default
    DefaultStage = production
    Titles = {seed, edited}
    SeedTitle = seed
    Blank = Blank
    Sessions = {s1, s2}
    MaxRequests = 4
SYMMETRY MCSymmetry
SPECIFICATION Spec
INVARIANTS TypeOK StagesHaveProject
PROPERTIES SeedDelivers SeedKeepsNames ImplementsTree
