CONSTANTS
    root = root
    other = other
    p = p
    Storages = {"memory", "postgres"}
    Seeds <- MCSeeds
    Directories <- MCDirectories
    Users = {root, other}
    Passwords = {p, q}
    NotGiven = NotGiven
    Sessions = {s1, s2}
    MaxPairs = 3
    MaxRequests = 4
    MaxExpiries = 1
SYMMETRY MCSymmetry
SPECIFICATION Spec
INVARIANTS TypeOK OneLivePerLogin OnlyEntitled
PROPERTIES DeadStaysDead
