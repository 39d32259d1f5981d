CONSTANTS
    root = root
    p = p
    Storages = {"postgres"}
    Seeds <- MCUser
    Directories <- MCDirectories
    Users = {root}
    Passwords = {p}
    NotGiven = NotGiven
    Sessions = {s1, s2}
    MaxPairs = 2
    MaxRequests = 0
    MaxExpiries = 1
    Tabs = {t1, t2}
    Nobody = Nobody
    MaxReloads = 1
SPECIFICATION SessionSpec
INVARIANTS NobodyStranded
PROPERTIES DeadTabsLeave LogoutLeaves
