CONSTANTS
    Instants <- MCTwoInstants
    NoEnd = NoEnd
    Names = {n1, n2}
    ValidContents = {v1}
    InvalidContents = {bad}
    Clients = {c1}
    NoCopy = NoCopy
    MaxClock = 3
SYMMETRY MCSymmetry
SPECIFICATION Spec
INVARIANTS TypeOK NoOverlap
PROPERTIES ImplementsCalendar NoLostEdit
