CONSTANTS
    Instants <- MCInstants
    NoEnd = NoEnd
    Sessions = {s1, s2}
    Names = {n1}
    ValidContents = {v1}
    InvalidContents = {}
    AskedRanges <- MCRanges
    NoFlag = NoFlag
    ConsoleOnly = TRUE
    Failures = FALSE
    MaxRequests = 2
SYMMETRY MCSymmetry
SPECIFICATION Spec
INVARIANTS NoOverlap
