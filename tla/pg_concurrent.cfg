CONSTANTS
    Instants <- MCInstants
    NoEnd = NoEnd
    Sessions = {s1, s2}
    Names = {n1}
    ValidContents = {v1}
    InvalidContents = {bad}
    AskedRanges <- MCAskedRanges
    NoFlag = NoFlag
    ConsoleOnly = TRUE
    Failures = TRUE
    MaxRequests = 4
SYMMETRY MCSymmetry
SPECIFICATION Spec
INVARIANTS TypeOK AnswerIsUnique DeleteLoggedOnce TableIsLogged
PROPERTIES LoggedIsDone UnloggedIsDeleted VersionOrLater
