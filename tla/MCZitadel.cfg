SPECIFICATION FairZSpec
CONSTANTS
    NoPat = NoPat
    Pats = {p1, p2}
    Rotations = {"write", "rename"}
    EarlyStart = TRUE
    ReadErrors = TRUE
    MaxChanges = 1
    Calls = {c1, c2}
    Org = Org
    None = None
CHECK_DEADLOCK FALSE
INVARIANTS
    ZTypeOK
    AnswerIsTrue
    RefusedOnlyInTheGap
PROPERTIES
    NewPatIsUsed
