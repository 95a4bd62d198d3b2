SPECIFICATION FairSpec
CONSTANTS
    Pats = {t1, t2, t3}
    NoPat = NoPat
    Rotations = {"write", "rename", "remove", "swap"}
    EarlyStart = TRUE
    ReadErrors = TRUE
    MaxChanges = 4
CHECK_DEADLOCK FALSE
INVARIANTS
    TypeOK
    NeverBlank
    UpToDate
PROPERTIES
    AnnouncedArrives
