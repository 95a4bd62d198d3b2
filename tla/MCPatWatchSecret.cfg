SPECIFICATION FairSpec
CONSTANTS
    Pats = {t1, t2}
    NoPat = NoPat
    Rotations = {"swap"}
    EarlyStart = FALSE
    ReadErrors = FALSE
    MaxChanges = 1
CHECK_DEADLOCK FALSE
PROPERTIES
    RotationArrives
