SPECIFICATION Spec
CONSTANTS
    Msp = Msp
    NoName = NoName
    Reqs = {q1, q2, q3}
    Customers = {k1}
    Names = {n1, n2}
    Outcomes = {"ok", "error"}
    MaxConcurrent = 2
SYMMETRY Symmetry
CHECK_DEADLOCK FALSE
INVARIANTS
    TypeOK
    EagerOrg
    RefusedIsClean
PROPERTIES
    ArchivedIsFrozen
    WorkspaceRowGuarded
    RenameHeals
