SPECIFICATION Spec
CONSTANTS
    p1 = p1
    NoOrg = NoOrg
    Reqs = {r1, r2, r3}
    Procs = {p1}
    On <- OneProcess
    Outcomes = {"ok", "error"}
    MaxCrashes = 2
SYMMETRY Symmetry
CHECK_DEADLOCK FALSE
INVARIANTS
    TypeOK
    SingleFlight
    OneBootstrapAdmin
    ReadyIsComplete
    GateTrustsOwner
    ReadyOrgLives
    OrphansReported
