SPECIFICATION Spec
CONSTANTS
    p1 = p1
    NoOrg = NoOrg
    Reqs = {r1}
    Procs = {p1}
    On <- OneProcess
    Outcomes = {"ok", "error"}
    MaxCrashes = 0
CHECK_DEADLOCK FALSE
INVARIANTS
    NothingLeftBehind
