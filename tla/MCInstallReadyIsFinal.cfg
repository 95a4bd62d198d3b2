SPECIFICATION Spec
CONSTANTS
    p1 = p1
    NoOrg = NoOrg
    Reqs = {r1, r2}
    Procs = {p1}
    On <- OneProcess
    Outcomes = {"ok"}
    MaxCrashes = 0
CHECK_DEADLOCK FALSE
PROPERTIES
    ReadyIsFinal
