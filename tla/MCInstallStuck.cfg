SPECIFICATION FairSpec
CONSTANTS
    p1 = p1
    NoOrg = NoOrg
    Reqs = {r1}
    Procs = {p1}
    On <- OneProcess
    Outcomes = {"ok"}
    MaxCrashes = 1
CHECK_DEADLOCK FALSE
PROPERTIES
    ProvisioningResolves
