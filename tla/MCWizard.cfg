SPECIFICATION FairWSpec
CONSTANTS
    p1 = p1
    NoOrg = NoOrg
    Reqs = {r1, r2}
    Procs = {p1}
    On <- OneProcess
    Outcomes = {"ok", "error", "lost"}
    MaxCrashes = 1
CHECK_DEADLOCK FALSE
INVARIANTS
    WTypeOK
    HomeAsksForOwner
    GateFollowsReady
    ProvisioningHasRun
PROPERTIES
    FlightIsReleased
    InstallResolves
    WizardArrives
    ComesBack
