SPECIFICATION FairSpec
CONSTANTS
    Reqs = {r1, r2}
    Acts = {v1, v2}
    NoVerifier = NoVerifier
    NoReq = NoReq
CHECK_DEADLOCK FALSE
INVARIANTS
    TypeOK
    ServedByLoaded
PROPERTIES
    StaysActive
    EveryRequestAnswered
    ImplementsGate
