SPECIFICATION Spec
CONSTANTS
    NoEmail = NoEmail
    Founders = {a1, a2}
    Reqs = {q1, q2}
    Emails = {e1}
    Ops = {"change_role", "suspend"}
    Outcomes = {"ok"}
    MaxConcurrent = 2
CHECK_DEADLOCK FALSE
INVARIANTS
    AdminRemains
