SPECIFICATION Spec
CONSTANTS
    NoEmail = NoEmail
    Founders = {a1, a2}
    Reqs = {q1, q2, q3}
    Emails = {e1}
    Ops = {"list", "invite", "change_role", "suspend", "reactivate", "create_contact", "update_contact", "archive"}
    Outcomes = {"ok", "error"}
    MaxConcurrent = 2
SYMMETRY Symmetry
CHECK_DEADLOCK FALSE
INVARIANTS
    TypeOK
    EmailsUnique
    InviteCleansUp
    ArchivedHasNoGrant
    LastAdminKept
PROPERTIES
    SuspensionHolds
