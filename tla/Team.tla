-------------------------------- MODULE Team ---------------------------------
(***************************************************************************)
(* The team of the MSP company: the contacts and workspace_grants tables,  *)
(* and the requests that read and change them.                             *)
(*                                                                         *)
(* Every request first passes the authorization middleware                 *)
(* (internal/authz/middleware.go), which resolves the caller's grant from  *)
(* the database, activates it on the first sign-in and applies the policy  *)
(* map.  The handlers behind it (internal/team, internal/contacts) are     *)
(* sequences of single SQL statements and ZITADEL calls without a          *)
(* transaction, so requests interleave between any two of them.            *)
(*                                                                         *)
(* A contact is named by the request that inserts it; the founders are     *)
(* there from the start.  The ZITADEL user of a contact has its name too.  *)
(* The directory modelled is the MSP company's; customer companies have    *)
(* the same contacts but no grants.  last_seen_at is left out.             *)
(***************************************************************************)
EXTENDS Naturals, FiniteSets

CONSTANTS
    Founders,       \* contacts with an active admin grant in the initial state
    Reqs,           \* the requests
    Emails,         \* email addresses, compared case-insensitively by the code
    NoEmail,        \* a NULL email
    Ops,            \* the procedures that may be called
    Outcomes,       \* how a remote call may end: "ok", "error" or "lost"
    MaxConcurrent   \* bound on the requests served at a time

AllOps == {"list", "invite", "change_role", "suspend", "reactivate",
           "create_contact", "update_contact", "archive"}

ASSUME ConstantsAssumption ==
    /\ Founders # {} /\ Founders \cap Reqs = {}
    /\ NoEmail \notin Emails
    /\ Ops \subseteq AllOps
    /\ Outcomes \subseteq {"ok", "error", "lost"}
    /\ MaxConcurrent \in Nat

Contacts == Founders \cup Reqs

Roles    == {"admin", "technician"}
Statuses == {"active", "not_signed_in_yet", "suspended"}
NoGrant  == [role |-> "none", status |-> "none"]
Grants   == [role : Roles, status : Statuses] \cup {NoGrant}
Rows     == [state : {"absent", "active", "archived"}, email : Emails \cup {NoEmail}]

VARIABLES
    contacts, \* contacts[c]: the contacts row of c: its state and its email
    grant,    \* grant[c]: the workspace_grants row of c
    user,     \* user[c]: the ZITADEL user of c: "absent", "live" or "removed"
    orphans,  \* users whose removal failed, as logged
    req,      \* req[q]: the procedure and arguments of request q
    got,      \* got[q]: the pending grant q resolved, for the policy check
    crossed,  \* history: a member update wrote while another was past its check
    raced,    \* history: contacts that ArchiveContact checked for a grant after
              \* their invite inserted them and before it inserted the grant
    pc        \* pc[q]: where request q is

history == <<crossed, raced>>

vars == <<contacts, grant, user, orphans, req, got, history, pc>>

\* What a request can ask for; arguments a procedure does not have are fixed.
NoCall == [op |-> "none", caller |-> "none", target |-> "none",
           role |-> "technician", email |-> NoEmail]

Calls(q) ==
    [op : {"invite"}, caller : Contacts, target : {q}, role : Roles, email : Emails]
    \cup [op : {"create_contact"}, caller : Contacts, target : {q},
          role : {"technician"}, email : Emails \cup {NoEmail}]
    \cup [op : {"update_contact"}, caller : Contacts, target : Contacts,
          role : {"technician"}, email : Emails \cup {NoEmail}]
    \cup [op : {"change_role"}, caller : Contacts, target : Contacts,
          role : Roles, email : {NoEmail}]
    \cup [op : {"suspend", "reactivate", "archive"}, caller : Contacts,
          target : Contacts, role : {"technician"}, email : {NoEmail}]
    \cup [op : {"list"}, caller : Contacts, target : {q},
          role : {"technician"}, email : {NoEmail}]

\* The states in which a request is not being served.
Outside == {"idle", "refused", "done"}

Steps == Outside \cup
    {"resolve", "activate",
     "check_email", "add_user", "insert_contact", "insert_grant", "remove_user",
     "get_contact", "get_grant", "count_admins", "write_role", "write_status",
     "update_row", "has_grant", "archive_row", "list_rows"}

TypeOK ==
    /\ contacts \in [Contacts -> Rows]
    /\ grant \in [Contacts -> Grants]
    /\ user \in [Contacts -> {"absent", "live", "removed"}]
    /\ orphans \subseteq Contacts
    /\ req \in [Reqs -> {NoCall} \cup UNION {Calls(q) : q \in Reqs}]
    /\ got \in [Reqs -> Grants]
    /\ crossed \in BOOLEAN /\ raced \subseteq Contacts
    /\ pc \in [Reqs -> Steps]

(***************************************************************************)
(* A workspace after its install, whose founders were invited as admins    *)
(* and have signed in (with one founder: right after the install), and     *)
(* whose emails UpdateContact has cleared.                                 *)
(***************************************************************************)
Init ==
    /\ contacts = [c \in Contacts |->
          [state |-> IF c \in Founders THEN "active" ELSE "absent", email |-> NoEmail]]
    /\ grant = [c \in Contacts |-> IF c \in Founders
                                   THEN [role |-> "admin", status |-> "active"]
                                   ELSE NoGrant]
    /\ user = [c \in Contacts |-> IF c \in Founders THEN "live" ELSE "absent"]
    /\ orphans = {}
    /\ req = [q \in Reqs |-> NoCall]
    /\ got = [q \in Reqs |-> NoGrant]
    /\ crossed = FALSE /\ raced = {}
    /\ pc = [q \in Reqs |-> "idle"]

directory == <<contacts, user, orphans>>

Goto(q, step) == pc' = [pc EXCEPT ![q] = step]

Landed(o) == o # "error"
Return(q, o, next, onError) == Goto(q, IF o = "ok" THEN next ELSE onError)

------------------------------------------------------------------------------
(* The SQL statements: reads as values, updates as the new table.            *)

ListContactsByCompany == {c \in Contacts : contacts[c].state = "active"}
ListTeamMembers       == {c \in ListContactsByCompany : grant[c] # NoGrant}

GetContact(c)               == c \in ListContactsByCompany
GetGrantByContactID(c)      == grant[c]
ContactHasWorkspaceGrant(c) == grant[c] # NoGrant

\* A contact, archived or not, LEFT JOINed to its grant.
ResolveTeamCallerByZitadelUserID(c) ==
    IF contacts[c].state = "absent" THEN NoGrant ELSE grant[c]

ContactExistsByCompanyEmail(e) ==
    \E c \in ListContactsByCompany : contacts[c].email = e /\ e # NoEmail

\* contacts_company_email_active_unique
EmailTaken(e, except) ==
    \E c \in ListContactsByCompany \ {except} : contacts[c].email = e /\ e # NoEmail

\* Archived contacts are not excepted.
ActiveAdmins == {c \in Contacts : grant[c] = [role |-> "admin", status |-> "active"]}
CountActiveAdmins == Cardinality(ActiveAdmins)

CreateContact(c, e) == [contacts EXCEPT ![c] = [state |-> "active", email |-> e]]
UpdateContact(c, e) == [contacts EXCEPT ![c].email = e]
ArchiveContact(c) ==
    IF GetContact(c) THEN [contacts EXCEPT ![c].state = "archived"] ELSE contacts

CreateWorkspaceGrant(c, role, status) ==
    [grant EXCEPT ![c] = [role |-> role, status |-> status]]
UpdateGrantRole(c, role)     == [grant EXCEPT ![c].role = role]
UpdateGrantStatus(c, status) == [grant EXCEPT ![c].status = status]
ActivatePendingGrant(c) ==
    IF grant[c].status = "not_signed_in_yet" THEN UpdateGrantStatus(c, "active")
    ELSE grant

------------------------------------------------------------------------------
(* The branches of the handlers.                                             *)

\* The procedures of this module at LevelAdminOnly.
AdminOnly == {"invite", "change_role", "suspend", "reactivate"}

\* The procedures of the two services and the first statements of their
\* handlers; "list" stands for ListMembers, ListContacts and GetContact.
TeamService ==
    [list |-> "list_rows", invite |-> "check_email", change_role |-> "get_contact",
     suspend |-> "get_contact", reactivate |-> "get_contact"]
ContactsService ==
    [list |-> "list_rows", create_contact |-> "check_email",
     update_contact |-> "update_row", archive |-> "has_grant"]

FirstStep(op) ==
    IF op \in DOMAIN TeamService THEN TeamService[op] ELSE ContactsService[op]

\* The policy map applied to the role that was resolved.
Authorized(q, g) ==
    IF req[q].op \in AdminOnly /\ g.role # "admin"
    THEN "refused" ELSE FirstStep(req[q].op)

\* The way out of an invite or a contact creation that failed.
Abandon(q) == IF req[q].op = "invite" THEN "remove_user" ELSE "refused"

\* The statement a member update ends with, and the status it writes.
WriteStep(op) == IF op = "change_role" THEN "write_role" ELSE "write_status"

\* Does the last-admin check apply to the grant that was read?
NeedsAnotherAdmin(q, g) ==
    \/ req[q].op = "change_role" /\ g.role = "admin" /\ req[q].role # "admin"
    \/ req[q].op = "suspend" /\ g.role = "admin" /\ g.status = "active"

NewStatus(op) == IF op = "suspend" THEN "suspended" ELSE "active"

------------------------------------------------------------------------------
(* Plausible mistakes in the actions below, each caught by a property.       *)

\* ActivatePendingGrant without the status in its WHERE clause.
ActivateUnconditionally(q) ==
    /\ pc[q] = "activate"
    /\ \E o \in Outcomes :
          grant' = IF Landed(o) THEN UpdateGrantStatus(req[q].caller, "active")
                   ELSE grant
    /\ Goto(q, Authorized(q, got[q]))
    /\ UNCHANGED <<directory, req, got, history>>

\* ActivatePendingGrant with a status the column's type does not have.
ActivateUntyped(q) ==
    /\ pc[q] = "activate"
    /\ grant' = UpdateGrantStatus(req[q].caller, "signed_in")
    /\ Goto(q, Authorized(q, got[q]))
    /\ UNCHANGED <<directory, req, got, history>>

\* An insert guarded by the earlier check alone, without the unique index.
InsertContactUnindexed(q) ==
    /\ pc[q] = "insert_contact"
    /\ contacts' = CreateContact(q, req[q].email)
    /\ Goto(q, IF req[q].op = "invite" THEN "insert_grant" ELSE "done")
    /\ UNCHANGED <<user, orphans, grant, req, got, history>>

\* InviteMember that sets `committed' before the grant is inserted.
InsertGrantCommittedEarly(q) ==
    /\ pc[q] = "insert_grant"
    /\ \E o \in Outcomes :
          /\ grant' = IF Landed(o)
                      THEN CreateWorkspaceGrant(q, req[q].role, "not_signed_in_yet")
                      ELSE grant
          /\ Return(q, o, "done", "refused")
    /\ UNCHANGED <<directory, req, got, history>>

\* ensureAnotherActiveAdmin with `< 1' for `<= 1'.
CountAdminsOffByOne(q) ==
    /\ pc[q] = "count_admins"
    /\ Goto(q, IF CountActiveAdmins < 1 THEN "refused" ELSE WriteStep(req[q].op))
    /\ UNCHANGED <<directory, grant, req, got, history>>

\* ArchiveContact without its check.
HasGrantIgnored(q) ==
    /\ pc[q] = "has_grant"
    /\ Goto(q, "archive_row")
    /\ UNCHANGED <<directory, grant, req, got, history>>

------------------------------------------------------------------------------
(* The request and the authorization middleware.                             *)

\* Members who can present a token: the invite told somebody the password.
SignedUp == Founders \cup {q \in Reqs : req[q].op = "invite" /\ pc[q] = "done"}

\* A request with a valid token and well-formed arguments arrives.  Its target
\* is a contact that exists, or q itself: the one it inserts, or no contact.
Arrive(q) ==
    /\ pc[q] = "idle"
    /\ Cardinality({p \in Reqs : pc[p] \notin Outside}) < MaxConcurrent
    /\ \E call \in Calls(q) :
          /\ call.op \in Ops
          /\ call.caller \in SignedUp
          /\ contacts[call.target].state # "absent" \/ call.target = q
          /\ req' = [req EXCEPT ![q] = call]
    /\ Goto(q, "resolve")
    /\ UNCHANGED <<directory, grant, got, history>>

\* No contact, no grant and a suspended grant are refused; archived_at is read
\* and not looked at.
Resolve(q) ==
    LET g == ResolveTeamCallerByZitadelUserID(req[q].caller) IN
    /\ pc[q] = "resolve"
    /\ \E o \in Outcomes :
          \/ /\ o # "ok" \/ g = NoGrant \/ g.status = "suspended"
             /\ Goto(q, "refused")
             /\ got' = got
          \/ /\ o = "ok" /\ g.status = "not_signed_in_yet"
             /\ got' = [got EXCEPT ![q] = g]
             /\ Goto(q, "activate")
          \/ /\ o = "ok" /\ g.status = "active"
             /\ got' = got
             /\ Goto(q, Authorized(q, g))
    /\ UNCHANGED <<directory, grant, req, history>>

\* The first sign-in; an error is logged and the request goes on.
Activate(q) ==
    /\ pc[q] = "activate"
    /\ \E o \in Outcomes :
          grant' = IF Landed(o) THEN ActivatePendingGrant(req[q].caller) ELSE grant
    /\ Goto(q, Authorized(q, got[q]))
    /\ UNCHANGED <<directory, req, got, history>>

\* The reads: ListMembers, ListContacts and ContactsService.GetContact.
ListRows(q) ==
    /\ pc[q] = "list_rows"
    /\ \E o \in Outcomes : Return(q, o, "done", "refused")
    /\ UNCHANGED <<directory, grant, req, got, history>>

------------------------------------------------------------------------------
(* InviteMember, and CreateContact, which is the same without a user and a   *)
(* grant.                                                                    *)

\* GetWorkspaceCompany and the email check, which CreateContact skips without
\* an email.
CheckEmail(q) ==
    /\ pc[q] = "check_email"
    /\ \E o \in Outcomes :
          Return(q, o, IF ContactExistsByCompanyEmail(req[q].email) THEN "refused"
                       ELSE IF req[q].op = "invite" THEN "add_user"
                       ELSE "insert_contact",
                 "refused")
    /\ UNCHANGED <<directory, grant, req, got, history>>

\* AddHumanUser; its error comes before the deferred cleanup is set up.
AddUser(q) ==
    /\ pc[q] = "add_user"
    /\ \E o \in Outcomes :
          /\ user' = IF Landed(o) THEN [user EXCEPT ![q] = "live"] ELSE user
          /\ Return(q, o, "insert_contact", "refused")
    /\ UNCHANGED <<contacts, orphans, grant, req, got, history>>

\* The contacts row, unless another active contact has the email.
InsertContact(q) ==
    /\ pc[q] = "insert_contact"
    /\ \/ /\ EmailTaken(req[q].email, q)
          /\ Goto(q, Abandon(q))
          /\ contacts' = contacts
       \/ /\ ~EmailTaken(req[q].email, q)
          /\ \E o \in Outcomes :
                /\ contacts' = IF Landed(o) THEN CreateContact(q, req[q].email)
                               ELSE contacts
                /\ Return(q, o, IF req[q].op = "invite" THEN "insert_grant"
                                ELSE "done", Abandon(q))
    /\ UNCHANGED <<user, orphans, grant, req, got, history>>

\* CreateWorkspaceGrant with status not_signed_in_yet.
InsertGrant(q) ==
    /\ pc[q] = "insert_grant"
    /\ \E o \in Outcomes :
          /\ grant' = IF Landed(o)
                      THEN CreateWorkspaceGrant(q, req[q].role, "not_signed_in_yet")
                      ELSE grant
          /\ Return(q, o, "done", "remove_user")
    /\ UNCHANGED <<directory, req, got, history>>

\* The deferred RemoveUser of an invite that did not commit, best effort.
RemoveUser(q) ==
    /\ pc[q] = "remove_user"
    /\ \E o \in Outcomes :
          /\ user' = IF Landed(o) THEN [user EXCEPT ![q] = "removed"] ELSE user
          /\ orphans' = IF o = "ok" THEN orphans ELSE orphans \cup {q}
    /\ Goto(q, "refused")
    /\ UNCHANGED <<contacts, grant, req, got, history>>

------------------------------------------------------------------------------
(* ChangeRole, SuspendMember, ReactivateMember.                              *)

\* loadContactAndGrant, first query: the target must not be archived.
LoadContact(q) ==
    /\ pc[q] = "get_contact"
    /\ \E o \in Outcomes :
          Return(q, o, IF GetContact(req[q].target) THEN "get_grant" ELSE "refused",
                 "refused")
    /\ UNCHANGED <<directory, grant, req, got, history>>

\* loadContactAndGrant, second query, and the branch on the grant.
LoadGrant(q) ==
    LET g == GetGrantByContactID(req[q].target) IN
    /\ pc[q] = "get_grant"
    /\ \E o \in Outcomes :
          Return(q, o, IF g = NoGrant THEN "refused"
                       ELSE IF NeedsAnotherAdmin(q, g) THEN "count_admins"
                       ELSE WriteStep(req[q].op),
                 "refused")
    /\ UNCHANGED <<directory, grant, req, got, history>>

\* ensureAnotherActiveAdmin.
CountAdmins(q) ==
    /\ pc[q] = "count_admins"
    /\ \E o \in Outcomes :
          Return(q, o, IF CountActiveAdmins <= 1 THEN "refused"
                       ELSE WriteStep(req[q].op),
                 "refused")
    /\ UNCHANGED <<directory, grant, req, got, history>>

\* The write lands while another member update is past its check.
Crossing(q) ==
    crossed' = \/ crossed
               \/ /\ grant' # grant
                  /\ \E p \in Reqs \ {q} : pc[p] \in {"write_role", "write_status"}

WriteRole(q) ==
    /\ pc[q] = "write_role"
    /\ \E o \in Outcomes :
          /\ grant' = IF Landed(o) THEN UpdateGrantRole(req[q].target, req[q].role)
                      ELSE grant
          /\ Return(q, o, "done", "refused")
    /\ Crossing(q)
    /\ UNCHANGED <<directory, req, got, raced>>

\* The new status is written whatever the status is by now.
WriteStatus(q) ==
    /\ pc[q] = "write_status"
    /\ \E o \in Outcomes :
          /\ grant' = IF Landed(o)
                      THEN UpdateGrantStatus(req[q].target, NewStatus(req[q].op))
                      ELSE grant
          /\ Return(q, o, "done", "refused")
    /\ Crossing(q)
    /\ UNCHANGED <<directory, req, got, raced>>

------------------------------------------------------------------------------
(* ContactsService.                                                          *)

\* The UPDATE: WHERE archived_at IS NULL, under the email index.
UpdateRow(q) ==
    LET c == req[q].target IN
    /\ pc[q] = "update_row"
    /\ \/ /\ ~GetContact(c) \/ EmailTaken(req[q].email, c)
          /\ Goto(q, "refused")
          /\ contacts' = contacts
       \/ /\ GetContact(c) /\ ~EmailTaken(req[q].email, c)
          /\ \E o \in Outcomes :
                /\ contacts' = IF Landed(o) THEN UpdateContact(c, req[q].email)
                               ELSE contacts
                /\ Return(q, o, "done", "refused")
    /\ UNCHANGED <<user, orphans, grant, req, got, history>>

\* A contact that backs a team member is not archived.
HasGrant(q) ==
    LET c == req[q].target IN
    /\ pc[q] = "has_grant"
    /\ \E o \in Outcomes :
          Return(q, o, IF ContactHasWorkspaceGrant(c) THEN "refused" ELSE "archive_row",
                 "refused")
    /\ raced' = IF c \in Reqs /\ pc[c] = "insert_grant" THEN raced \cup {c} ELSE raced
    /\ UNCHANGED <<directory, grant, req, got, crossed>>

\* The UPDATE: WHERE archived_at IS NULL, no error when nothing matches.
ArchiveRow(q) ==
    /\ pc[q] = "archive_row"
    /\ \E o \in Outcomes :
          /\ contacts' = IF Landed(o) THEN ArchiveContact(req[q].target) ELSE contacts
          /\ Return(q, o, "done", "refused")
    /\ UNCHANGED <<user, orphans, grant, req, got, history>>

------------------------------------------------------------------------------
Serve(q) ==
    \/ Resolve(q) \/ Activate(q) \/ ListRows(q)
    \/ CheckEmail(q) \/ AddUser(q) \/ InsertContact(q) \/ InsertGrant(q)
    \/ RemoveUser(q)
    \/ LoadContact(q) \/ LoadGrant(q) \/ CountAdmins(q) \/ WriteRole(q)
    \/ WriteStatus(q)
    \/ UpdateRow(q) \/ HasGrant(q) \/ ArchiveRow(q)

Next == \E q \in Reqs : Arrive(q) \/ Serve(q)

Spec == Init /\ [][Next]_vars

------------------------------------------------------------------------------
(* Properties.                                                               *)

(***************************************************************************)
(* A suspended member gets back in through ReactivateMember only: a first  *)
(* sign-in that was resolved before the suspension and activates the grant *)
(* after it does not undo it (ActivatePendingGrant's WHERE clause), nor    *)
(* does a late invite, role change or suspension.                          *)
(***************************************************************************)
SuspensionHolds ==
    [][\A c \in Contacts :
          grant[c].status = "suspended" /\ grant'[c].status # "suspended" =>
             \E q \in Reqs : /\ pc[q] = "write_status"
                             /\ req[q].op = "reactivate"
                             /\ req[q].target = c]_vars

(***************************************************************************)
(* Two active contacts of the company never share an email, although       *)
(* InviteMember and CreateContact check it long before they insert and     *)
(* UpdateContact does not check it at all.                                 *)
(***************************************************************************)
EmailsUnique ==
    \A c, d \in ListContactsByCompany :
       contacts[c].email = contacts[d].email /\ contacts[c].email # NoEmail => c = d

(***************************************************************************)
(* When calls have no unknown outcome, an invite that failed leaves no     *)
(* grant, and no ZITADEL user except one it logged as an orphan; one that  *)
(* succeeded leaves the contact, the grant and the user it answered with;  *)
(* and no grant is ever backed by a removed user (the two statements, the  *)
(* deferred RemoveUser and `committed' of InviteMember).                   *)
(***************************************************************************)
InviteCleansUp ==
    /\ \A q \in Reqs : req[q].op = "invite" /\ pc[q] = "refused" =>
          grant[q] = NoGrant /\ (user[q] # "live" \/ q \in orphans)
    /\ \A q \in Reqs : req[q].op = "invite" /\ pc[q] = "done" =>
          contacts[q].state # "absent" /\ grant[q] # NoGrant
    /\ \A c \in Contacts : grant[c] # NoGrant => user[c] = "live"

(***************************************************************************)
(* An archived contact has no grant, with which it could still sign in     *)
(* (Resolve does not look at archived_at): an invite can only slip in      *)
(* between the check and the UPDATE of ArchiveContact when its contact was *)
(* there and its grant was not when the check ran (ArchiveContact,         *)
(* InviteMember).                                                          *)
(***************************************************************************)
ArchivedHasNoGrant ==
    \A c \in Contacts :
       contacts[c].state = "archived" /\ grant[c] # NoGrant => c \in raced

(***************************************************************************)
(* The team list shows an active admin, whatever invites, first sign-ins,  *)
(* contact updates and failures come between the check and the write of a  *)
(* demotion or suspension, as long as no other member update writes there  *)
(* and no archive races an invite (ensureAnotherActiveAdmin, ChangeRole,   *)
(* SuspendMember).                                                         *)
(***************************************************************************)
LastAdminKept ==
    crossed \/ raced # {} \/ ActiveAdmins \cap ListTeamMembers # {}

(***************************************************************************)
(* The workspace keeps an active admin.  Comment of                        *)
(* ensureAnotherActiveAdmin, internal/team/handler.go:292: "The check runs *)
(* before the mutation, so the final CountActiveAdmins after the mutation  *)
(* would still return >= 1".  Two demotions or suspensions that both count *)
(* before either writes break it.                                          *)
(***************************************************************************)
AdminRemains == ActiveAdmins # {}
==============================================================================
