------------------------------ MODULE TeamProofs ------------------------------
(***************************************************************************)
(* Proofs about Team, for any set of founders, requests and emails, any    *)
(* number of requests at a time and any mix of call outcomes; where a      *)
(* property is about what the code can know, for calls without an unknown  *)
(* outcome.                                                                *)
(***************************************************************************)
EXTENDS Team, FiniteSetTheorems, TLAPS

\* Where each procedure of the two services starts.
LEMMA FirstSteps ==
    /\ FirstStep("list") = "list_rows"
    /\ \A op \in {"invite", "create_contact"} : FirstStep(op) = "check_email"
    /\ \A op \in {"change_role", "suspend", "reactivate"} : FirstStep(op) = "get_contact"
    /\ FirstStep("update_contact") = "update_row"
    /\ FirstStep("archive") = "has_grant"
  BY DEF FirstStep, TeamService, ContactsService
------------------------------------------------------------------------------
(* The parts of the inductive invariants.                                    *)

\* A request that is being served has a call, and is at a step of it.
CallInv ==
    \A q \in Reqs :
       /\ pc[q] # "idle" => req[q] \in Calls(q)
       /\ pc[q] = "check_email" => req[q].op \in {"invite", "create_contact"}
       /\ pc[q] = "insert_contact" => req[q].op \in {"invite", "create_contact"}
       /\ pc[q] \in {"add_user", "insert_grant", "remove_user"} => req[q].op = "invite"
       /\ pc[q] \in {"get_contact", "get_grant", "count_admins"} =>
             req[q].op \in {"change_role", "suspend", "reactivate"}
       /\ pc[q] = "write_role" => req[q].op = "change_role"
       /\ pc[q] = "write_status" => req[q].op \in {"suspend", "reactivate"}
       /\ pc[q] = "update_row" => req[q].op = "update_contact"
       /\ pc[q] \in {"has_grant", "archive_row"} => req[q].op = "archive"
       /\ pc[q] = "list_rows" => req[q].op = "list"

\* A member update that has loaded the grant writes to a grant that exists.
MemberInv ==
    \A q \in Reqs : pc[q] \in {"count_admins", "write_role", "write_status"} =>
       grant[req[q].target] # NoGrant

\* An invite or a contact creation inserts its rows once and in this order.
RowInv ==
    /\ \A q \in Reqs : contacts[q].state # "absent" =>
          pc[q] \in {"insert_grant", "remove_user", "refused", "done"}
    /\ \A q \in Reqs : grant[q] # NoGrant => pc[q] \in {"remove_user", "refused", "done"}
    /\ \A q \in Reqs : pc[q] = "insert_grant" => contacts[q].state # "absent"
    /\ \A c \in Contacts : grant[c] # NoGrant => contacts[c].state # "absent"
    /\ \A q \in Reqs : pc[q] # "idle" =>
          contacts[req[q].target].state # "absent" \/ req[q].target = q

\* A contact that ArchiveContact passed, or archived, can get a grant only if
\* its invite was at the insert of the grant when the check ran.
Settled(c) ==
    c \in raced \/ (grant[c] = NoGrant /\ (c \in Reqs => pc[c] # "insert_grant"))

ArchiveInv ==
    /\ \A q \in Reqs : pc[q] = "archive_row" => Settled(req[q].target)
    /\ \A c \in Contacts : contacts[c].state = "archived" => Settled(c)

\* A member who the team list shows as an active admin.
Listed(c) == grant[c] = [role |-> "admin", status |-> "active"] /\ contacts[c].state = "active"

\* A request past its check that takes an active admin away from the list.
Removing(q) ==
    \/ pc[q] = "write_role" /\ req[q].role # "admin"
    \/ pc[q] = "write_status" /\ req[q].op = "suspend"

AdminInv ==
    ~crossed /\ raced = {} =>
       /\ \E d \in Contacts : Listed(d)
       /\ \A q \in Reqs : Removing(q) => \E d \in Contacts \ {req[q].target} : Listed(d)

\* What InviteMember has done so far, when calls have no unknown outcome.
InviteInv ==
    \A q \in Reqs :
       /\ grant[q] # NoGrant => pc[q] = "done"
       /\ req[q].op = "invite" /\ pc[q] = "done" => grant[q] # NoGrant
       /\ \/ pc[q] \in {"insert_grant", "remove_user"}
          \/ pc[q] = "insert_contact" /\ req[q].op = "invite"
          \/ grant[q] # NoGrant
          => user[q] = "live"
       /\ user[q] = "live" =>
             /\ pc[q] # "idle" /\ req[q].op = "invite"
             /\ \/ pc[q] \in {"insert_contact", "insert_grant", "remove_user", "done"}
                \/ q \in orphans
------------------------------------------------------------------------------
(* What the SQL statements write.                                            *)

\* The arguments of a call are what the procedure's parameters allow.
LEMMA CallArgs ==
  ASSUME NEW q \in Reqs, req[q] \in Calls(q)
  PROVE  /\ req[q].caller \in Contacts /\ req[q].target \in Contacts
         /\ req[q].role \in Roles /\ req[q].email \in Emails \cup {NoEmail}
         /\ req[q].op \in AllOps
         /\ req[q].op \in {"invite", "create_contact"} => req[q].target = q
         /\ req[q].op = "invite" => req[q].email \in Emails
  BY DEF Calls, Contacts, Roles, AllOps

\* The INSERT and the UPDATEs of contacts, each of one row.
LEMMA CreateContactRow ==
  ASSUME TypeOK, NEW c \in Contacts, NEW e \in Emails \cup {NoEmail}
  PROVE  /\ CreateContact(c, e) \in [Contacts -> Rows]
         /\ CreateContact(c, e)[c] = [state |-> "active", email |-> e]
         /\ \A d \in Contacts \ {c} : CreateContact(c, e)[d] = contacts[d]
  BY DEF TypeOK, Rows, CreateContact

\* UpdateContact keeps the state of its row.
LEMMA UpdateContactRow ==
  ASSUME TypeOK, NEW c \in Contacts, NEW e \in Emails \cup {NoEmail}
  PROVE  /\ UpdateContact(c, e) \in [Contacts -> Rows]
         /\ UpdateContact(c, e)[c] = [state |-> contacts[c].state, email |-> e]
         /\ \A d \in Contacts \ {c} : UpdateContact(c, e)[d] = contacts[d]
  BY DEF TypeOK, Rows, UpdateContact

\* ArchiveContact keeps the email, and touches an active row only.
LEMMA ArchiveContactRow ==
  ASSUME TypeOK, NEW c \in Contacts
  PROVE  /\ ArchiveContact(c) \in [Contacts -> Rows]
         /\ contacts[c].state = "active" =>
               ArchiveContact(c)[c] = [state |-> "archived", email |-> contacts[c].email]
         /\ contacts[c].state # "active" => ArchiveContact(c) = contacts
         /\ \A d \in Contacts \ {c} : ArchiveContact(c)[d] = contacts[d]
  BY DEF TypeOK, Rows, ArchiveContact, GetContact, ListContactsByCompany

\* The INSERT and the UPDATEs of workspace_grants.
LEMMA CreateGrantRow ==
  ASSUME TypeOK, NEW c \in Contacts, NEW role \in Roles, NEW status \in Statuses
  PROVE  /\ CreateWorkspaceGrant(c, role, status) \in [Contacts -> Grants]
         /\ CreateWorkspaceGrant(c, role, status)[c] = [role |-> role, status |-> status]
         /\ \A d \in Contacts \ {c} : CreateWorkspaceGrant(c, role, status)[d] = grant[d]
  BY DEF TypeOK, Grants, CreateWorkspaceGrant

\* UpdateGrantRole keeps the status.
LEMMA UpdateRoleRow ==
  ASSUME TypeOK, NEW c \in Contacts, NEW role \in Roles, grant[c] # NoGrant
  PROVE  /\ UpdateGrantRole(c, role) \in [Contacts -> Grants]
         /\ UpdateGrantRole(c, role)[c] = [role |-> role, status |-> grant[c].status]
         /\ \A d \in Contacts \ {c} : UpdateGrantRole(c, role)[d] = grant[d]
  BY DEF TypeOK, Grants, UpdateGrantRole

\* UpdateGrantStatus keeps the role.
LEMMA UpdateStatusRow ==
  ASSUME TypeOK, NEW c \in Contacts, NEW status \in Statuses, grant[c] # NoGrant
  PROVE  /\ UpdateGrantStatus(c, status) \in [Contacts -> Grants]
         /\ UpdateGrantStatus(c, status)[c] = [role |-> grant[c].role, status |-> status]
         /\ \A d \in Contacts \ {c} : UpdateGrantStatus(c, status)[d] = grant[d]
  BY DEF TypeOK, Grants, UpdateGrantStatus

\* The conditional UPDATE of the first sign-in touches a pending grant only.
LEMMA ActivateWrites ==
  ASSUME TypeOK, NEW c \in Contacts
  PROVE  /\ ActivatePendingGrant(c) \in [Contacts -> Grants]
         /\ \A d \in Contacts : ActivatePendingGrant(c)[d] # grant[d] =>
               /\ grant[d].status = "not_signed_in_yet"
               /\ ActivatePendingGrant(c)[d] = [role |-> grant[d].role, status |-> "active"]
<1>1. CASE grant[c].status = "not_signed_in_yet"
  <2>1. grant[c] # NoGrant /\ "active" \in Statuses /\ grant[c].role \in Roles
    BY <1>1 DEF NoGrant, Statuses, TypeOK, Grants
  <2>2. ActivatePendingGrant(c) = UpdateGrantStatus(c, "active")
    BY <1>1 DEF ActivatePendingGrant
  <2>3. /\ UpdateGrantStatus(c, "active") \in [Contacts -> Grants]
        /\ UpdateGrantStatus(c, "active")[c] = [role |-> grant[c].role, status |-> "active"]
        /\ \A d \in Contacts \ {c} : UpdateGrantStatus(c, "active")[d] = grant[d]
    BY <2>1, UpdateStatusRow
  <2> QED
    BY <1>1, <2>2, <2>3
<1>2. CASE grant[c].status # "not_signed_in_yet"
  BY <1>2 DEF ActivatePendingGrant, TypeOK
<1> QED
  BY <1>1, <1>2

------------------------------------------------------------------------------
\* Every step of the middleware and of the two services keeps the types and
\* the facts about the call it is a step of.
LEMMA CallStep == TypeOK /\ CallInv /\ MemberInv /\ [Next]_vars => TypeOK' /\ CallInv'
<1> USE ConstantsAssumption
<1> SUFFICES ASSUME TypeOK, CallInv, MemberInv, [Next]_vars PROVE TypeOK' /\ CallInv'
  OBVIOUS
<1>0. ASSUME NEW q \in Reqs, pc[q] # "idle"
      PROVE  /\ req[q] \in Calls(q)
             /\ req[q].caller \in Contacts /\ req[q].target \in Contacts
             /\ req[q].role \in Roles /\ req[q].email \in Emails \cup {NoEmail}
             /\ req[q].op \in AllOps /\ q \in Contacts
  BY <1>0, CallArgs DEF CallInv, Contacts
<1> USE DEF TypeOK, CallInv, Steps, Outside, Goto, Return, directory, history
<1>1. ASSUME NEW q \in Reqs, Arrive(q) PROVE TypeOK' /\ CallInv'
  BY <1>1 DEF Arrive
<1>2. ASSUME NEW q \in Reqs, Resolve(q) PROVE TypeOK' /\ CallInv'
  <2> DEFINE g == ResolveTeamCallerByZitadelUserID(req[q].caller)
  <2>1. pc[q] = "resolve" /\ UNCHANGED <<directory, grant, req, history>>
    BY <1>2 DEF Resolve
  <2>2. g \in Grants
    BY <1>0, <2>1 DEF ResolveTeamCallerByZitadelUserID, Grants
  <2>3. \A h : Authorized(q, h) \in {"refused", FirstStep(req[q].op)}
    BY DEF Authorized
  <2>4. got' \in [Reqs -> Grants]
    BY <1>2, <2>2 DEF Resolve
  <2>5. \/ pc' = [pc EXCEPT ![q] = "refused"]
        \/ pc' = [pc EXCEPT ![q] = "activate"]
        \/ pc' = [pc EXCEPT ![q] = FirstStep(req[q].op)]
    BY <1>2, <2>3 DEF Resolve
  <2> QED
    BY <1>0, <2>1, <2>4, <2>5, FirstSteps DEF AllOps
<1>3. ASSUME NEW q \in Reqs, Activate(q) PROVE TypeOK' /\ CallInv'
  <2>1. pc[q] = "activate" /\ UNCHANGED <<directory, req, got, history>>
    BY <1>3 DEF Activate
  <2>2. grant' \in [Contacts -> Grants]
    BY <1>0, <1>3, <2>1, ActivateWrites DEF Activate
  <2>3. \/ pc' = [pc EXCEPT ![q] = "refused"]
        \/ pc' = [pc EXCEPT ![q] = FirstStep(req[q].op)]
    BY <1>3 DEF Activate, Authorized
  <2> QED
    BY <1>0, <2>1, <2>2, <2>3, FirstSteps DEF AllOps
<1>4. ASSUME NEW q \in Reqs, ListRows(q) PROVE TypeOK' /\ CallInv'
  BY <1>4 DEF ListRows
<1>5. ASSUME NEW q \in Reqs, CheckEmail(q) PROVE TypeOK' /\ CallInv'
  BY <1>5 DEF CheckEmail
<1>6. ASSUME NEW q \in Reqs, AddUser(q) PROVE TypeOK' /\ CallInv'
  BY <1>6 DEF AddUser, Contacts
<1>7. ASSUME NEW q \in Reqs, InsertContact(q) PROVE TypeOK' /\ CallInv'
  <2>1. pc[q] = "insert_contact" /\ UNCHANGED <<user, orphans, grant, req, got, history>>
    BY <1>7 DEF InsertContact
  <2>2. CreateContact(q, req[q].email) \in [Contacts -> Rows]
    BY <1>0, <2>1, CreateContactRow
  <2>3. contacts' \in [Contacts -> Rows]
    BY <1>7, <2>2 DEF InsertContact
  <2>4. pc'[q] = "remove_user" => req[q].op = "invite"
    BY <1>7 DEF InsertContact, Abandon
  <2>5. pc'[q] = "insert_grant" => req[q].op = "invite"
    BY <1>7 DEF InsertContact, Abandon
  <2>6. \E step \in {"remove_user", "refused", "insert_grant", "done"} :
           pc' = [pc EXCEPT ![q] = step]
    BY <1>7 DEF InsertContact, Abandon
  <2> QED
    BY <2>1, <2>3, <2>4, <2>5, <2>6
<1>8. ASSUME NEW q \in Reqs, InsertGrant(q) PROVE TypeOK' /\ CallInv'
  <2>1. pc[q] = "insert_grant" /\ "not_signed_in_yet" \in Statuses
    BY <1>8 DEF InsertGrant, Statuses
  <2>2. CreateWorkspaceGrant(q, req[q].role, "not_signed_in_yet") \in [Contacts -> Grants]
    BY <1>0, <2>1, CreateGrantRow
  <2>3. grant' \in [Contacts -> Grants]
    BY <1>8, <2>2 DEF InsertGrant
  <2> QED
    BY <1>8, <2>3 DEF InsertGrant
<1>9. ASSUME NEW q \in Reqs, RemoveUser(q) PROVE TypeOK' /\ CallInv'
  BY <1>9 DEF RemoveUser, Contacts
<1>10. ASSUME NEW q \in Reqs, LoadContact(q) PROVE TypeOK' /\ CallInv'
  BY <1>10 DEF LoadContact
<1>11. ASSUME NEW q \in Reqs, LoadGrant(q) \/ CountAdmins(q) PROVE TypeOK' /\ CallInv'
  BY <1>11 DEF LoadGrant, CountAdmins, WriteStep
<1>12. ASSUME NEW q \in Reqs, WriteRole(q) PROVE TypeOK' /\ CallInv'
  <2>1. pc[q] = "write_role"
    BY <1>12 DEF WriteRole
  <2>2. UpdateGrantRole(req[q].target, req[q].role) \in [Contacts -> Grants]
    BY <1>0, <2>1, UpdateRoleRow DEF MemberInv
  <2>3. grant' \in [Contacts -> Grants]
    BY <1>12, <2>2 DEF WriteRole
  <2>4. crossed' \in BOOLEAN
    BY <1>12 DEF WriteRole, Crossing
  <2> QED
    BY <1>12, <2>3, <2>4 DEF WriteRole
<1>13. ASSUME NEW q \in Reqs, WriteStatus(q) PROVE TypeOK' /\ CallInv'
  <2>1. pc[q] = "write_status" /\ NewStatus(req[q].op) \in Statuses
    BY <1>13 DEF WriteStatus, NewStatus, Statuses
  <2>2. UpdateGrantStatus(req[q].target, NewStatus(req[q].op)) \in [Contacts -> Grants]
    BY <1>0, <2>1, UpdateStatusRow DEF MemberInv
  <2>3. grant' \in [Contacts -> Grants]
    BY <1>13, <2>2 DEF WriteStatus
  <2>4. crossed' \in BOOLEAN
    BY <1>13 DEF WriteStatus, Crossing
  <2> QED
    BY <1>13, <2>3, <2>4 DEF WriteStatus
<1>14. ASSUME NEW q \in Reqs, UpdateRow(q) PROVE TypeOK' /\ CallInv'
  <2>1. pc[q] = "update_row"
    BY <1>14 DEF UpdateRow
  <2>2. UpdateContact(req[q].target, req[q].email) \in [Contacts -> Rows]
    BY <1>0, <2>1, UpdateContactRow
  <2>3. contacts' \in [Contacts -> Rows]
    BY <1>14, <2>2 DEF UpdateRow
  <2> QED
    BY <1>14, <2>3 DEF UpdateRow
<1>15. ASSUME NEW q \in Reqs, HasGrant(q) PROVE TypeOK' /\ CallInv'
  BY <1>0, <1>15 DEF HasGrant
<1>16. ASSUME NEW q \in Reqs, ArchiveRow(q) PROVE TypeOK' /\ CallInv'
  <2>1. pc[q] = "archive_row"
    BY <1>16 DEF ArchiveRow
  <2>2. ArchiveContact(req[q].target) \in [Contacts -> Rows]
    BY <1>0, <2>1, ArchiveContactRow
  <2>3. contacts' \in [Contacts -> Rows]
    BY <1>16, <2>2 DEF ArchiveRow
  <2> QED
    BY <1>16, <2>3 DEF ArchiveRow
<1>17. CASE UNCHANGED vars
  BY <1>17 DEF vars
<1> QED
  BY <1>1, <1>2, <1>3, <1>4, <1>5, <1>6, <1>7, <1>8, <1>9, <1>10, <1>11, <1>12, <1>13,
     <1>14, <1>15, <1>16, <1>17
  DEF Next, Serve
------------------------------------------------------------------------------
(* How a step may change a request and a row.                                *)

\* A request is moved by its own handler only, and its call is fixed once it
\* has arrived.
LEMMA OwnStep ==
  ASSUME TypeOK, [Next]_vars, NEW q \in Reqs
  PROVE  /\ pc'[q] # pc[q] => Arrive(q) \/ Serve(q)
         /\ pc[q] # "idle" => req'[q] = req[q]
<1>1. CASE UNCHANGED vars
  BY <1>1 DEF vars
<1>2. ASSUME NEW p \in Reqs, Arrive(p)
      PROVE  /\ pc'[q] # pc[q] => p = q
             /\ pc[q] # "idle" => req'[q] = req[q]
  BY <1>2 DEF Arrive, Goto, TypeOK
<1>3. ASSUME NEW p \in Reqs, Serve(p)
      PROVE  (pc'[q] # pc[q] => p = q) /\ UNCHANGED req
  <2>1. UNCHANGED req
    BY <1>3 DEF Serve, Resolve, Activate, ListRows, CheckEmail, AddUser, InsertContact,
                InsertGrant, RemoveUser, LoadContact, LoadGrant, CountAdmins, WriteRole,
                WriteStatus, UpdateRow, HasGrant, ArchiveRow
  <2>2. \E step : pc' = [pc EXCEPT ![p] = step]
    BY <1>3 DEF Serve, Resolve, Activate, ListRows, CheckEmail, AddUser, InsertContact,
                InsertGrant, RemoveUser, LoadContact, LoadGrant, CountAdmins, WriteRole,
                WriteStatus, UpdateRow, HasGrant, ArchiveRow, Goto, Return
  <2> QED
    BY <2>1, <2>2 DEF TypeOK
<1> QED
  BY <1>1, <1>2, <1>3 DEF Next

\* The writes to workspace_grants: the first sign-in, the insert of an
\* invite, the new role and the new status of a member.
GrantChange(c) ==
    \/ /\ grant[c].status = "not_signed_in_yet"
       /\ grant'[c] = [role |-> grant[c].role, status |-> "active"]
    \/ /\ c \in Reqs /\ InsertGrant(c)
       /\ grant'[c] = [role |-> req[c].role, status |-> "not_signed_in_yet"]
    \/ /\ grant[c] # NoGrant
       /\ \E q \in Reqs :
             /\ WriteRole(q) /\ req[q].target = c
             /\ grant'[c] = [role |-> req[q].role, status |-> grant[c].status]
    \/ /\ grant[c] # NoGrant
       /\ \E q \in Reqs :
             /\ WriteStatus(q) /\ req[q].target = c
             /\ grant'[c] = [role |-> grant[c].role, status |-> NewStatus(req[q].op)]

\* Every step that changes a grant does so in one of those ways.
LEMMA GrantChanges ==
  ASSUME TypeOK, CallInv, MemberInv, [Next]_vars, NEW c \in Contacts, grant'[c] # grant[c]
  PROVE  GrantChange(c) /\ \A d \in Contacts \ {c} : grant'[d] = grant[d]
<1>1. PICK q \in Reqs : Activate(q) \/ InsertGrant(q) \/ WriteRole(q) \/ WriteStatus(q)
  BY DEF Next, Serve, vars, Arrive, Resolve, ListRows, CheckEmail, AddUser, InsertContact,
         RemoveUser, LoadContact, LoadGrant, CountAdmins, UpdateRow, HasGrant, ArchiveRow
<1>2. pc[q] # "idle" /\ q \in Contacts
  BY <1>1 DEF Activate, InsertGrant, WriteRole, WriteStatus, Contacts
<1>3. req[q].caller \in Contacts /\ req[q].target \in Contacts /\ req[q].role \in Roles
  BY <1>2, CallArgs DEF CallInv
<1>4. CASE Activate(q)
  <2>1. grant' = ActivatePendingGrant(req[q].caller)
    BY <1>4 DEF Activate
  <2>2. \A d \in Contacts \ {req[q].caller} : grant'[d] = grant[d]
    BY <2>1 DEF ActivatePendingGrant, UpdateGrantStatus, TypeOK
  <2>3. /\ grant[c].status = "not_signed_in_yet"
        /\ grant'[c] = [role |-> grant[c].role, status |-> "active"]
    BY <1>3, <2>1, ActivateWrites
  <2> QED
    BY <2>2, <2>3 DEF GrantChange
<1>5. CASE InsertGrant(q)
  <2>1. /\ grant' = CreateWorkspaceGrant(q, req[q].role, "not_signed_in_yet")
        /\ "not_signed_in_yet" \in Statuses
    BY <1>5 DEF InsertGrant, Statuses
  <2>2. /\ grant'[q] = [role |-> req[q].role, status |-> "not_signed_in_yet"]
        /\ \A d \in Contacts \ {q} : grant'[d] = grant[d]
    BY <1>2, <1>3, <2>1, CreateGrantRow
  <2> QED
    BY <1>5, <2>2 DEF GrantChange
<1>6. CASE WriteRole(q)
  <2>1. /\ grant' = UpdateGrantRole(req[q].target, req[q].role)
        /\ grant[req[q].target] # NoGrant
    BY <1>6 DEF WriteRole, MemberInv
  <2>2. /\ grant'[req[q].target] = [role |-> req[q].role, status |-> grant[req[q].target].status]
        /\ \A d \in Contacts \ {req[q].target} : grant'[d] = grant[d]
    BY <1>3, <2>1, UpdateRoleRow
  <2> QED
    BY <1>6, <2>1, <2>2 DEF GrantChange
<1>7. CASE WriteStatus(q)
  <2>1. /\ grant' = UpdateGrantStatus(req[q].target, NewStatus(req[q].op))
        /\ grant[req[q].target] # NoGrant /\ NewStatus(req[q].op) \in Statuses
    BY <1>7 DEF WriteStatus, MemberInv, NewStatus, Statuses
  <2>2. /\ grant'[req[q].target]
             = [role |-> grant[req[q].target].role, status |-> NewStatus(req[q].op)]
        /\ \A d \in Contacts \ {req[q].target} : grant'[d] = grant[d]
    BY <1>3, <2>1, UpdateStatusRow
  <2> QED
    BY <1>7, <2>1, <2>2 DEF GrantChange
<1> QED
  BY <1>1, <1>4, <1>5, <1>6, <1>7

\* The writes to contacts: an insert and an update, both under the unique
\* index on the email, and the archival.
ContactChange(c) ==
    \/ /\ c \in Reqs /\ InsertContact(c) /\ ~EmailTaken(req[c].email, c)
       /\ contacts'[c] = [state |-> "active", email |-> req[c].email]
    \/ /\ contacts[c].state = "active"
       /\ \E q \in Reqs :
             /\ UpdateRow(q) /\ req[q].target = c /\ ~EmailTaken(req[q].email, c)
             /\ contacts'[c] = [state |-> "active", email |-> req[q].email]
    \/ /\ contacts[c].state = "active"
       /\ \E q \in Reqs :
             /\ ArchiveRow(q) /\ req[q].target = c
             /\ contacts'[c] = [state |-> "archived", email |-> contacts[c].email]

\* Every step that changes a contact does so in one of those ways.
LEMMA ContactChanges ==
  ASSUME TypeOK, CallInv, [Next]_vars, NEW c \in Contacts, contacts'[c] # contacts[c]
  PROVE  ContactChange(c) /\ \A d \in Contacts \ {c} : contacts'[d] = contacts[d]
<1>1. PICK q \in Reqs : InsertContact(q) \/ UpdateRow(q) \/ ArchiveRow(q)
  BY DEF Next, Serve, vars, directory, Arrive, Resolve, Activate, ListRows, CheckEmail, AddUser,
         InsertGrant, RemoveUser, LoadContact, LoadGrant, CountAdmins, WriteRole,
         WriteStatus, HasGrant
<1>2. pc[q] # "idle" /\ q \in Contacts
  BY <1>1 DEF InsertContact, UpdateRow, ArchiveRow, Contacts
<1>3. req[q].target \in Contacts /\ req[q].email \in Emails \cup {NoEmail}
  BY <1>2, CallArgs DEF CallInv
<1>4. CASE InsertContact(q)
  <2>1. contacts' = CreateContact(q, req[q].email) /\ ~EmailTaken(req[q].email, q)
    BY <1>4 DEF InsertContact
  <2>2. /\ contacts'[q] = [state |-> "active", email |-> req[q].email]
        /\ \A d \in Contacts \ {q} : contacts'[d] = contacts[d]
    BY <1>2, <1>3, <2>1, CreateContactRow
  <2> QED
    BY <1>4, <2>1, <2>2 DEF ContactChange
<1>5. CASE UpdateRow(q)
  <2>1. /\ contacts' = UpdateContact(req[q].target, req[q].email)
        /\ ~EmailTaken(req[q].email, req[q].target)
        /\ contacts[req[q].target].state = "active"
    BY <1>5 DEF UpdateRow, GetContact, ListContactsByCompany
  <2>2. /\ contacts'[req[q].target] = [state |-> "active", email |-> req[q].email]
        /\ \A d \in Contacts \ {req[q].target} : contacts'[d] = contacts[d]
    BY <1>3, <2>1, UpdateContactRow
  <2> QED
    BY <1>5, <2>1, <2>2 DEF ContactChange
<1>6. CASE ArchiveRow(q)
  <2>1. contacts' = ArchiveContact(req[q].target)
    BY <1>6 DEF ArchiveRow
  <2>2. /\ contacts[req[q].target].state = "active" =>
             contacts'[req[q].target]
                = [state |-> "archived", email |-> contacts[req[q].target].email]
        /\ contacts[req[q].target].state # "active" => contacts' = contacts
        /\ \A d \in Contacts \ {req[q].target} : contacts'[d] = contacts[d]
    BY <1>3, <2>1, ArchiveContactRow
  <2> QED
    BY <1>6, <2>2 DEF ContactChange
<1> QED
  BY <1>1, <1>4, <1>5, <1>6

\* The steps of a request, one after the other.
Move(q) ==
    \/ Arrive(q) /\ pc[q] = "idle" /\ pc'[q] = "resolve"
    \/ /\ pc'[q] = "refused"
       /\ pc[q] \notin {"idle", "insert_grant", "done", "refused"}
       /\ pc[q] = "insert_contact" => req[q].op # "invite"
    \/ /\ pc[q] \in {"resolve", "activate"}
       /\ pc'[q] \in {"activate", "list_rows", "check_email", "get_contact", "update_row",
                      "has_grant"}
    \/ pc[q] = "check_email" /\ pc'[q] = "add_user"
    \/ pc[q] = "check_email" /\ pc'[q] = "insert_contact" /\ req[q].op # "invite"
    \/ AddUser(q) /\ pc[q] = "add_user" /\ pc'[q] = "insert_contact"
    \/ /\ InsertContact(q) /\ pc[q] = "insert_contact"
       /\ pc'[q] = IF req[q].op = "invite" THEN "insert_grant" ELSE "done"
    \/ InsertContact(q) /\ pc[q] = "insert_contact" /\ pc'[q] = "remove_user"
    \/ InsertGrant(q) /\ pc[q] = "insert_grant" /\ pc'[q] \in {"done", "remove_user"}
    \/ pc[q] = "get_contact" /\ pc'[q] = "get_grant"
    \/ LoadGrant(q) /\ pc[q] = "get_grant" /\ pc'[q] \in {"count_admins", WriteStep(req[q].op)}
    \/ CountAdmins(q) /\ pc[q] = "count_admins" /\ pc'[q] = WriteStep(req[q].op)
    \/ HasGrant(q) /\ pc[q] = "has_grant" /\ pc'[q] = "archive_row"
    \/ /\ pc[q] \in {"list_rows", "write_role", "write_status", "update_row", "archive_row"}
       /\ pc'[q] = "done"

\* No request takes a step that is not one of those.
LEMMA Moves ==
  ASSUME TypeOK, CallInv, [Next]_vars, NEW q \in Reqs, pc'[q] # pc[q]
  PROVE  Move(q)
<1>1. CASE Arrive(q)
  BY <1>1 DEF Arrive, Goto, TypeOK, Move
<1>2. CASE Resolve(q) \/ Activate(q)
  <2>1. pc'[q] \in {"refused", "activate", FirstStep(req[q].op)} /\ pc[q] \in {"resolve", "activate"}
    BY <1>2 DEF Resolve, Activate, Authorized, Goto, TypeOK
  <2>2. req[q].op \in AllOps
    BY <2>1, CallArgs DEF CallInv
  <2>3. FirstStep(req[q].op) \in {"list_rows", "check_email", "get_contact", "update_row",
                                  "has_grant"}
    BY <2>2, FirstSteps DEF AllOps
  <2> QED
    BY <2>1, <2>3 DEF Move
<1>3. CASE CheckEmail(q)
  BY <1>3 DEF CheckEmail, Goto, Return, TypeOK, Move
<1>4. CASE AddUser(q)
  BY <1>4 DEF AddUser, Goto, Return, TypeOK, Move
<1>5. CASE InsertContact(q)
  <2>1. pc[q] = "insert_contact" /\
        pc'[q] \in {Abandon(q), IF req[q].op = "invite" THEN "insert_grant" ELSE "done"}
    BY <1>5 DEF InsertContact, Goto, Return, TypeOK
  <2> QED
    BY <1>5, <2>1 DEF Abandon, Move
<1>6. CASE InsertGrant(q)
  BY <1>6 DEF InsertGrant, Goto, Return, TypeOK, Move
<1>7. CASE RemoveUser(q) \/ ListRows(q) \/ LoadContact(q)
  BY <1>7 DEF RemoveUser, ListRows, LoadContact, Goto, Return, TypeOK, Move
<1>8. CASE LoadGrant(q)
  <2>1. pc[q] = "get_grant" /\ pc'[q] \in {"refused", "count_admins", WriteStep(req[q].op)}
    BY <1>8 DEF LoadGrant, Goto, Return, TypeOK
  <2> QED
    BY <1>8, <2>1 DEF Move
<1>9. CASE CountAdmins(q)
  <2>1. pc[q] = "count_admins" /\ pc'[q] \in {"refused", WriteStep(req[q].op)}
    BY <1>9 DEF CountAdmins, Goto, Return, TypeOK
  <2> QED
    BY <1>9, <2>1 DEF Move
<1>10. CASE WriteRole(q) \/ WriteStatus(q) \/ UpdateRow(q) \/ ArchiveRow(q)
  <2>1. /\ pc[q] \in {"write_role", "write_status", "update_row", "archive_row"}
        /\ pc'[q] \in {"done", "refused"}
    BY <1>10 DEF WriteRole, WriteStatus, UpdateRow, ArchiveRow, Goto, Return, TypeOK
  <2> QED
    BY <2>1 DEF Move
<1>11. CASE HasGrant(q)
  BY <1>11 DEF HasGrant, Goto, Return, TypeOK, Move
<1> QED
  BY <1>1, <1>2, <1>3, <1>4, <1>5, <1>6, <1>7, <1>8, <1>9, <1>10, <1>11, OwnStep DEF Serve

------------------------------------------------------------------------------
\* A grant is never deleted.
LEMMA GrantStays ==
  ASSUME TypeOK, CallInv, MemberInv, [Next]_vars, NEW c \in Contacts, grant[c] # NoGrant
  PROVE  grant'[c] # NoGrant
<1> SUFFICES ASSUME grant'[c] # grant[c] PROVE grant'[c] # NoGrant
  OBVIOUS
<1>1. GrantChange(c)
  BY GrantChanges
<1>2. \A q \in Reqs : WriteRole(q) => req[q].role \in Roles
  BY CallArgs DEF WriteRole, CallInv
<1>3. grant'[c].role # "none" \/ grant'[c].status # "none"
  <2>1. CASE grant'[c] = [role |-> grant[c].role, status |-> "active"]
    BY <2>1
  <2>2. CASE grant'[c] = [role |-> req[c].role, status |-> "not_signed_in_yet"]
    BY <2>2
  <2>3. ASSUME NEW q \in Reqs, WriteRole(q),
               grant'[c] = [role |-> req[q].role, status |-> grant[c].status]
        PROVE  grant'[c].role # "none"
    BY <1>2, <2>3 DEF Roles
  <2>4. ASSUME NEW q \in Reqs,
               grant'[c] = [role |-> grant[c].role, status |-> NewStatus(req[q].op)]
        PROVE  grant'[c].status # "none"
    BY <2>4 DEF NewStatus
  <2> QED
    BY <1>1, <2>1, <2>2, <2>3, <2>4 DEF GrantChange
<1> QED
  BY <1>3 DEF NoGrant

\* A grant that a request has loaded stays: no step deletes one.
LEMMA MemberStep == TypeOK /\ CallInv /\ MemberInv /\ [Next]_vars => MemberInv'
<1> SUFFICES ASSUME TypeOK, CallInv, MemberInv, [Next]_vars, NEW q \in Reqs,
                    pc'[q] \in {"count_admins", "write_role", "write_status"}
             PROVE  grant'[req'[q].target] # NoGrant
  BY DEF MemberInv
<1>1. pc[q] # "idle" /\ grant[req[q].target] # NoGrant
  <2>1. CASE pc'[q] = pc[q]
    BY <2>1 DEF MemberInv
  <2>2. CASE pc'[q] # pc[q]
    <3>1. LoadGrant(q) \/ pc[q] = "count_admins"
      BY <2>2, Moves DEF Move
    <3>2. CASE LoadGrant(q)
      BY <3>2 DEF LoadGrant, GetGrantByContactID, Return, Goto, TypeOK
    <3> QED
      BY <3>1, <3>2 DEF MemberInv
  <2> QED
    BY <2>1, <2>2
<1>2. req'[q] = req[q] /\ req[q].target \in Contacts
  BY <1>1, OwnStep, CallArgs DEF CallInv
<1> QED
  BY <1>1, <1>2, GrantStays

BaseInv == TypeOK /\ CallInv /\ MemberInv

\* What the remaining proofs of this module start from.
LEMMA BaseInvariant == Spec => []BaseInv
<1>1. Init => BaseInv
  <2>1. Init => /\ contacts \in [Contacts -> Rows] /\ grant \in [Contacts -> Grants]
                /\ user \in [Contacts -> {"absent", "live", "removed"}]
    BY DEF Init, Rows, Grants, Roles, Statuses
  <2>2. Init => TypeOK
    BY <2>1 DEF Init, TypeOK, Grants, Steps, Outside
  <2>3. Init => CallInv /\ MemberInv
    BY DEF Init, CallInv, MemberInv
  <2> QED
    BY <2>2, <2>3 DEF BaseInv
<1>2. BaseInv /\ [Next]_vars => BaseInv'
  BY CallStep, MemberStep DEF BaseInv
<1> QED
  BY <1>1, <1>2, PTL DEF Spec

\* The tables and the requests of the team and contacts services are well
\* typed: no member update ever writes to a grant that is not there.
THEOREM TypeCorrect == Spec => []TypeOK
<1>1. BaseInv => TypeOK
  BY DEF BaseInv
<1> QED
  BY <1>1, BaseInvariant, PTL

------------------------------------------------------------------------------
\* The unique index guards the insert and the update, the only writes of an
\* email, and no archived row comes back.
LEMMA EmailsStep == BaseInv /\ EmailsUnique /\ [Next]_vars => EmailsUnique'
<1> SUFFICES ASSUME TypeOK, CallInv, EmailsUnique, [Next]_vars,
                    NEW c \in Contacts, NEW d \in Contacts,
                    contacts'[c].state = "active", contacts'[d].state = "active",
                    contacts'[c].email = contacts'[d].email, contacts'[c].email # NoEmail
             PROVE  c = d
  BY DEF BaseInv, EmailsUnique, ListContactsByCompany
<1>1. ASSUME NEW a \in Contacts, NEW b \in Contacts, a # b,
             contacts'[a] # contacts[a],
             contacts'[a].state = "active", contacts'[b].state = "active",
             contacts'[a].email = contacts'[b].email, contacts'[a].email # NoEmail
      PROVE  FALSE
  <2>1. ContactChange(a) /\ contacts'[b] = contacts[b]
    BY <1>1, ContactChanges
  <2>2. ~EmailTaken(contacts'[a].email, a)
    <3>1. ASSUME NEW e, ~EmailTaken(e, a), contacts'[a] = [state |-> "active", email |-> e]
          PROVE  ~EmailTaken(contacts'[a].email, a)
      BY <3>1
    <3>2. ASSUME NEW e, contacts'[a] = [state |-> "archived", email |-> e] PROVE FALSE
      BY <1>1, <3>2
    <3> QED
      BY <2>1, <3>1, <3>2 DEF ContactChange
  <2> QED
    BY <1>1, <2>1, <2>2 DEF EmailTaken, ListContactsByCompany
<1>2. CASE contacts'[c] = contacts[c] /\ contacts'[d] = contacts[d]
  BY <1>2 DEF EmailsUnique, ListContactsByCompany
<1> QED
  BY <1>1, <1>2

\* Two active contacts of the company never share an email: the index makes
\* good for the checks that are made too early or not at all.
THEOREM EmailsUniqueHolds == Spec => []EmailsUnique
<1>1. Init => EmailsUnique
  BY DEF Init, EmailsUnique, ListContactsByCompany
<1> QED
  BY <1>1, BaseInvariant, EmailsStep, PTL DEF Spec
------------------------------------------------------------------------------
\* A contact is never deleted, and has its state changed by its insert and its
\* archival only.
LEMMA ContactStays ==
  ASSUME TypeOK, CallInv, [Next]_vars, NEW c \in Contacts
  PROVE  /\ contacts[c].state # "absent" => contacts'[c].state # "absent"
         /\ contacts[c].state = "absent" /\ contacts'[c].state # "absent" =>
               c \in Reqs /\ InsertContact(c) /\ contacts'[c].state = "active"
         /\ contacts[c].state # "archived" /\ contacts'[c].state = "archived" =>
               \E q \in Reqs : ArchiveRow(q) /\ req[q].target = c
<1>1. CASE contacts'[c] = contacts[c]
  BY <1>1
<1>2. CASE contacts'[c] # contacts[c]
  <2>1. ContactChange(c)
    BY <1>2, ContactChanges
  <2>2. \A st, e : contacts'[c] = [state |-> st, email |-> e] => contacts'[c].state = st
    OBVIOUS
  <2>3. \/ c \in Reqs /\ InsertContact(c) /\ contacts'[c].state = "active"
        \/ contacts[c].state = "active" /\ contacts'[c].state = "active"
        \/ /\ contacts[c].state = "active" /\ contacts'[c].state = "archived"
           /\ \E q \in Reqs : ArchiveRow(q) /\ req[q].target = c
    BY <2>1, <2>2 DEF ContactChange
  <2> QED
    BY <2>3
<1> QED
  BY <1>1, <1>2

\* A grant appears with the insert of its invite only.
LEMMA GrantAppears ==
  ASSUME TypeOK, CallInv, MemberInv, [Next]_vars, NEW c \in Contacts,
         grant[c] = NoGrant, grant'[c] # NoGrant
  PROVE  /\ c \in Reqs /\ InsertGrant(c)
         /\ grant'[c] = [role |-> req[c].role, status |-> "not_signed_in_yet"]
<1>1. GrantChange(c)
  BY GrantChanges
<1>2. grant[c].status # "not_signed_in_yet"
  BY DEF NoGrant
<1> QED
  BY <1>1, <1>2 DEF GrantChange

\* The rows of an invite come in their order.
LEMMA RowStep == BaseInv /\ RowInv /\ [Next]_vars => RowInv'
<1> SUFFICES ASSUME TypeOK, CallInv, MemberInv, RowInv, [Next]_vars PROVE RowInv'
  BY DEF BaseInv
<1>0. Reqs \subseteq Contacts
  BY DEF Contacts
<1>1. ASSUME NEW q \in Reqs, contacts'[q].state # "absent"
      PROVE  pc'[q] \in {"insert_grant", "remove_user", "refused", "done"}
  <2>1. CASE contacts[q].state # "absent"
    BY <2>1, Moves DEF Move, RowInv
  <2>2. CASE contacts[q].state = "absent"
    <3>1. InsertContact(q)
      BY <1>0, <1>1, <2>2, ContactStays
    <3> QED
      BY <3>1 DEF InsertContact, Abandon, Return, Goto, TypeOK
  <2> QED
    BY <2>1, <2>2
<1>2. ASSUME NEW q \in Reqs, grant'[q] # NoGrant
      PROVE  pc'[q] \in {"remove_user", "refused", "done"}
  <2>1. CASE grant[q] # NoGrant
    BY <2>1, Moves DEF Move, RowInv
  <2>2. CASE grant[q] = NoGrant
    <3>1. InsertGrant(q)
      BY <1>0, <1>2, <2>2, GrantAppears
    <3> QED
      BY <3>1 DEF InsertGrant, Return, Goto, TypeOK
  <2> QED
    BY <2>1, <2>2
<1>3. ASSUME NEW q \in Reqs, pc'[q] = "insert_grant" PROVE contacts'[q].state # "absent"
  <2>1. CASE pc[q] = "insert_grant"
    BY <1>0, <2>1, ContactStays DEF RowInv
  <2>2. CASE pc[q] # "insert_grant"
    <3>1. InsertContact(q) /\ pc[q] = "insert_contact"
      BY <1>3, <2>2, Moves DEF Move, WriteStep
    <3>2. req[q].email \in Emails \cup {NoEmail} /\ q \in Contacts
      BY <1>0, <3>1, CallArgs DEF CallInv
    <3>3. contacts' = CreateContact(q, req[q].email)
      BY <1>3, <3>1 DEF InsertContact, Abandon, Landed, Return, Goto, TypeOK
    <3>4. contacts'[q] = [state |-> "active", email |-> req[q].email]
      BY <3>2, <3>3, CreateContactRow
    <3> QED
      BY <3>4
  <2> QED
    BY <2>1, <2>2
<1>4. ASSUME NEW c \in Contacts, grant'[c] # NoGrant PROVE contacts'[c].state # "absent"
  <2>1. contacts[c].state # "absent"
    BY <1>4, GrantAppears DEF RowInv, InsertGrant
  <2> QED
    BY <2>1, ContactStays
<1>5. ASSUME NEW q \in Reqs, pc'[q] # "idle"
      PROVE  contacts'[req'[q].target].state # "absent" \/ req'[q].target = q
  <2>1. CASE pc[q] # "idle"
    <3>1. req'[q] = req[q] /\ req[q].target \in Contacts
      BY <2>1, OwnStep, CallArgs DEF CallInv
    <3> QED
      BY <2>1, <3>1, ContactStays DEF RowInv
  <2>2. CASE pc[q] = "idle"
    <3>1. Arrive(q)
      BY <1>5, <2>2, Moves DEF Move
    <3> QED
      BY <3>1 DEF Arrive, directory, TypeOK
  <2> QED
    BY <2>1, <2>2
<1> QED
  BY <1>1, <1>2, <1>3, <1>4, <1>5 DEF RowInv

\* RowInv holds in every reachable state.
LEMMA RowInvariant == Spec => [](BaseInv /\ RowInv)
<1>1. Init => RowInv
  BY ConstantsAssumption DEF Init, RowInv, Contacts, NoGrant
<1> QED
  BY <1>1, BaseInvariant, RowStep, PTL DEF Spec

\* Only ReactivateMember lifts a suspension: not a first sign-in that was
\* resolved before it, nor a late invite or role change.
THEOREM SuspensionHoldsAlways == Spec => SuspensionHolds
<1>1. BaseInv /\ RowInv /\ [Next]_vars =>
        \A c \in Contacts :
          grant[c].status = "suspended" /\ grant'[c].status # "suspended" =>
             \E q \in Reqs : /\ pc[q] = "write_status"
                             /\ req[q].op = "reactivate"
                             /\ req[q].target = c
  <2> SUFFICES ASSUME TypeOK, CallInv, MemberInv, RowInv, [Next]_vars, NEW c \in Contacts,
                      grant[c].status = "suspended", grant'[c].status # "suspended"
               PROVE  \E q \in Reqs : /\ pc[q] = "write_status"
                                      /\ req[q].op = "reactivate"
                                      /\ req[q].target = c
    BY DEF BaseInv
  <2>1. GrantChange(c) /\ grant[c] # NoGrant
    BY GrantChanges DEF NoGrant
  <2>2. ~(c \in Reqs /\ InsertGrant(c))
    BY <2>1 DEF RowInv, InsertGrant
  <2>3. ASSUME NEW q \in Reqs, grant'[c] = [role |-> req[q].role, status |-> grant[c].status]
        PROVE  FALSE
    BY <2>3
  <2>4. PICK q \in Reqs :
          /\ WriteStatus(q) /\ req[q].target = c
          /\ grant'[c] = [role |-> grant[c].role, status |-> NewStatus(req[q].op)]
    BY <2>1, <2>2, <2>3 DEF GrantChange
  <2>5. NewStatus(req[q].op) # "suspended"
    BY <2>4
  <2> QED
    BY <2>4, <2>5 DEF WriteStatus, NewStatus, CallInv
<1> QED
  BY <1>1, RowInvariant, PTL DEF Spec, SuspensionHolds

------------------------------------------------------------------------------
\* What the history variables recorded stays recorded.
LEMMA HistoryGrows ==
  ASSUME TypeOK, [Next]_vars
  PROVE  raced \subseteq raced' /\ (crossed => crossed')
<1>1. raced \subseteq raced'
  BY DEF Next, Serve, vars, history, Arrive, Resolve, Activate, ListRows, CheckEmail, AddUser,
         InsertContact, InsertGrant, RemoveUser, LoadContact, LoadGrant, CountAdmins,
         WriteRole, WriteStatus, UpdateRow, HasGrant, ArchiveRow
<1>2. crossed' = crossed \/ \E q \in Reqs : Crossing(q)
  BY DEF Next, Serve, vars, history, Arrive, Resolve, Activate, ListRows, CheckEmail, AddUser,
         InsertContact, InsertGrant, RemoveUser, LoadContact, LoadGrant, CountAdmins,
         WriteRole, WriteStatus, UpdateRow, HasGrant, ArchiveRow
<1>3. ASSUME crossed PROVE crossed'
  <2>1. ASSUME NEW q \in Reqs, Crossing(q) PROVE crossed'
    BY <1>3, <2>1, Zenon DEF Crossing
  <2>2. CASE crossed' = crossed
    BY <1>3, <2>2, Zenon
  <2> QED
    BY <1>2, <2>1, <2>2, Zenon
<1> QED
  BY <1>1, <1>3

\* A grant appears only at insert_grant, and an archive that checks a contact
\* whose invite is there puts it into raced.
LEMMA ArchiveStep == BaseInv /\ RowInv /\ ArchiveInv /\ [Next]_vars => ArchiveInv'
<1> SUFFICES ASSUME TypeOK, CallInv, MemberInv, RowInv, ArchiveInv, [Next]_vars
             PROVE  ArchiveInv'
  BY DEF BaseInv
<1>0. Reqs \subseteq Contacts
  BY DEF Contacts
<1>1. raced \subseteq raced'
  BY HistoryGrows
<1>2. ASSUME NEW c \in Contacts, Settled(c), c \in Reqs => pc[c] # "insert_contact"
      PROVE  Settled(c)'
  <2>1. CASE c \in raced
    BY <1>1, <2>1 DEF Settled
  <2>2. CASE grant[c] = NoGrant /\ (c \in Reqs => pc[c] # "insert_grant")
    <3>1. grant'[c] = NoGrant
      BY <2>2, GrantAppears DEF InsertGrant
    <3>2. c \in Reqs => pc'[c] # "insert_grant"
      BY <1>2, <2>2, Moves DEF Move, WriteStep
    <3> QED
      BY <3>1, <3>2 DEF Settled
  <2> QED
    BY <1>2, <2>1, <2>2 DEF Settled
<1>3. ASSUME NEW q \in Reqs, pc'[q] = "archive_row" PROVE Settled(req[q].target)'
  <2>1. pc[q] \in {"has_grant", "archive_row"}
    BY <1>3, Moves DEF Move, WriteStep
  <2>2. req'[q] = req[q] /\ req[q].target \in Contacts
    BY <2>1, OwnStep, CallArgs DEF CallInv
  <2>3. req[q].target \in Reqs => pc[req[q].target] # "insert_contact"
    BY <2>1 DEF RowInv
  <2>4. CASE pc[q] = "archive_row"
    BY <1>2, <2>2, <2>3, <2>4 DEF ArchiveInv
  <2>5. CASE pc[q] = "has_grant"
    <3>1. HasGrant(q)
      BY <1>3, <2>5, Moves DEF Move, WriteStep
    <3>2. /\ grant' = grant /\ grant[req[q].target] = NoGrant
          /\ \A p \in Reqs \ {q} : pc'[p] = pc[p]
      BY <1>3, <3>1 DEF HasGrant, ContactHasWorkspaceGrant, Return, Goto, TypeOK
    <3>3. req[q].target \in Reqs /\ pc[req[q].target] = "insert_grant" =>
             req[q].target \in raced'
      BY <3>1 DEF HasGrant
    <3> QED
      BY <1>3, <2>2, <3>2, <3>3 DEF Settled
  <2> QED
    BY <2>1, <2>4, <2>5
<1>4. ASSUME NEW c \in Contacts, contacts'[c].state = "archived" PROVE Settled(c)'
  <2>1. contacts[c].state # "absent"
    BY <1>4, ContactStays
  <2>2. c \in Reqs => pc[c] # "insert_contact"
    BY <2>1 DEF RowInv
  <2>3. Settled(c)
    BY <1>4, ContactStays DEF ArchiveInv, ArchiveRow
  <2> QED
    BY <1>2, <2>2, <2>3
<1> QED
  BY <1>3, <1>4 DEF ArchiveInv

\* ArchiveInv holds in every reachable state.
LEMMA ArchiveInvariant == Spec => [](BaseInv /\ RowInv /\ ArchiveInv)
<1>1. Init => ArchiveInv
  BY DEF Init, ArchiveInv
<1> QED
  BY <1>1, RowInvariant, ArchiveStep, PTL DEF Spec

\* An archived contact has no grant, unless its invite was between its two
\* inserts when ArchiveContact checked.
THEOREM ArchivedHasNoGrantHolds == Spec => []ArchivedHasNoGrant
<1>1. ArchiveInv => ArchivedHasNoGrant
  BY DEF ArchiveInv, ArchivedHasNoGrant, Settled
<1> QED
  BY <1>1, ArchiveInvariant, PTL
------------------------------------------------------------------------------
\* What ensureAnotherActiveAdmin concludes from the count.
LEMMA AnotherAdmin ==
  ASSUME ~(CountActiveAdmins <= 1), NEW c
  PROVE  \E d \in ActiveAdmins : d # c
<1> SUFFICES ASSUME ActiveAdmins \subseteq {c} PROVE FALSE
  OBVIOUS
<1>1. IsFiniteSet({c}) /\ Cardinality({c}) = 1
  BY FS_Singleton
<1>2. IsFiniteSet(ActiveAdmins) /\ Cardinality(ActiveAdmins) <= Cardinality({c})
  BY <1>1, FS_Subset
<1> QED
  BY <1>1, <1>2 DEF CountActiveAdmins

\* An active admin whose contact has not been archived by a race is listed.
LEMMA AdminIsListed ==
  ASSUME TypeOK, RowInv, ArchiveInv, raced = {}, NEW d \in ActiveAdmins
  PROVE  Listed(d)
<1>1. d \in Contacts /\ grant[d] = [role |-> "admin", status |-> "active"]
  BY DEF ActiveAdmins
<1>2. grant[d] # NoGrant
  BY <1>1 DEF NoGrant
<1>3. contacts[d].state \notin {"absent", "archived"}
  BY <1>1, <1>2 DEF RowInv, ArchiveInv, Settled
<1> QED
  BY <1>1, <1>3 DEF TypeOK, Rows, Listed

\* An admin stays on the list through every step but a demotion or suspension
\* of that admin.
LEMMA ListedStays ==
  ASSUME BaseInv, RowInv, ArchiveInv, [Next]_vars, raced = {},
         NEW d \in Contacts, Listed(d),
         \/ grant'[d] = grant[d]
         \/ \A q \in Reqs : req[q].target = d /\ (WriteRole(q) \/ WriteStatus(q)) => ~Removing(q)
  PROVE  Listed(d)'
<1>1. TypeOK /\ CallInv /\ MemberInv /\ TypeOK'
  BY CallStep DEF BaseInv
<1>2. grant[d] # NoGrant /\ grant[d].role = "admin" /\ grant[d].status = "active"
  BY DEF Listed, NoGrant
<1>3. contacts'[d].state = "active"
  <2>1. contacts'[d].state \in {"absent", "active", "archived"}
    BY <1>1 DEF TypeOK, Rows
  <2>2. contacts[d].state = "active"
    BY DEF Listed
  <2>3. ~(\E q \in Reqs : ArchiveRow(q) /\ req[q].target = d)
    BY <1>2 DEF ArchiveInv, ArchiveRow, Settled
  <2> QED
    BY <1>1, <2>1, <2>2, <2>3, ContactStays
<1>4. CASE grant'[d] # grant[d]
  <2>1. GrantChange(d)
    BY <1>1, <1>4, GrantChanges
  <2>2. ~(d \in Reqs /\ InsertGrant(d))
    BY <1>2 DEF RowInv, InsertGrant
  <2>3. ASSUME NEW q \in Reqs, WriteRole(q), req[q].target = d PROVE req[q].role = "admin"
    BY <1>4, <2>3 DEF Removing, WriteRole
  <2>4. ASSUME NEW q \in Reqs, WriteStatus(q), req[q].target = d
        PROVE  NewStatus(req[q].op) = "active"
    BY <1>4, <2>4 DEF Removing, WriteStatus, NewStatus
  <2>5. grant'[d] = [role |-> "admin", status |-> "active"]
    BY <1>2, <2>1, <2>2, <2>3, <2>4 DEF GrantChange
  <2> QED
    BY <1>3, <2>5 DEF Listed
<1> QED
  BY <1>3, <1>4 DEF Listed

\* A member update writes to its target's row alone.
LEMMA WriteIsLocal ==
  ASSUME TypeOK, NEW q \in Reqs, WriteRole(q) \/ WriteStatus(q),
         NEW d \in Contacts, d # req[q].target
  PROVE  grant'[d] = grant[d]
  BY DEF WriteRole, WriteStatus, UpdateGrantRole, UpdateGrantStatus, TypeOK

\* Uncrossed, the other admin that a check has found is still there when the
\* request writes.
LEMMA AdminStep ==
  BaseInv /\ RowInv /\ ArchiveInv /\ AdminInv /\ [Next]_vars => AdminInv'
<1> SUFFICES ASSUME BaseInv, RowInv, ArchiveInv, AdminInv, [Next]_vars,
                    ~crossed', raced' = {}
             PROVE  /\ \E d \in Contacts : Listed(d)'
                    /\ \A q \in Reqs : Removing(q)' =>
                          \E d \in Contacts \ {req'[q].target} : Listed(d)'
  BY DEF AdminInv
<1>0. TypeOK /\ CallInv /\ MemberInv
  BY DEF BaseInv
<1>1. ~crossed /\ raced = {}
  BY <1>0, HistoryGrows
<1>2. \E d \in Contacts : Listed(d)'
  <2>1. CASE \E q \in Reqs : Removing(q) /\ (WriteRole(q) \/ WriteStatus(q))
    <3>1. PICK q \in Reqs : Removing(q) /\ (WriteRole(q) \/ WriteStatus(q))
      BY <2>1
    <3>2. PICK d \in Contacts \ {req[q].target} : Listed(d)
      BY <1>1, <3>1 DEF AdminInv
    <3>3. grant'[d] = grant[d]
      BY <1>0, <3>1, <3>2, WriteIsLocal
    <3> QED
      BY <1>1, <3>2, <3>3, ListedStays
  <2>2. CASE ~\E q \in Reqs : Removing(q) /\ (WriteRole(q) \/ WriteStatus(q))
    <3>1. PICK d \in Contacts : Listed(d)
      BY <1>1 DEF AdminInv
    <3> QED
      BY <1>1, <2>2, <3>1, ListedStays
  <2> QED
    BY <2>1, <2>2
<1>3. ASSUME NEW q \in Reqs, Removing(q)'
      PROVE  \E d \in Contacts \ {req'[q].target} : Listed(d)'
  <2>0. pc'[q] \in {"write_role", "write_status"}
    BY <1>3 DEF Removing
  <2>1. CASE pc'[q] = pc[q]
    <3>1. req'[q] = req[q] /\ Removing(q)
      BY <1>0, <1>3, <2>0, <2>1, OwnStep DEF Removing
    <3>2. PICK d \in Contacts \ {req[q].target} : Listed(d)
      BY <1>1, <3>1 DEF AdminInv
    <3>3. ASSUME NEW p \in Reqs, WriteRole(p) \/ WriteStatus(p) PROVE grant'[d] = grant[d]
      <4>1. p # q
        BY <1>0, <2>0, <2>1, <3>3 DEF WriteRole, WriteStatus, Return, Goto, TypeOK
      <4> QED
        BY <2>0, <2>1, <3>3, <4>1 DEF WriteRole, WriteStatus, Crossing
    <3>4. Listed(d)'
      BY <1>1, <3>2, <3>3, ListedStays
    <3> QED
      BY <3>1, <3>2, <3>4
  <2>2. CASE pc'[q] # pc[q]
    <3>1. /\ LoadGrant(q) /\ pc'[q] = WriteStep(req[q].op)
          \/ CountAdmins(q)
      BY <1>0, <2>0, <2>2, Moves DEF Move
    <3>2. pc[q] # "idle" /\ UNCHANGED <<contacts, grant, req>>
      BY <3>1 DEF LoadGrant, CountAdmins, directory
    <3>3. SUFFICES \E d \in Contacts \ {req[q].target} : Listed(d)
      BY <3>2 DEF Listed
    <3>4. CASE LoadGrant(q) /\ pc'[q] = WriteStep(req[q].op)
      <4>1. PICK d \in Contacts : Listed(d)
        BY <1>1 DEF AdminInv
      <4>2. ~NeedsAnotherAdmin(q, grant[req[q].target])
        BY <1>0, <2>0, <3>4 DEF LoadGrant, GetGrantByContactID, Return, Goto, TypeOK
      <4>3. ~Listed(req[q].target)
        BY <1>3, <3>2, <3>4, <4>2
        DEF Removing, WriteStep, NeedsAnotherAdmin, Listed
      <4> QED
        BY <4>1, <4>3
    <3>5. CASE CountAdmins(q)
      <4>1. ~(CountActiveAdmins <= 1)
        BY <1>0, <2>0, <3>5 DEF CountAdmins, Return, Goto, TypeOK
      <4>2. PICK d \in ActiveAdmins : d # req[q].target
        BY <4>1, AnotherAdmin
      <4>3. Listed(d) /\ d \in Contacts
        BY <1>0, <1>1, AdminIsListed DEF ActiveAdmins
      <4> QED
        BY <4>2, <4>3
    <3> QED
      BY <3>1, <3>4, <3>5
  <2> QED
    BY <2>1, <2>2
<1> QED
  BY <1>2, <1>3

\* The team list keeps an active admin through any demotions and suspensions,
\* as long as no two of them cross and no archive races an invite.
THEOREM LastAdminKeptHolds == Spec => []LastAdminKept
<1>1. Init => AdminInv
  <2> SUFFICES ASSUME Init PROVE AdminInv
    OBVIOUS
  <2>1. PICK c \in Founders : TRUE
    BY ConstantsAssumption
  <2>2. c \in Contacts /\ Listed(c)
    BY <2>1 DEF Init, Listed, Contacts
  <2>3. \A q \in Reqs : ~Removing(q)
    BY DEF Init, Removing
  <2> QED
    BY <2>2, <2>3 DEF AdminInv
<1>2. AdminInv => LastAdminKept
  <2>1. \A d \in Contacts : Listed(d) => d \in ActiveAdmins \cap ListTeamMembers
    <3> SUFFICES ASSUME NEW d \in Contacts, Listed(d)
                 PROVE  d \in ActiveAdmins \cap ListTeamMembers
      OBVIOUS
    <3>1. grant[d] # NoGrant
      BY DEF Listed, NoGrant
    <3> QED
      BY <3>1 DEF Listed, ActiveAdmins, ListTeamMembers, ListContactsByCompany
  <2> QED
    BY <2>1 DEF AdminInv, LastAdminKept
<1> QED
  BY <1>1, <1>2, ArchiveInvariant, AdminStep, PTL DEF Spec
------------------------------------------------------------------------------
\* A ZITADEL user is made and removed by its own invite.
LEMMA UserChanges ==
  ASSUME TypeOK, [Next]_vars, NEW c \in Contacts, user'[c] # user[c]
  PROVE  /\ c \in Reqs
         /\ \/ AddUser(c) /\ user'[c] = "live"
            \/ RemoveUser(c) /\ user'[c] = "removed"
<1>1. PICK q \in Reqs : AddUser(q) \/ RemoveUser(q)
  BY DEF Next, Serve, vars, directory, Arrive, Resolve, Activate, ListRows, CheckEmail,
         InsertContact, InsertGrant, LoadContact, LoadGrant, CountAdmins, WriteRole,
         WriteStatus, UpdateRow, HasGrant, ArchiveRow
<1> QED
  BY <1>1 DEF AddUser, RemoveUser, TypeOK

\* A logged orphan stays logged.
LEMMA OrphansGrow ==
  ASSUME [Next]_vars
  PROVE  orphans \subseteq orphans'
  BY DEF Next, Serve, vars, directory, Arrive, Resolve, Activate, ListRows, CheckEmail, AddUser,
         InsertContact, InsertGrant, RemoveUser, LoadContact, LoadGrant, CountAdmins,
         WriteRole, WriteStatus, UpdateRow, HasGrant, ArchiveRow

\* The insert of the grant and the answer agree when no outcome is unknown.
LEMMA GrantCommits ==
  ASSUME "lost" \notin Outcomes, TypeOK, CallInv, NEW q \in Reqs, InsertGrant(q),
         grant[q] = NoGrant
  PROVE  grant'[q] # NoGrant <=> pc'[q] = "done"
<1>1. PICK o \in Outcomes :
        /\ grant' = IF Landed(o)
                    THEN CreateWorkspaceGrant(q, req[q].role, "not_signed_in_yet")
                    ELSE grant
        /\ pc'[q] = IF o = "ok" THEN "done" ELSE "remove_user"
  BY DEF InsertGrant, Return, Goto, TypeOK
<1>2. CASE o = "ok"
  <2>1. grant'[q].status = "not_signed_in_yet"
    BY <1>1, <1>2 DEF Landed, CreateWorkspaceGrant, TypeOK, Contacts
  <2> QED
    BY <1>1, <1>2, <2>1 DEF NoGrant
<1>3. CASE o # "ok"
  <2>1. grant' = grant
    BY <1>1, <1>3, ConstantsAssumption DEF Landed
  <2> QED
    BY <1>1, <1>3, <2>1
<1> QED
  BY <1>2, <1>3

\* Each way out of InviteMember keeps the books of user, contact and grant.
LEMMA InviteStep ==
  ASSUME "lost" \notin Outcomes
  PROVE  BaseInv /\ RowInv /\ InviteInv /\ [Next]_vars => InviteInv'
<1> SUFFICES ASSUME TypeOK, CallInv, MemberInv, RowInv, InviteInv, [Next]_vars,
                    NEW q \in Reqs
             PROVE  /\ grant'[q] # NoGrant => pc'[q] = "done"
                    /\ req'[q].op = "invite" /\ pc'[q] = "done" => grant'[q] # NoGrant
                    /\ \/ pc'[q] \in {"insert_grant", "remove_user"}
                       \/ pc'[q] = "insert_contact" /\ req'[q].op = "invite"
                       \/ grant'[q] # NoGrant
                       => user'[q] = "live"
                    /\ user'[q] = "live" =>
                          /\ pc'[q] # "idle" /\ req'[q].op = "invite"
                          /\ \/ pc'[q] \in {"insert_contact", "insert_grant", "remove_user", "done"}
                             \/ q \in orphans'
  BY DEF BaseInv, InviteInv
<1>0. q \in Contacts
  BY DEF Contacts
<1>1. pc[q] = "insert_grant" => grant[q] = NoGrant
  BY DEF RowInv
<1>2. ASSUME grant'[q] # NoGrant PROVE pc'[q] = "done"
  <2>1. CASE grant[q] # NoGrant
    BY <2>1, Moves DEF InviteInv, Move
  <2>2. CASE grant[q] = NoGrant
    BY <1>0, <1>2, <2>2, GrantAppears, GrantCommits
  <2> QED
    BY <2>1, <2>2
<1>3. ASSUME req'[q].op = "invite", pc'[q] = "done" PROVE grant'[q] # NoGrant
  <2>1. CASE pc[q] = "done"
    BY <1>0, <1>3, <2>1, OwnStep, GrantStays DEF InviteInv
  <2>2. CASE pc[q] # "done"
    <3>1. pc[q] # "idle" /\ req'[q] = req[q]
      BY <1>3, <2>2, Moves, OwnStep DEF Move
    <3>2. InsertGrant(q) /\ pc[q] = "insert_grant"
      BY <1>3, <2>2, <3>1, Moves DEF Move, CallInv, WriteStep
    <3> QED
      BY <1>1, <1>3, <3>2, GrantCommits
  <2> QED
    BY <2>1, <2>2
<1>4. ASSUME user[q] = "live", pc[q] # "remove_user" PROVE user'[q] = "live"
  BY <1>0, <1>4, UserChanges DEF RemoveUser
<1>5. ASSUME \/ pc'[q] \in {"insert_grant", "remove_user"}
             \/ pc'[q] = "insert_contact" /\ req'[q].op = "invite"
      PROVE  user'[q] = "live"
  <2>1. CASE pc'[q] = pc[q]
    <3>1. user[q] = "live"
      BY <1>5, <2>1, OwnStep DEF InviteInv
    <3>2. ~RemoveUser(q)
      BY <2>1 DEF RemoveUser, Goto, TypeOK
    <3> QED
      BY <1>0, <3>1, <3>2, UserChanges
  <2>2. CASE pc'[q] # pc[q] /\ pc'[q] \in {"insert_grant", "remove_user"}
    <3>1. \/ pc[q] = "insert_grant"
          \/ InsertContact(q) /\ pc[q] = "insert_contact"
      BY <2>2, Moves DEF Move, WriteStep
    <3>2. InsertContact(q) => req[q].op = "invite"
      BY <2>2 DEF InsertContact, Abandon, Return, Goto, TypeOK
    <3> QED
      BY <1>4, <3>1, <3>2 DEF InviteInv
  <2>3. CASE pc'[q] # pc[q] /\ pc'[q] = "insert_contact" /\ req'[q].op = "invite"
    <3>1. pc[q] # "idle" /\ req'[q] = req[q]
      BY <2>3, Moves, OwnStep DEF Move
    <3>2. AddUser(q)
      BY <2>3, <3>1, Moves DEF Move, WriteStep
    <3> QED
      BY <1>0, <2>3, <3>2 DEF AddUser, Landed, Return, Goto, TypeOK
  <2> QED
    BY <1>5, <2>1, <2>2, <2>3
<1>6. ASSUME grant'[q] # NoGrant PROVE user'[q] = "live"
  <2>1. CASE grant[q] # NoGrant
    BY <1>4, <2>1 DEF InviteInv
  <2>2. CASE grant[q] = NoGrant
    <3>1. InsertGrant(q)
      BY <1>0, <1>6, <2>2, GrantAppears
    <3> QED
      BY <1>4, <3>1 DEF InsertGrant, InviteInv
  <2> QED
    BY <2>1, <2>2
<1>7. ASSUME user'[q] = "live"
      PROVE  /\ pc'[q] # "idle" /\ req'[q].op = "invite"
             /\ \/ pc'[q] \in {"insert_contact", "insert_grant", "remove_user", "done"}
                \/ q \in orphans'
  <2>1. CASE user[q] # "live"
    <3>1. AddUser(q)
      BY <1>0, <1>7, <2>1, UserChanges
    <3> QED
      BY <1>7, <2>1, <3>1, ConstantsAssumption
      DEF AddUser, Landed, Return, Goto, TypeOK, CallInv
  <2>2. CASE user[q] = "live"
    <3>1. pc[q] # "idle" /\ req'[q] = req[q] /\ req[q].op = "invite"
      BY <2>2, OwnStep DEF InviteInv
    <3>2. pc'[q] # "idle"
      BY <3>1, Moves DEF Move, WriteStep
    <3>3. CASE q \in orphans
      BY <3>1, <3>2, <3>3, OrphansGrow
    <3>4. CASE pc[q] \in {"insert_contact", "insert_grant", "done"}
      BY <3>1, <3>4, Moves DEF Move
    <3>5. CASE pc[q] = "remove_user" /\ pc'[q] # pc[q]
      <4>1. RemoveUser(q)
        BY <3>5, OwnStep
        DEF Serve, Arrive, Resolve, Activate, ListRows, CheckEmail, AddUser, InsertContact,
            InsertGrant, LoadContact, LoadGrant, CountAdmins, WriteRole, WriteStatus,
            UpdateRow, HasGrant, ArchiveRow
      <4>2. q \in orphans'
        BY <1>0, <1>7, <4>1 DEF RemoveUser, Landed, TypeOK
      <4> QED
        BY <3>1, <3>2, <4>2
    <3> QED
      BY <2>2, <3>1, <3>2, <3>3, <3>4, <3>5 DEF InviteInv
  <2> QED
    BY <2>1, <2>2
<1> QED
  BY <1>2, <1>3, <1>5, <1>6, <1>7

\* The founders' users are nobody's to remove.
FounderInv == \A c \in Founders : user[c] = "live"

\* A step removes the user of its own invite only.
LEMMA FounderStep == TypeOK /\ FounderInv /\ [Next]_vars => FounderInv'
  BY ConstantsAssumption, UserChanges DEF FounderInv, Contacts

\* A failed invite leaves nothing behind but what it logged, a successful one
\* leaves all it answered with, and no grant is backed by a removed user.
THEOREM InviteCleansUpHolds ==
  ASSUME "lost" \notin Outcomes
  PROVE  Spec => []InviteCleansUp
<1>1. Init => InviteInv /\ FounderInv
  BY ConstantsAssumption DEF Init, InviteInv, FounderInv, Contacts, NoCall
<1>2. RowInv /\ InviteInv /\ FounderInv => InviteCleansUp
  BY DEF RowInv, InviteInv, FounderInv, InviteCleansUp, Contacts
<1>3. BaseInv => TypeOK
  BY DEF BaseInv
<1> QED
  BY <1>1, <1>2, <1>3, RowInvariant, InviteStep, FounderStep, PTL DEF Spec
==============================================================================
