------------------------------ MODULE Companies ------------------------------
(***************************************************************************)
(* The companies service (internal/companies/handler.go): customer         *)
(* companies with one ZITADEL organisation each, made before the row, and  *)
(* the MSP's own row, which the generic procedures must not touch and      *)
(* whose rename is carried over to ZITADEL.  Each handler is a sequence of *)
(* SQL statements and ZITADEL calls without a transaction.                 *)
(*                                                                         *)
(* A company is named by the request that creates it, and its organisation *)
(* too.  Of the columns only the name and archived_at are modelled; owner  *)
(* and address are written by the same statements as the name, and a bad   *)
(* owner id is an error of the statement.                                  *)
(***************************************************************************)
EXTENDS Naturals, FiniteSets

CONSTANTS
    Reqs,          \* the requests
    Customers,     \* customer companies that are there from the start
    Msp,           \* the company with is_workspace_owner = TRUE
    Names,         \* company names
    NoName,        \* no row, no organisation
    Outcomes,      \* how a remote call may end: "ok", "error" or "lost"
    MaxConcurrent  \* bound on the requests served at a time

ASSUME ConstantsAssumption ==
    /\ Msp \notin Reqs \cup Customers /\ Reqs \cap Customers = {}
    /\ NoName \notin Names
    /\ Outcomes \subseteq {"ok", "error", "lost"}
    /\ MaxConcurrent \in Nat

Companies == Reqs \cup Customers \cup {Msp}

VARIABLES
    companies,\* companies[c]: the companies row of c: its state and its name
    org,      \* org[c]: the name of its ZITADEL organisation, NoName without one
    logged,   \* requests that logged an organisation left without its row or
              \* a name not carried over
    crossed,  \* history: renames that were under way together with another one
    wrote,    \* history: requests that changed a companies row
    req,      \* req[q]: the procedure and arguments of request q
    pc        \* pc[q]: where request q is

vars == <<companies, org, logged, crossed, wrote, req, pc>>

NoCall == [op |-> "none", target |-> "none", name |-> NoName]

Calls(q) ==
    [op : {"create"}, target : {q}, name : Names]
    \cup [op : {"rename"}, target : {Msp}, name : Names]
    \cup [op : {"update"}, target : Companies, name : Names]
    \cup [op : {"archive", "restore"}, target : Companies, name : {NoName}]
    \cup [op : {"list", "get_workspace"}, target : {Msp}, name : {NoName}]
    \cup [op : {"get"}, target : Companies, name : {NoName}]

Outside == {"idle", "refused", "done"}

Steps == Outside \cup
    {"require_ready", "add_organization", "create_row", "update_row",
     "explain", "get_active", "archive_row", "get_any", "restore_row", "hydrate",
     "update_workspace", "rename_org", "list", "get", "get_workspace"}

Rows == [state : {"absent", "active", "archived"}, name : Names \cup {NoName}]
NoRow == [state |-> "absent", name |-> NoName]

TypeOK ==
    /\ companies \in [Companies -> Rows]
    /\ org \in [Companies -> Names \cup {NoName}]
    /\ logged \subseteq Reqs
    /\ crossed \subseteq Reqs /\ wrote \subseteq Reqs
    /\ req \in [Reqs -> {NoCall} \cup UNION {Calls(q) : q \in Reqs}]
    /\ pc \in [Reqs -> Steps]

\* A workspace in use: the MSP and its customers, with their organisations.
Init ==
    /\ \E n \in Names, state \in {"active", "archived"} :
          /\ companies = [c \in Companies |->
                CASE c = Msp          -> [state |-> "active", name |-> n]
                  [] c \in Customers -> [state |-> state, name |-> n]
                  [] OTHER            -> NoRow]
          /\ org = [c \in Companies |-> IF c \in Reqs THEN NoName ELSE n]
    /\ logged = {}
    /\ crossed = {} /\ wrote = {}
    /\ req = [q \in Reqs |-> NoCall]
    /\ pc = [q \in Reqs |-> "idle"]

Goto(q, step) == pc' = [pc EXCEPT ![q] = step]

Landed(o) == o # "error"
Return(q, o, next, onError) == Goto(q, IF o = "ok" THEN next ELSE onError)

------------------------------------------------------------------------------
(* Mistakes in a WHERE clause, each caught by a property.                    *)

\* UpdateCompany by id alone.
UpdateCompanyById(c, n) ==
    IF companies[c] # NoRow THEN [companies EXCEPT ![c].name = n] ELSE companies

\* UpdateCompany that spares the MSP row but not the archived ones.
UpdateCompanyArchived(c, n) ==
    IF c # Msp /\ companies[c] # NoRow THEN [companies EXCEPT ![c].name = n]
    ELSE companies

\* RestoreCompany with a state the row does not have.
RestoreCompanyUntyped(c) == [companies EXCEPT ![c].state = "restored"]

------------------------------------------------------------------------------
(* The SQL statements: reads as values, updates as the new table.  An UPDATE *)
(* whose WHERE clause matches no row leaves the table as it is.              *)

\* The list shows archived rows too.
ListCompanies == {c \in Companies \ {Msp} : companies[c] # NoRow}
GetCompany(c) == IF companies[c].state = "active" THEN companies[c] ELSE NoRow
GetCompanyIncludingArchived(c) == companies[c]
GetWorkspaceCompany == companies[Msp]

\* The WHERE clause of UpdateCompany and ArchiveCompany.
ActiveCustomers == {c \in ListCompanies : companies[c].state = "active"}

CreateCompany(c, n) == [companies EXCEPT ![c] = [state |-> "active", name |-> n]]
UpdateWorkspaceCompany(n) == [companies EXCEPT ![Msp].name = n]
UpdateCompany(c, n) ==
    IF c \in ActiveCustomers THEN [companies EXCEPT ![c].name = n] ELSE companies
ArchiveCompany(c) ==
    IF c \in ActiveCustomers THEN [companies EXCEPT ![c].state = "archived"] ELSE companies
RestoreCompany(c) ==
    IF companies[c].state = "archived" /\ c # Msp
    THEN [companies EXCEPT ![c].state = "active"] ELSE companies

\* Request q runs the UPDATE or INSERT that makes the table `table'.
Write(q, o, table) ==
    /\ companies' = IF Landed(o) THEN table ELSE companies
    /\ wrote' = IF companies' # companies THEN wrote \cup {q} ELSE wrote

\* The handler's first statement after requireReady.
FirstStep(op) ==
    CASE op = "create"  -> "add_organization"
      [] op = "update"  -> "update_row"
      [] op = "archive" -> "get_active"
      [] op = "restore" -> "get_any"
      [] op = "rename"  -> "update_workspace"
      [] OTHER          -> op

\* The renames between their two writes.
Renaming == {q \in Reqs : pc[q] = "rename_org"}

------------------------------------------------------------------------------
(* Plausible mistakes, each caught by a property.                            *)

\* CreateCompany that fails without a word about the organisation it made.
CreateRowSilent(q) ==
    /\ pc[q] = "create_row"
    /\ \E o \in Outcomes :
          /\ Write(q, o, CreateCompany(q, req[q].name))
          /\ Return(q, o, "hydrate", "refused")
    /\ UNCHANGED <<org, logged, crossed, req>>

\* A rename that is carried over only to an organisation without a name.
RenameOrgIfBlank(q) ==
    /\ pc[q] = "rename_org"
    /\ org' = IF org[Msp] = NoName THEN [org EXCEPT ![Msp] = req[q].name] ELSE org
    /\ Goto(q, "done")
    /\ UNCHANGED <<companies, logged, crossed, wrote, req>>

\* A failed re-fetch answered with an error.
HydrateRefuses(q) ==
    /\ pc[q] = "hydrate"
    /\ \E o \in Outcomes : Return(q, o, "done", "refused")
    /\ UNCHANGED <<companies, org, logged, crossed, wrote, req>>

------------------------------------------------------------------------------
\* An authorized request with well-formed arguments arrives.  A company that
\* does not exist yet is an unknown id to everybody.
Arrive(q) ==
    /\ pc[q] = "idle"
    /\ Cardinality({p \in Reqs : pc[p] \notin Outside}) < MaxConcurrent
    /\ \E call \in Calls(q) :
          /\ companies[call.target] # NoRow \/ call.target = q
          /\ req' = [req EXCEPT ![q] = call]
    /\ Goto(q, "require_ready")
    /\ UNCHANGED <<companies, org, logged, crossed, wrote>>

\* requireReady: the workspace row may say anything, see Install.
RequireReady(q) ==
    /\ pc[q] = "require_ready"
    /\ \E ready \in BOOLEAN :
          Goto(q, IF ready THEN FirstStep(req[q].op) ELSE "refused")
    /\ UNCHANGED <<companies, org, logged, crossed, wrote, req>>

------------------------------------------------------------------------------
(* CreateCompany, UpdateCompany.                                             *)

AddOrganization(q) ==
    /\ pc[q] = "add_organization"
    /\ \E o \in Outcomes :
          /\ org' = IF Landed(o) THEN [org EXCEPT ![q] = req[q].name] ELSE org
          /\ Return(q, o, "create_row", "refused")
    /\ UNCHANGED <<companies, logged, crossed, wrote, req>>

\* The insert; its failure is logged with the organisation's id.
CreateRow(q) ==
    /\ pc[q] = "create_row"
    /\ \E o \in Outcomes :
          /\ Write(q, o, CreateCompany(q, req[q].name))
          /\ logged' = IF o = "ok" THEN logged ELSE logged \cup {q}
          /\ Return(q, o, "hydrate", "refused")
    /\ UNCHANGED <<org, crossed, req>>

\* UPDATE ... RETURNING; when no row matches the error has to be found.
UpdateRow(q) ==
    /\ pc[q] = "update_row"
    /\ \E o \in Outcomes :
          /\ Write(q, o, UpdateCompany(req[q].target, req[q].name))
          /\ Return(q, o, IF req[q].target \in ActiveCustomers THEN "hydrate" ELSE "explain",
                    "refused")
    /\ UNCHANGED <<org, logged, crossed, req>>

\* explainMissingCompany: FailedPrecondition for the MSP row, or NotFound.
Explain(q) ==
    /\ pc[q] = "explain"
    /\ Goto(q, "refused")
    /\ UNCHANGED <<companies, org, logged, crossed, wrote, req>>

\* hydratedCompany: the row is read again for the response; an error is
\* logged and the response goes out without the owner.
Hydrate(q) ==
    /\ pc[q] = "hydrate"
    /\ Goto(q, "done")
    /\ UNCHANGED <<companies, org, logged, crossed, wrote, req>>

------------------------------------------------------------------------------
(* ArchiveCompany, RestoreCompany.                                           *)

\* The active row, and the refusal of the MSP's.
GetActive(q) ==
    LET c == req[q].target IN
    /\ pc[q] = "get_active"
    /\ \E o \in Outcomes :
          Return(q, o, IF GetCompany(c) # NoRow /\ c # Msp THEN "archive_row"
                       ELSE "refused",
                 "refused")
    /\ UNCHANGED <<companies, org, logged, crossed, wrote, req>>

\* The UPDATE; matching no row is no error.
ArchiveRow(q) ==
    /\ pc[q] = "archive_row"
    /\ \E o \in Outcomes :
          /\ Write(q, o, ArchiveCompany(req[q].target))
          /\ Return(q, o, "done", "refused")
    /\ UNCHANGED <<org, logged, crossed, req>>

\* The row, archived or not, and the refusals.
GetAny(q) ==
    LET c == req[q].target IN
    /\ pc[q] = "get_any"
    /\ \E o \in Outcomes :
          Return(q, o, IF GetCompanyIncludingArchived(c).state = "archived" /\ c # Msp
                       THEN "restore_row" ELSE "refused",
                 "refused")
    /\ UNCHANGED <<companies, org, logged, crossed, wrote, req>>

\* The UPDATE ... RETURNING, which fails when no row matches.
RestoreRow(q) ==
    /\ pc[q] = "restore_row"
    /\ \E o \in Outcomes :
          /\ Write(q, o, RestoreCompany(req[q].target))
          /\ Return(q, o, IF RestoreCompany(req[q].target) # companies THEN "hydrate"
                          ELSE "refused",
                    "refused")
    /\ UNCHANGED <<org, logged, crossed, req>>

------------------------------------------------------------------------------
(* UpdateWorkspaceCompany, and the reads.                                    *)

\* The UPDATE of the MSP row.
UpdateWorkspace(q) ==
    /\ pc[q] = "update_workspace"
    /\ \E o \in Outcomes :
          /\ Write(q, o, UpdateWorkspaceCompany(req[q].name))
          /\ crossed' = IF Landed(o) /\ Renaming # {}
                        THEN crossed \cup Renaming \cup {q} ELSE crossed
          /\ Return(q, o, "rename_org", "refused")
    /\ UNCHANGED <<org, logged, req>>

\* RenameOrg, best effort: a failure is logged.
RenameOrg(q) ==
    /\ pc[q] = "rename_org"
    /\ \E o \in Outcomes :
          /\ org' = IF Landed(o) THEN [org EXCEPT ![Msp] = req[q].name] ELSE org
          /\ logged' = IF o = "ok" THEN logged ELSE logged \cup {q}
    /\ Goto(q, "done")
    /\ UNCHANGED <<companies, crossed, wrote, req>>

\* ListCompanies; GetCompany, which shows archived rows too and not the MSP's;
\* GetWorkspaceCompany, whose row is always there.
Read(q) ==
    LET c == req[q].target IN
    /\ \/ pc[q] = "list"
       \/ pc[q] = "get" /\ GetCompanyIncludingArchived(c) # NoRow /\ c # Msp
       \/ pc[q] = "get_workspace"
    /\ \E o \in Outcomes : Return(q, o, "done", "refused")
    /\ UNCHANGED <<companies, org, logged, crossed, wrote, req>>

NotFound(q) ==
    LET c == req[q].target IN
    /\ pc[q] = "get" /\ (GetCompanyIncludingArchived(c) = NoRow \/ c = Msp)
    /\ Goto(q, "refused")
    /\ UNCHANGED <<companies, org, logged, crossed, wrote, req>>

------------------------------------------------------------------------------
Serve(q) ==
    \/ RequireReady(q) \/ AddOrganization(q) \/ CreateRow(q) \/ UpdateRow(q)
    \/ Explain(q) \/ Hydrate(q)
    \/ GetActive(q) \/ ArchiveRow(q) \/ GetAny(q) \/ RestoreRow(q)
    \/ UpdateWorkspace(q) \/ RenameOrg(q) \/ Read(q) \/ NotFound(q)

Next == \E q \in Reqs : Arrive(q) \/ Serve(q)

Spec == Init /\ [][Next]_vars

------------------------------------------------------------------------------
(* Properties.                                                               *)

(***************************************************************************)
(* The eager-org rule of the package comment, both ways: a company row     *)
(* always has its organisation, and, when calls have no unknown outcome,   *)
(* an organisation that a failed CreateCompany left without a row was      *)
(* logged with its id.                                                     *)
(***************************************************************************)
EagerOrg ==
    /\ \A c \in Companies : companies[c] # NoRow => org[c] # NoName
    /\ \A q \in Reqs :
          pc[q] = "refused" /\ org[q] # NoName /\ companies[q] = NoRow => q \in logged

(***************************************************************************)
(* When calls have no unknown outcome, a request that was answered with an *)
(* error changed no company row, whatever failed after the write: the read *)
(* that completes the response and the rename in ZITADEL come later and    *)
(* must not turn success into an error that invites a repetition           *)
(* (hydratedCompany, UpdateWorkspaceCompany).                              *)
(***************************************************************************)
RefusedIsClean == \A q \in Reqs : pc[q] = "refused" => q \notin wrote

(***************************************************************************)
(* An archived company is frozen: an update, an archive or a restore that  *)
(* looked at the row before it was archived changes nothing, and only      *)
(* RestoreCompany brings it back (the WHERE clauses in companies.sql).     *)
(***************************************************************************)
ArchivedIsFrozen ==
    [][\A c \in Companies : companies[c].state = "archived" =>
          /\ companies'[c].name = companies[c].name
          /\ \/ companies'[c].state = "archived"
             \/ \E q \in Reqs : pc[q] = "restore_row" /\ req[q].target = c]_vars

(***************************************************************************)
(* The MSP row is never archived, and only UpdateWorkspaceCompany, which   *)
(* is for admins, renames it; UpdateCompany, which every member may call,  *)
(* relies on its WHERE clause alone for that.                              *)
(***************************************************************************)
WorkspaceRowGuarded ==
    [][/\ companies'[Msp].state = "active"
       /\ GetWorkspaceCompany' # GetWorkspaceCompany =>
             \E q \in Reqs : pc[q] = "update_workspace"]_vars

(***************************************************************************)
(* A workspace rename that no other one crosses ends with the same name in *)
(* the database and in ZITADEL, or with a warning in the log, whatever     *)
(* failed or crossed renames before it left (UpdateWorkspaceCompany).      *)
(***************************************************************************)
RenameHeals ==
    [][\A q \in Reqs :
          /\ pc[q] = "rename_org" /\ pc'[q] = "done"
          /\ q \notin crossed /\ q \notin logged'
          => org'[Msp] = GetWorkspaceCompany'.name]_vars
==============================================================================
