------------------------------- MODULE Install -------------------------------
(***************************************************************************)
(* First-run provisioning of a gospa workspace.                            *)
(*                                                                         *)
(* POST /install (internal/install/handler.go) checks the workspace row,   *)
(* takes the in-process single-flight flag, marks the row `provisioning'   *)
(* and starts a goroutine that runs the orchestrator                       *)
(* (internal/install/orchestrator.go): it creates an organisation, a       *)
(* project and an OIDC application in ZITADEL, persists their ids,         *)
(* materialises the MSP company, its admin contact and the admin's grant,  *)
(* marks the row `ready' and activates the auth gate.  Every one of these  *)
(* is a remote call that may fail before or after it took effect, the      *)
(* process may die between any two of them, and other requests run in      *)
(* between.                                                                *)
(*                                                                         *)
(* A request creates at most one organisation, so the organisation, the    *)
(* project, the application, the admin user and the rows made for it are   *)
(* all named by the request that made them.                                *)
(***************************************************************************)
EXTENDS Naturals, FiniteSets

CONSTANTS
    Reqs,        \* the POST /install requests
    Procs,       \* the server processes (replicas), normally one
    On,          \* On[r]: the process that serves request r
    NoOrg,       \* a NULL column, an auth gate without a verifier
    Outcomes,    \* how a remote call may end, see below
    MaxCrashes   \* bound on the number of crashes

(***************************************************************************)
(* "ok": the call took effect and the caller knows.  "error": it had no    *)
(* effect and the caller got an error.  "lost": it took effect, yet the    *)
(* caller got an error (a timeout, a dropped connection).                  *)
(***************************************************************************)
ASSUME ConstantsAssumption ==
    /\ On \in [Reqs -> Procs]
    /\ NoOrg \notin Reqs
    /\ Outcomes \subseteq {"ok", "error", "lost"}
    /\ MaxCrashes \in Nat

VARIABLES
    ws,        \* the workspace singleton row: install_state and the zitadel_* ids
    orgs,      \* orgs[r]: how far the organisation of r got in ZITADEL
    company,   \* the companies rows with is_workspace_owner = TRUE
    contact,   \* the admin contacts made by install runs
    grant,     \* the admin workspace_grants rows made by install runs
    reported,  \* the runs whose error names an organisation to look after:
               \* SetUpOrg failed, or the cleanup did
    up,        \* up[p]: process p is serving
    inflight,  \* inflight[p]: Handler.inflight of process p
    gate,      \* gate[p]: the audience p's auth gate verifies, NoOrg when inactive
    pc,        \* pc[r]: where request r is
    crashes    \* crashes so far

vars == <<ws, orgs, company, contact, grant, reported,
          up, inflight, gate, pc, crashes>>

WsStates == {"not_initialized", "provisioning", "ready", "failed"}

\* Where Install is before it starts the orchestrator.
HandlerSteps == {"idle", "read_row", "take_flight", "mark_provisioning"}

\* Where Orchestrator.Run is, and the deferred inflight = false after it.
RunSteps == {"create_org", "create_project", "create_oidc_app", "persist_ids",
             "insert_company", "insert_contact", "insert_grant",
             "mark_ready", "on_ready", "remove_org", "mark_failed", "release"}

\* A request that is over: refused by the handler, run to its end, or gone
\* with its process.
FinalSteps == {"refused", "ended", "dead"}

Steps == HandlerSteps \cup RunSteps \cup FinalSteps

\* The steps at which a request holds its process's inflight flag.
Holding == {"mark_provisioning"} \cup RunSteps

LiveOrg == {"org", "project", "app"}

TypeOK ==
    /\ ws \in [state : WsStates, org : Reqs \cup {NoOrg}]
    /\ orgs \in [Reqs -> {"absent", "removed"} \cup LiveOrg]
    /\ company \subseteq Reqs
    /\ contact \subseteq Reqs
    /\ grant \subseteq Reqs
    /\ reported \subseteq Reqs
    /\ up \in [Procs -> BOOLEAN]
    /\ inflight \in [Procs -> BOOLEAN]
    /\ gate \in [Procs -> Reqs \cup {NoOrg}]
    /\ pc \in [Reqs -> Steps]
    /\ crashes \in 0..MaxCrashes

\* A migrated database with its seeded workspace row, freshly started processes.
Init ==
    /\ ws = [state |-> "not_initialized", org |-> NoOrg]
    /\ orgs = [r \in Reqs |-> "absent"]
    /\ company = {}
    /\ contact = {}
    /\ grant = {}
    /\ reported = {}
    /\ up = [p \in Procs |-> TRUE]
    /\ inflight = [p \in Procs |-> FALSE]
    /\ gate = [p \in Procs |-> NoOrg]
    /\ pc = [r \in Reqs |-> "idle"]
    /\ crashes = 0

database == <<company, contact, grant>>
process  == <<up, inflight, gate, crashes>>

At(r, step) == pc[r] = step /\ up[On[r]]

Goto(r, step) == pc' = [pc EXCEPT ![r] = step]

\* The remote call of this step ends with outcome o: "error" is a refusal, "lost"
\* an answer that does not arrive or cannot be decoded (HTTPClient.post).
Landed(o) == o # "error"
Return(r, o, next, onError) == Goto(r, IF o = "ok" THEN next ELSE onError)

(***************************************************************************)
(* The statements on the singleton row, one UPDATE each, and the insert of *)
(* the owner company (db/sqlc): the value a statement that lands leaves.   *)
(***************************************************************************)
GetWorkspace              == ws
MarkWorkspaceProvisioning == [ws EXCEPT !.state = "provisioning"]
MarkWorkspaceReady        == [ws EXCEPT !.state = "ready"]
MarkWorkspaceFailed       == [ws EXCEPT !.state = "failed"]
PersistZitadelIDs(r)      == [ws EXCEPT !.org = r]
CreateWorkspaceCompany(r) == company \cup {r}

\* installtoken.Equal: an empty token matches nothing, not even another one.
Equal(provided, expected) == provided # "" /\ expected # "" /\ provided = expected

\* What validateInstallRequest looks at, and the verdict.
Bodies == [workspace_name : BOOLEAN, email : BOOLEAN, password_8 : BOOLEAN]
validateInstallRequest(b) == b.workspace_name /\ b.email /\ b.password_8

------------------------------------------------------------------------------
(* Plausible mistakes in the actions below, each caught by a property.       *)

\* Install without its single-flight check.
TakeFlightUnchecked(r) ==
    /\ At(r, "take_flight")
    /\ inflight' = [inflight EXCEPT ![On[r]] = TRUE]
    /\ Goto(r, "mark_provisioning")
    /\ UNCHANGED <<ws, orgs, database, reported, up, gate, crashes>>

\* Install that keeps the flag when MarkWorkspaceProvisioning fails.
MarkProvisioningKeepsFlight(r) ==
    /\ At(r, "mark_provisioning")
    /\ \E o \in Outcomes :
          /\ ws' = IF Landed(o) THEN MarkWorkspaceProvisioning ELSE ws
          /\ Return(r, o, "create_org", "refused")
    /\ UNCHANGED <<orgs, database, reported, process>>

\* companies without the partial unique index on is_workspace_owner.
InsertCompanyUnindexed(r) ==
    /\ At(r, "insert_company")
    /\ \E o \in Outcomes :
          /\ company' = IF Landed(o) THEN CreateWorkspaceCompany(r) ELSE company
          /\ Return(r, o, "insert_contact", "remove_org")
    /\ UNCHANGED <<ws, orgs, contact, grant, reported, process>>

\* INSERT ... ON CONFLICT DO NOTHING for the company, taken for success.
InsertCompanyOnConflict(r) ==
    /\ At(r, "insert_company")
    /\ company' = IF company = {} THEN {r} ELSE company
    /\ Goto(r, "insert_contact")
    /\ UNCHANGED <<ws, orgs, contact, grant, reported, process>>

\* A failed CreateContact that returns without the cleanup in fail.
InsertContactNoCleanup(r) ==
    /\ At(r, "insert_contact")
    /\ \E o \in Outcomes :
          /\ contact' = IF Landed(o) THEN contact \cup {r} ELSE contact
          /\ Return(r, o, "insert_grant", "mark_failed")
    /\ UNCHANGED <<ws, orgs, company, grant, reported, process>>

\* An OnReady error that fails the install it comes after.
OnReadyFails(r) ==
    /\ At(r, "on_ready")
    /\ \E o \in Outcomes :
          /\ gate' = IF o = "ok" THEN [gate EXCEPT ![On[r]] = r] ELSE gate
          /\ Return(r, o, "release", "remove_org")
    /\ UNCHANGED <<ws, orgs, database, reported, up, inflight, crashes>>

\* A run that claims the single-flight flag a second time and waits for it.
PersistIDsWaits(r) ==
    /\ At(r, "persist_ids")
    /\ ~inflight[On[r]]
    /\ ws' = PersistZitadelIDs(r)
    /\ Goto(r, "insert_company")
    /\ UNCHANGED <<orgs, database, reported, process>>

\* MarkWorkspaceFailed with a state the column's type does not have.
MarkFailedUntyped(r) ==
    /\ At(r, "mark_failed")
    /\ ws' = [ws EXCEPT !.state = "error"]
    /\ Goto(r, "release")
    /\ UNCHANGED <<orgs, database, reported, process>>

\* Run that returns as soon as the row is ready, without its hook.
MarkReadyReturns(r) ==
    /\ At(r, "mark_ready")
    /\ \E o \in Outcomes :
          /\ ws' = IF Landed(o) THEN MarkWorkspaceReady ELSE ws
          /\ Return(r, o, "release", "remove_org")
    /\ UNCHANGED <<orgs, database, reported, process>>

\* fail that returns when the cleanup failed, before it marks the row.
RemoveOrgReturns(r) ==
    /\ At(r, "remove_org")
    /\ \E o \in Outcomes :
          /\ orgs' = IF Landed(o) THEN [orgs EXCEPT ![r] = "removed"] ELSE orgs
          /\ reported' = IF o = "ok" THEN reported ELSE reported \cup {r}
          /\ Return(r, o, "mark_failed", "release")
    /\ UNCHANGED <<ws, database, process>>

\* main that activates the gate from any persisted contract.
BootUnready(p) ==
    /\ ~up[p]
    /\ gate' = [gate EXCEPT ![p] = ws.org]
    /\ up' = [up EXCEPT ![p] = TRUE]
    /\ UNCHANGED <<ws, orgs, database, reported, inflight, pc, crashes>>

------------------------------------------------------------------------------
(* The Install handler.                                                      *)

\* The request reaches its process; a wrong install token or a malformed
\* body is refused before anything is read.
Arrive(r) ==
    /\ At(r, "idle")
    /\ \E provided \in {"", "token", "other"}, b \in Bodies :
          Goto(r, IF Equal(provided, "token") /\ validateInstallRequest(b)
                  THEN "read_row" ELSE "refused")
    /\ UNCHANGED <<ws, orgs, database, reported, process>>

Eligible(state) == state \in {"not_initialized", "failed"}

\* GetWorkspace and the eligibility check on what it returned.
ReadRow(r) ==
    /\ At(r, "read_row")
    /\ \E o \in Outcomes :
          Return(r, o, IF Eligible(GetWorkspace.state) THEN "take_flight"
                       ELSE "refused",
                 "refused")
    /\ UNCHANGED <<ws, orgs, database, reported, process>>

\* The single-flight guard, one critical section of Handler.mu.
TakeFlight(r) ==
    /\ At(r, "take_flight")
    /\ inflight' = [inflight EXCEPT ![On[r]] = TRUE]
    /\ Goto(r, IF inflight[On[r]] THEN "refused" ELSE "mark_provisioning")
    /\ UNCHANGED <<ws, orgs, database, reported, up, gate, crashes>>

\* MarkWorkspaceProvisioning; on an error the flag is cleared and the RPC
\* fails, otherwise the orchestrator goroutine starts.
MarkProvisioning(r) ==
    /\ At(r, "mark_provisioning")
    /\ \E o \in Outcomes :
          /\ ws' = IF Landed(o) THEN MarkWorkspaceProvisioning ELSE ws
          /\ inflight' = [inflight EXCEPT ![On[r]] = (o = "ok")]
          /\ Return(r, o, "create_org", "refused")
    /\ UNCHANGED <<orgs, database, reported, up, gate, crashes>>

------------------------------------------------------------------------------
(* Orchestrator.Run.  A failed step goes to remove_org when createdOrgID is  *)
(* known, which it is after SetUpOrg returned.                               *)

\* Steps 1 and 2, SetUpOrg: a failure leaves no id to clean up with, only
\* the error that names the step.
CreateOrg(r) ==
    /\ At(r, "create_org")
    /\ \E o \in Outcomes :
          /\ orgs' = IF Landed(o) THEN [orgs EXCEPT ![r] = "org"] ELSE orgs
          /\ reported' = IF o = "ok" THEN reported ELSE reported \cup {r}
          /\ Return(r, o, "create_project", "mark_failed")
    /\ UNCHANGED <<ws, database, process>>

CreateProject(r) ==
    /\ At(r, "create_project")
    /\ \E o \in Outcomes :
          /\ orgs' = IF Landed(o) THEN [orgs EXCEPT ![r] = "project"] ELSE orgs
          /\ Return(r, o, "create_oidc_app", "remove_org")
    /\ UNCHANGED <<ws, database, reported, process>>

CreateOIDCApp(r) ==
    /\ At(r, "create_oidc_app")
    /\ \E o \in Outcomes :
          /\ orgs' = IF Landed(o) THEN [orgs EXCEPT ![r] = "app"] ELSE orgs
          /\ Return(r, o, "persist_ids", "remove_org")
    /\ UNCHANGED <<ws, database, reported, process>>

\* PersistZitadelIDs writes the ids and the contract DeriveFresh made of
\* them, all seven columns of one row in one UPDATE.
PersistIDs(r) ==
    /\ At(r, "persist_ids")
    /\ \E o \in Outcomes :
          /\ ws' = IF Landed(o) THEN PersistZitadelIDs(r) ELSE ws
          /\ Return(r, o, "insert_company", "remove_org")
    /\ UNCHANGED <<orgs, database, reported, process>>

\* CreateWorkspaceCompany: companies_one_workspace_owner admits one owner
\* row, whoever inserted it.
InsertCompany(r) ==
    /\ At(r, "insert_company")
    /\ \/ /\ company = {}
          /\ \E o \in Outcomes :
                /\ company' = IF Landed(o) THEN CreateWorkspaceCompany(r) ELSE company
                /\ Return(r, o, "insert_contact", "remove_org")
       \/ /\ company # {}
          /\ company' = company
          /\ Goto(r, "remove_org")
    /\ UNCHANGED <<ws, orgs, contact, grant, reported, process>>

InsertContact(r) ==
    /\ At(r, "insert_contact")
    /\ \E o \in Outcomes :
          /\ contact' = IF Landed(o) THEN contact \cup {r} ELSE contact
          /\ Return(r, o, "insert_grant", "remove_org")
    /\ UNCHANGED <<ws, orgs, company, grant, reported, process>>

InsertGrant(r) ==
    /\ At(r, "insert_grant")
    /\ \E o \in Outcomes :
          /\ grant' = IF Landed(o) THEN grant \cup {r} ELSE grant
          /\ Return(r, o, "mark_ready", "remove_org")
    /\ UNCHANGED <<ws, orgs, company, contact, reported, process>>

MarkReady(r) ==
    /\ At(r, "mark_ready")
    /\ \E o \in Outcomes :
          /\ ws' = IF Landed(o) THEN MarkWorkspaceReady ELSE ws
          /\ Return(r, o, "on_ready", "remove_org")
    /\ UNCHANGED <<orgs, database, reported, process>>

\* OnReady is gate.Activate with the contract of this run; OIDC discovery
\* may fail, which is only logged.
OnReady(r) ==
    /\ At(r, "on_ready")
    /\ \E o \in Outcomes :
          gate' = IF o = "ok" THEN [gate EXCEPT ![On[r]] = r] ELSE gate
    /\ Goto(r, "release")
    /\ UNCHANGED <<ws, orgs, database, reported, up, inflight, crashes>>

\* fail, first half: the created org is removed, best effort; the error
\* message tells the operator when that did not work.
RemoveOrg(r) ==
    /\ At(r, "remove_org")
    /\ \E o \in Outcomes :
          /\ orgs' = IF Landed(o) THEN [orgs EXCEPT ![r] = "removed"] ELSE orgs
          /\ reported' = IF o = "ok" THEN reported ELSE reported \cup {r}
    /\ Goto(r, "mark_failed")
    /\ UNCHANGED <<ws, database, process>>

\* fail, second half: MarkWorkspaceFailed, whose own error is only logged.
MarkFailed(r) ==
    /\ At(r, "mark_failed")
    /\ \E o \in Outcomes :
          ws' = IF Landed(o) THEN MarkWorkspaceFailed ELSE ws
    /\ Goto(r, "release")
    /\ UNCHANGED <<orgs, database, reported, process>>

\* The goroutine's deferred inflight = false.
Release(r) ==
    /\ At(r, "release")
    /\ inflight' = [inflight EXCEPT ![On[r]] = FALSE]
    /\ Goto(r, "ended")
    /\ UNCHANGED <<ws, orgs, database, reported, up, gate, crashes>>

------------------------------------------------------------------------------
(* The process.                                                              *)

\* The process dies with everything it was doing.
Crash(p) ==
    /\ up[p]
    /\ crashes < MaxCrashes
    /\ crashes' = crashes + 1
    /\ up' = [up EXCEPT ![p] = FALSE]
    /\ inflight' = [inflight EXCEPT ![p] = FALSE]
    /\ gate' = [gate EXCEPT ![p] = NoOrg]
    /\ pc' = [r \in Reqs |-> IF On[r] = p /\ pc[r] \notin FinalSteps \cup {"idle"}
                             THEN "dead" ELSE pc[r]]
    /\ UNCHANGED <<ws, orgs, database, reported>>

\* main: a ready row activates the gate with the persisted contract, and a
\* missing contract or a failed activation ends the process again; every
\* other state, and a row that cannot be read, leaves the gate inactive.
Boot(p) ==
    /\ ~up[p]
    /\ \E o \in Outcomes :
          IF o = "ok" /\ GetWorkspace.state = "ready"
          THEN /\ GetWorkspace.org # NoOrg
               /\ gate' = [gate EXCEPT ![p] = GetWorkspace.org]
          ELSE gate' = [gate EXCEPT ![p] = NoOrg]
    /\ up' = [up EXCEPT ![p] = TRUE]
    /\ UNCHANGED <<ws, orgs, database, reported, inflight, pc, crashes>>

------------------------------------------------------------------------------
Handler(r) == ReadRow(r) \/ TakeFlight(r) \/ MarkProvisioning(r)

Run(r) ==
    \/ CreateOrg(r) \/ CreateProject(r) \/ CreateOIDCApp(r) \/ PersistIDs(r)
    \/ InsertCompany(r) \/ InsertContact(r) \/ InsertGrant(r)
    \/ MarkReady(r) \/ OnReady(r) \/ RemoveOrg(r) \/ MarkFailed(r) \/ Release(r)

Next ==
    \/ \E r \in Reqs : Arrive(r) \/ Handler(r) \/ Run(r)
    \/ \E p \in Procs : Crash(p) \/ Boot(p)

Spec == Init /\ [][Next]_vars

(***************************************************************************)
(* A started request is scheduled until it is over: the Go runtime runs    *)
(* every goroutine, and each remote call returns (the ZITADEL client has a *)
(* 30 s timeout).  A dead process is restarted by its supervisor.  Nobody  *)
(* has to submit the wizard, and nothing has to crash.                     *)
(***************************************************************************)
Fairness ==
    /\ \A r \in Reqs : WF_vars(Handler(r) \/ Run(r))
    /\ \A p \in Procs : WF_vars(Boot(p))

FairSpec == Spec /\ Fairness

------------------------------------------------------------------------------
(* Properties.                                                               *)

(***************************************************************************)
(* The flag Handler.inflight is up exactly while one request of that       *)
(* process is between the guard of Install and the deferred reset, and     *)
(* never for two at once: two orchestrators of one process never overlap.  *)
(***************************************************************************)
SingleFlight ==
    \A p \in Procs :
       /\ inflight[p] <=> \E r \in Reqs : On[r] = p /\ pc[r] \in Holding
       /\ \A r1, r2 \in Reqs :
             /\ On[r1] = p /\ pc[r1] \in Holding
             /\ On[r2] = p /\ pc[r2] \in Holding
             => r1 = r2

(***************************************************************************)
(* Whatever is retried, lost, crashed or run by several replicas at once,  *)
(* the database never holds the company, the admin contact or the admin    *)
(* grant of two different runs: there is one bootstrap admin               *)
(* (Orchestrator.Run step 5b over companies_one_workspace_owner).          *)
(***************************************************************************)
OneBootstrapAdmin ==
    /\ \A r1, r2 \in company : r1 = r2
    /\ contact \subseteq company
    /\ grant \subseteq contact

(***************************************************************************)
(* With one process, a workspace row that says `ready' carries the ids of  *)
(* the very run that made the MSP company, its admin contact and the admin *)
(* grant, also when delayed requests and failed runs overwrote the row     *)
(* before (Orchestrator.Run, MarkWorkspaceReady, PersistZitadelIDs).       *)
(***************************************************************************)
ReadyIsComplete ==
    ws.state = "ready" =>
       /\ company = {ws.org}
       /\ ws.org \in contact
       /\ ws.org \in grant

(***************************************************************************)
(* With one process whose calls have no unknown outcome, the organisation  *)
(* a `ready' workspace signs in to still exists with its application: the  *)
(* compensation in `fail' never removes it.                                *)
(***************************************************************************)
ReadyOrgLives ==
    ws.state = "ready" => ws.org \in Reqs /\ orgs[ws.org] = "app"

(***************************************************************************)
(* With one process, an active auth gate verifies the audience of the      *)
(* MSP's own run, the one whose admin can pass authorization, whether it   *)
(* was activated by OnReady or at startup from the persisted contract.     *)
(***************************************************************************)
GateTrustsOwner ==
    \A p \in Procs :
       gate[p] # NoOrg => company = {gate[p]} /\ gate[p] \in grant

(***************************************************************************)
(* An organisation that outlives its run is the MSP's, with its admin, or  *)
(* the run's error told the operator to look for it, because SetUpOrg or   *)
(* the cleanup did not answer: `fail' leaves no silent orphan, whatever    *)
(* answers were lost.  A run that a crash killed never comes to `fail' and *)
(* is left out: its orphan is Scenario E of docs/operations.md:229-235.    *)
(***************************************************************************)
OrphansReported ==
    \A r \in Reqs :
       pc[r] \in {"release", "ended"} /\ orgs[r] \in LiveOrg =>
          r \in reported \/ (company = {r} /\ r \in grant)

(***************************************************************************)
(* Every accepted install gives the single-flight flag back, on every      *)
(* error path and across a crash, so that the next one can be accepted     *)
(* (the resets in Handler.Install).                                        *)
(***************************************************************************)
FlightIsReleased == \A p \in Procs : inflight[p] ~> ~inflight[p]

(***************************************************************************)
(* An install that starts without leftovers ends with its own workspace    *)
(* ready, also after failed runs that left their ids on the row and while  *)
(* delayed duplicates of the request arrive; otherwise one of its own      *)
(* calls failed and its error path was taken, or its process died          *)
(* (Orchestrator.Run).                                                     *)
(***************************************************************************)
InstallResolves ==
    \A r \in Reqs :
       (pc[r] = "create_org" /\ company = {}) ~>
          \/ ws.state = "ready" /\ ws.org = r
          \/ pc[r] \in {"remove_org", "mark_failed", "dead"}

------------------------------------------------------------------------------
(* What comments and docs say that the code does not do.                     *)

(***************************************************************************)
(* cmd/app/main.go:288: "Once workspace.install_state = ready, POST        *)
(* /install returns FailedPrecondition, so repeated clicks are safe": a    *)
(* ready workspace would stay ready.                                       *)
(***************************************************************************)
ReadyIsFinal == [][ws.state = "ready" => ws'.state = "ready"]_vars

(***************************************************************************)
(* docs/operations.md:217-222: after an orchestrator failure "The retry    *)
(* creates a fresh org with a fresh id; nothing left behind": a failed     *)
(* workspace would hold no MSP company, on which every retry trips.        *)
(***************************************************************************)
NothingLeftBehind == ws.state = "failed" => company = {}

(***************************************************************************)
(* docs/operations.md:206-208: "Startup detects install_state =            *)
(* provisioning, automatically flips it to failed": provisioning would     *)
(* always come to an end.                                                  *)
(***************************************************************************)
ProvisioningResolves ==
    ws.state = "provisioning" ~> ws.state \in {"ready", "failed"}
==============================================================================
