------------------------------- MODULE Wizard --------------------------------
(***************************************************************************)
(* Install in its surroundings: the startup of the server (cmd/app/main.go *)
(* up to Serve), the public configuration it renders into                  *)
(* /_gofra/config.js (internal/publicconfig) and GetStatus, and the        *)
(* browser tab that runs the wizard with them (web/src/routes).            *)
(*                                                                         *)
(* A page reads config.js once, when it is loaded, and the status by RPC   *)
(* again and again.  Whatever runs, failures and restarts come in between, *)
(* the tab has to end on a page whose login asks for the MSP's own         *)
(* organisation and for the audience the auth gate verifies.               *)
(***************************************************************************)
EXTENDS Install

VARIABLES
    prepared,   \* prepared[p]: process p, still down, is about to read the row
    tab,        \* the browser tab: its view, its page's config, its POST, and
                \* whether FAILED is still the data of its status query
    degraded,   \* history: processes that serve a ready workspace with an
                \* inactive gate because a read, a hook or an answer failed
    abandoned   \* history: the row was left in provisioning by a crash or by
                \* a statement that failed

wvars == <<vars, prepared, tab, degraded, abandoned>>

Loaders == {"install_loader", "index_loader"}
Views   == Loaders \cup {"closed", "form", "waiting", "polling", "failed",
                         "error", "assign", "home"}

------------------------------------------------------------------------------
(* What the server tells the browser.                                        *)

\* A mistake that WTypeOK catches: the scope of no organisation.
OrgScopeUnchecked(org)  == {<<"org", org>>}

OrgScope(org)           == IF org = NoOrg THEN {} ELSE {<<"org", org>>}
AudienceScope(audience) == IF audience = NoOrg THEN {} ELSE {<<"aud", audience>>}

\* The columns of the row the browser needs, in whatever state the row is.
WorkspaceAuth ==
    [OrgID  |-> GetWorkspace.org,
     Scopes |-> OrgScope(GetWorkspace.org) \cup AudienceScope(GetWorkspace.org)]

\* gofra.yaml: no organisation and no scope of one.
DefaultConfig == [OrgID |-> NoOrg, Scopes |-> {}]

\* config.js: a row that cannot be read leaves the placeholders.
PublicConfig(o) == IF o = "ok" THEN WorkspaceAuth ELSE DefaultConfig

toProtoState ==
    [not_initialized |-> "NOT_INITIALIZED", provisioning |-> "PROVISIONING",
     ready |-> "READY", failed |-> "FAILED"]

GetStatus ==
    [State |-> toProtoState[GetWorkspace.state], ZitadelOrgId |-> GetWorkspace.org]

\* The configs a page can hold: the placeholders, or the ids of one run.
Configs ==
    {DefaultConfig}
      \cup {[OrgID |-> r, Scopes |-> OrgScope(r) \cup AudienceScope(r)] : r \in Reqs}

\* The type invariant; a config's scopes are those of its organisation.
WTypeOK ==
    /\ TypeOK
    /\ prepared \in [Procs -> BOOLEAN]
    /\ tab \in [view : Views, config : Configs, req : Reqs \cup {NoOrg},
               initialFailed : BOOLEAN]
    /\ degraded \subseteq Procs
    /\ abandoned \in BOOLEAN

WInit ==
    /\ Init
    /\ prepared = [p \in Procs |-> FALSE]
    /\ tab = [view |-> "closed", config |-> DefaultConfig, req |-> NoOrg,
              initialFailed |-> FALSE]
    /\ degraded = {}
    /\ abandoned = FALSE

------------------------------------------------------------------------------
(* Plausible mistakes, each caught by a property.                            *)

\* HomePage without its comparison of the page's org with the status.
IndexLoaderTrusting ==
    /\ tab.view = "index_loader"
    /\ \E p \in Procs : up[p]
    /\ tab' = [tab EXCEPT !.view = IF GetStatus.State = "READY" THEN "home"
                                   ELSE "install_loader"]
    /\ UNCHANGED <<vars, prepared, degraded, abandoned>>

\* A wizard that does not leave its page when the workspace is ready.
PollStays ==
    /\ tab.view = "polling"
    /\ \E p \in Procs : up[p]
    /\ GetStatus.State = "FAILED"
    /\ tab' = [tab EXCEPT !.view = "failed"]
    /\ UNCHANGED <<vars, prepared, degraded, abandoned>>

------------------------------------------------------------------------------
(* main up to Serve.                                                         *)

\* What startup finds before it looks at the row; "" is missing or unreadable.
Environments ==
    [pat_env : {"", "path"}, pat_cfg : {"", "path"}, pat : {"", "pat"},
     token_env : {"", "token"}, token_path : {"", "path"}, token_file : {"", "token"},
     database : BOOLEAN, migrated : BOOLEAN]

resolveProvisionerPATPath(e) == IF e.pat_env # "" THEN e.pat_env ELSE e.pat_cfg

LoadToken(e) ==
    IF e.token_env # "" THEN e.token_env
    ELSE IF e.token_path # "" THEN e.token_file ELSE "generated"

\* The checks of main, each of which ends the process when it fails; the
\* supervisor then starts it from the beginning.
Starts(e) ==
    /\ resolveProvisionerPATPath(e) # "" /\ e.pat # ""
    /\ LoadToken(e) # ""
    /\ e.database /\ e.migrated

\* How the checks can end, over all environments.
Checks == {ok \in BOOLEAN : \E e \in Environments : ok = Starts(e)}

Prepare(p) ==
    /\ ~up[p] /\ ~prepared[p]
    /\ \E ok \in Checks : prepared' = [prepared EXCEPT ![p] = ok]
    /\ UNCHANGED <<vars, tab, degraded, abandoned>>

\* os.Exit(1) after the row was read: a ready row lacks its contract, or the
\* gate cannot be activated with it.
Exit(p) ==
    /\ prepared[p]
    /\ GetWorkspace.state = "ready"
    /\ prepared' = [prepared EXCEPT ![p] = FALSE]
    /\ UNCHANGED <<vars, tab, degraded, abandoned>>

------------------------------------------------------------------------------
(* The histories, as a function of the step of Install that is taken.        *)

\* A process comes to serve a ready row it could not read, its OnReady
\* failed, or it took a MarkWorkspaceReady that landed for a failure.
Degrades(p) ==
    \/ ~up[p] /\ ws.state = "ready"
    \/ \E r \in Reqs : On[r] = p /\ pc[r] = "on_ready" /\ pc'[r] = "release"
    \/ \E r \in Reqs : On[r] = p /\ pc[r] = "mark_ready" /\ pc'[r] = "remove_org"

\* The request that made the row provisioning is gone: it died, or it never
\* started its run, or MarkWorkspaceFailed did not land.
Abandons ==
    \E r \in Reqs :
       \/ pc[r] \in Holding /\ pc'[r] \in {"dead", "refused"}
       \/ pc[r] = "mark_failed" /\ pc'[r] = "release"

Observe ==
    /\ degraded' = {p \in Procs : up'[p] /\ gate'[p] = NoOrg
                                  /\ (p \in degraded \/ Degrades(p))}
    /\ abandoned' = (ws'.state = "provisioning" /\ (abandoned \/ Abandons))

Served(A) == A /\ Observe /\ UNCHANGED <<prepared, tab>>

\* main that does not start over a row some run left in provisioning.
ServeIfResolved(p) ==
    /\ prepared[p]
    /\ GetWorkspace.state # "provisioning"
    /\ Boot(p)
    /\ Observe
    /\ prepared' = [prepared EXCEPT ![p] = FALSE]
    /\ UNCHANGED tab

\* The eager activation and Serve: Install's Boot.
Serve(p) ==
    /\ prepared[p]
    /\ Boot(p)
    /\ Observe
    /\ prepared' = [prepared EXCEPT ![p] = FALSE]
    /\ UNCHANGED tab

------------------------------------------------------------------------------
(* The browser.                                                              *)

Serving == \E p \in Procs : up[p]

\* The wizard and the error page do not use the config of their page.
ShowOver(view, initialFailed) ==
    /\ tab' = [view |-> view, req |-> NoOrg,
               config |-> IF view \in Loaders \cup {"home"} THEN tab.config
                          ELSE DefaultConfig,
               initialFailed |-> initialFailed]
    /\ UNCHANGED <<vars, prepared, degraded, abandoned>>

Show(view) == ShowOver(view, FALSE)

\* A page load: index.html, then config.js, then the loader of the route.
LoadPage(loader, o) ==
    /\ Serving
    /\ tab' = [view |-> loader, config |-> PublicConfig(o), req |-> NoOrg,
               initialFailed |-> FALSE]
    /\ UNCHANGED <<vars, prepared, degraded, abandoned>>

\* The operator opens or reloads / or /install.
Visit ==
    /\ tab.view \notin Loaders \cup {"assign"}
    /\ \E loader \in Loaders, o \in Outcomes : LoadPage(loader, o)

\* window.location.assign("/") of the wizard, and the reload of HomePage.
Assign(o) == tab.view = "assign" /\ LoadPage("index_loader", o)

\* The loader of /install; an RPC error ends on the router's error page.
InstallLoader ==
    /\ tab.view = "install_loader"
    /\ Serving
    /\ \/ Show("error") /\ Outcomes # {"ok"}
       \/ /\ "ok" \in Outcomes
          /\ ShowOver(CASE GetStatus.State = "READY"        -> "index_loader"
                        [] GetStatus.State = "PROVISIONING" -> "polling"
                        [] OTHER                            -> "form",
                      GetStatus.State = "FAILED")

\* The loader of /, and HomePage, which reloads a page whose config is stale.
IndexLoader ==
    LET stale == /\ GetStatus.ZitadelOrgId # NoOrg
                 /\ tab.config.OrgID # GetStatus.ZitadelOrgId IN
    /\ tab.view = "index_loader"
    /\ Serving
    /\ \/ Show("error") /\ Outcomes # {"ok"}
       \/ /\ "ok" \in Outcomes
          /\ Show(IF GetStatus.State # "READY" THEN "install_loader"
                  ELSE IF stale THEN "assign" ELSE "home")

\* The form is submitted: one of the requests of Install is the tab's own.
Submit(r) ==
    /\ tab.view = "form"
    /\ Arrive(r)
    /\ tab' = [tab EXCEPT !.view = "waiting", !.req = r]
    /\ UNCHANGED <<prepared, degraded, abandoned>>

\* The answer to the POST: success starts the polling, an error, or an
\* answer that is lost, shows the form again.
Answered ==
    LET Resume(view) == ShowOver(view, tab.initialFailed) IN
    /\ tab.view = "waiting"
    /\ \/ pc[tab.req] \in RunSteps \cup {"ended"} /\ Resume("polling")
       \/ pc[tab.req] \in RunSteps \cup {"ended"} /\ Outcomes # {"ok"} /\ Resume("form")
       \/ pc[tab.req] \in {"refused", "dead"} /\ Resume("form")

\* The status query, every second until its data is terminal.  A failed query
\* is repeated, unless its data still is the FAILED of the page load
\* (initialData): then the polling stops.
Poll ==
    /\ tab.view = "polling"
    /\ \/ Serving /\ GetStatus.State = "READY" /\ Show("assign")
       \/ Serving /\ GetStatus.State = "FAILED" /\ Show("failed")
       \/ /\ Serving /\ GetStatus.State \notin {"READY", "FAILED"}
          /\ tab.initialFailed /\ Show("polling")
       \/ /\ ~Serving \/ Outcomes # {"ok"}
          /\ tab.initialFailed /\ Show("failed")

------------------------------------------------------------------------------
Browser == InstallLoader \/ IndexLoader \/ Answered \/ Poll

WNext ==
    \/ \E r \in Reqs : \/ Submit(r)
                       \/ Served(Arrive(r)) \/ Served(Handler(r)) \/ Served(Run(r))
    \/ \E p \in Procs : \/ Served(Crash(p))
                        \/ Prepare(p) \/ Exit(p) \/ Serve(p)
    \/ Browser \/ Visit
    \/ \E o \in Outcomes : Assign(o)

WSpec == WInit /\ [][WNext]_wvars

(***************************************************************************)
(* Started requests run, as in Install.  The supervisor restarts a dead    *)
(* process until its checks pass, and reading the row and the discovery    *)
(* that activation needs do not fail for ever.  The page's own scripts     *)
(* run, and config.js is not unreadable for ever.  Nobody has to visit a   *)
(* page or submit the form.                                                *)
(***************************************************************************)
WFairness ==
    /\ \A r \in Reqs : WF_wvars(Served(Handler(r)) \/ Served(Run(r)))
    /\ \A p \in Procs :
          /\ WF_wvars(Prepare(p))
          /\ SF_wvars(Serve(p) /\ (ws.state = "ready" => gate'[p] # NoOrg))
    /\ WF_wvars(Browser)
    /\ SF_wvars(Assign("ok"))

FairWSpec == WSpec /\ WFairness

------------------------------------------------------------------------------
(* Properties.                                                               *)

(***************************************************************************)
(* With one process, the page that offers the login asks for the           *)
(* organisation whose admin passes authorization and, when the gate is     *)
(* active, for the audience it verifies: also after runs that persisted    *)
(* their ids and failed while the page was loaded (configIsStale of        *)
(* HomePage, publicconfig.Handler, workspaceAuthProvider).                 *)
(***************************************************************************)
HomeAsksForOwner ==
    tab.view = "home" =>
       /\ company = {tab.config.OrgID}
       /\ tab.config.OrgID \in grant
       /\ OrgScope(tab.config.OrgID) \subseteq tab.config.Scopes
       /\ \A p \in Procs : AudienceScope(gate[p]) \subseteq tab.config.Scopes

(***************************************************************************)
(* A wizard that polls while the workspace is ready gets to the home page, *)
(* through the reload and past stale or placeholder configs, across a      *)
(* crash and a restart, unless an RPC error stops a loader or a late       *)
(* request takes the workspace out of ready.  The one wizard that may not  *)
(* get there is a page loaded in FAILED whose first query since the        *)
(* resubmission is still to come: if that fails the polling stops          *)
(* (InstallPage, HomePage).                                                *)
(***************************************************************************)
WizardArrives ==
    (tab.view = "polling" /\ ~tab.initialFailed /\ ws.state = "ready") ~>
       tab.view \in {"home", "error"} \/ ws.state # "ready"

(***************************************************************************)
(* With one process, a server that serves a ready workspace has its gate   *)
(* active, or the activation is the next thing its run does; the only      *)
(* exceptions are a row that startup could not read, a failed OnReady and  *)
(* a MarkWorkspaceReady whose answer was lost (main, Orchestrator.OnReady).*)
(***************************************************************************)
GateFollowsReady ==
    \A p \in Procs :
       up[p] /\ ws.state = "ready" /\ gate[p] = NoOrg =>
          \/ p \in degraded
          \/ \E r \in Reqs : On[r] = p /\ pc[r] = "on_ready"

(***************************************************************************)
(* A row that says provisioning has a run at work that will take it on,    *)
(* unless a crash or a shutdown cut one off, MarkWorkspaceFailed did not   *)
(* land or the answer of MarkWorkspaceProvisioning was lost: no path of    *)
(* Run or Install just forgets the row (Handler.Install, fail).            *)
(***************************************************************************)
ProvisioningHasRun ==
    ws.state = "provisioning" =>
       abandoned \/ \E r \in Reqs : pc[r] \in RunSteps

(***************************************************************************)
(* A process that went down comes back to serving: no sequence of runs,    *)
(* failures and crashes leaves a ready row without the contract that       *)
(* startup insists on (the refusals to start in main).                     *)
(***************************************************************************)
ComesBack == \A p \in Procs : ~up[p] ~> up[p]
==============================================================================
