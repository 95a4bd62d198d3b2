---------------------------- MODULE WizardProofs -----------------------------
(***************************************************************************)
(* Proofs about Wizard, for any set of requests, any mix of call outcomes, *)
(* any number of crashes and, where nothing else is said, any number of    *)
(* processes.                                                              *)
(***************************************************************************)
EXTENDS Wizard, InstallProofs

\* The steps of the browser and of a startup that has not come to Serve.
Around ==
    \/ \E p \in Procs : Prepare(p) \/ Exit(p)
    \/ Browser \/ Visit
    \/ \E o \in Outcomes : Assign(o)

\* Those steps leave the server's state and the histories alone.
LEMMA AroundOnly ==
  ASSUME Around
  PROVE  UNCHANGED <<vars, degraded, abandoned>>
<1>1. ASSUME NEW view, NEW b, ShowOver(view, b)
      PROVE  UNCHANGED <<vars, degraded, abandoned>>
  BY <1>1 DEF ShowOver
<1>2. ASSUME NEW loader, NEW o, LoadPage(loader, o)
      PROVE  UNCHANGED <<vars, degraded, abandoned>>
  BY <1>2 DEF LoadPage
<1>3. ASSUME NEW p \in Procs, Prepare(p) \/ Exit(p)
      PROVE  UNCHANGED <<vars, degraded, abandoned>>
  BY <1>3 DEF Prepare, Exit
<1>4. CASE Browser
  BY <1>1, <1>4 DEF Browser, InstallLoader, IndexLoader, Answered, Poll, Show
<1>5. CASE Visit
  BY <1>2, <1>5 DEF Visit
<1>6. ASSUME NEW o \in Outcomes, Assign(o)
      PROVE  UNCHANGED <<vars, degraded, abandoned>>
  BY <1>2, <1>6 DEF Assign
<1> QED
  BY <1>3, <1>4, <1>5, <1>6 DEF Around

(***************************************************************************)
(* A step of Wizard is one of Around, a step of Install that the histories *)
(* observe, or the submission of the form, which is Install's Arrive.      *)
(***************************************************************************)
LEMMA WizardStep ==
  ASSUME WNext
  PROVE  \/ Around
         \/ Next /\ Observe /\ UNCHANGED tab
         \/ \E r \in Reqs : Submit(r)
BY DEF WNext, Around, Served, Serve, Next

\* Every step of Wizard is a step of Install or leaves Install's state alone.
LEMMA InstallStep == [WNext]_wvars => [Next]_vars
<1>1. ASSUME WNext PROVE [Next]_vars
  <2>1. CASE Around
    BY <2>1, AroundOnly
  <2>2. CASE Next
    BY <2>2
  <2>3. ASSUME NEW r \in Reqs, Submit(r) PROVE [Next]_vars
    BY <2>3 DEF Submit, Next
  <2> QED
    BY <1>1, <2>1, <2>2, <2>3, WizardStep
<1>2. CASE UNCHANGED wvars
  BY <1>2 DEF wvars
<1> QED
  BY <1>1, <1>2

\* Wizard implements Install: with the startup and the browser around it the
\* install handler and the orchestrator do nothing they would not do alone.
THEOREM ImplementsInstall == WSpec => Spec
<1>1. WInit => Init
  BY DEF WInit
<1> QED
  BY <1>1, InstallStep, PTL DEF WSpec, Spec

------------------------------------------------------------------------------
\* What config.js and GetStatus tell the browser is well formed.
LEMMA ServerAnswers ==
  ASSUME TypeOK
  PROVE  /\ \A o \in Outcomes : PublicConfig(o) \in Configs
         /\ DefaultConfig \in Configs
<1>1. DefaultConfig \in Configs
  BY DEF Configs
<1>2. CASE ws.org = NoOrg
  <2>1. WorkspaceAuth = DefaultConfig
    BY <1>2 DEF WorkspaceAuth, DefaultConfig, GetWorkspace, OrgScope, AudienceScope
  <2> QED
    BY <1>1, <2>1 DEF PublicConfig
<1>3. CASE ws.org \in Reqs
  <2>1. WorkspaceAuth \in Configs
    BY <1>3 DEF WorkspaceAuth, Configs, GetWorkspace
  <2> QED
    BY <1>1, <2>1 DEF PublicConfig
<1> QED
  BY <1>1, <1>2, <1>3 DEF TypeOK

\* The tab's part of the type invariant.
TabOK == tab \in [view : Views, config : Configs, req : Reqs \cup {NoOrg},
                  initialFailed : BOOLEAN]

\* Showing another view keeps the tab well typed.
LEMMA ShowType ==
  ASSUME TypeOK, TabOK, NEW view \in Views, NEW b \in BOOLEAN, ShowOver(view, b)
  PROVE  TabOK' /\ UNCHANGED prepared
<1>1. DefaultConfig \in Configs /\ tab.config \in Configs
  BY ServerAnswers DEF TabOK
<1>2. /\ tab' = [view |-> view, req |-> NoOrg,
                 config |-> IF view \in Loaders \cup {"home"} THEN tab.config
                            ELSE DefaultConfig,
                 initialFailed |-> b]
      /\ UNCHANGED prepared
  BY DEF ShowOver
<1>3. Configs' = Configs /\ Views' = Views
  BY DEF Configs, Views, Loaders, DefaultConfig, OrgScope, AudienceScope
<1> QED
  BY <1>1, <1>2, <1>3 DEF TabOK

\* So does loading a page, whose config is what the row says at that time.
LEMMA LoadType ==
  ASSUME TypeOK, TabOK, NEW loader \in Loaders, NEW o \in Outcomes,
         LoadPage(loader, o)
  PROVE  TabOK' /\ UNCHANGED prepared
<1>1. PublicConfig(o) \in Configs
  BY ServerAnswers
<1>2. /\ tab' = [view |-> loader, config |-> PublicConfig(o), req |-> NoOrg,
                 initialFailed |-> FALSE]
      /\ UNCHANGED prepared
  BY DEF LoadPage
<1>3. Configs' = Configs /\ Views' = Views /\ loader \in Views
  BY DEF Configs, Views, Loaders, DefaultConfig, OrgScope, AudienceScope
<1> QED
  BY <1>1, <1>2, <1>3 DEF TabOK

\* The startup, the pages and the histories keep the state well typed.
LEMMA WTypeStep == WTypeOK /\ [WNext]_wvars => WTypeOK'
<1> SUFFICES ASSUME WTypeOK, [WNext]_wvars PROVE WTypeOK'
  OBVIOUS
<1>1. TypeOK /\ TabOK
  BY DEF WTypeOK, TabOK
<1>2. TypeOK'
  BY <1>1, InstallStep, TypeStep
<1>3. Configs' = Configs /\ Views' = Views
  BY DEF Configs, Views, Loaders, DefaultConfig, OrgScope, AudienceScope
<1>4. TabOK' /\ prepared' \in [Procs -> BOOLEAN]
  <2>1. ASSUME NEW p \in Procs, Prepare(p) \/ Exit(p) \/ Serve(p)
        PROVE  TabOK' /\ prepared' \in [Procs -> BOOLEAN]
    BY <2>1, <1>1, <1>3 DEF Prepare, Checks, Exit, Serve, TabOK, WTypeOK
  <2>2. CASE Browser
    <3>1. \E view \in Views, b \in BOOLEAN : ShowOver(view, b)
      <4>1. InstallLoader => \E view \in Views, b \in BOOLEAN : ShowOver(view, b)
        BY DEF InstallLoader, Views, Loaders, Show
      <4>2. IndexLoader => \E view \in Views, b \in BOOLEAN : ShowOver(view, b)
        BY DEF IndexLoader, Views, Loaders, Show
      <4>3. Answered => \E view \in Views, b \in BOOLEAN : ShowOver(view, b)
        BY <1>1 DEF Answered, Views, TabOK
      <4>4. Poll => \E view \in Views, b \in BOOLEAN : ShowOver(view, b)
        BY DEF Poll, Views, Show
      <4> QED
        BY <2>2, <4>1, <4>2, <4>3, <4>4 DEF Browser
    <3> QED
      BY <1>1, <3>1, ShowType DEF WTypeOK
  <2>3. CASE Visit \/ \E o \in Outcomes : Assign(o)
    <3>1. \E loader \in Loaders, o \in Outcomes : LoadPage(loader, o)
      BY <2>3 DEF Visit, Assign, Loaders
    <3> QED
      BY <1>1, <3>1, LoadType DEF WTypeOK
  <2>4. ASSUME NEW r \in Reqs, Submit(r)
        PROVE  TabOK' /\ prepared' \in [Procs -> BOOLEAN]
    <3>1. "waiting" \in Views
      BY DEF Views
    <3> QED
      BY <1>1, <1>3, <2>4, <3>1 DEF Submit, TabOK, WTypeOK
  <2>5. CASE UNCHANGED <<prepared, tab>>
    BY <1>1, <1>3, <2>5 DEF TabOK, WTypeOK
  <2> QED
    BY <2>1, <2>2, <2>3, <2>4, <2>5 DEF WNext, Served, wvars
<1>5. degraded' \subseteq Procs /\ abandoned' \in BOOLEAN
  <2>1. CASE Observe
    BY <2>1 DEF Observe
  <2>2. CASE UNCHANGED <<degraded, abandoned>>
    BY <2>2 DEF WTypeOK
  <2>3. ASSUME NEW r \in Reqs, Submit(r) PROVE UNCHANGED <<degraded, abandoned>>
    BY <2>3 DEF Submit
  <2>4. UNCHANGED wvars => UNCHANGED <<degraded, abandoned>>
    BY DEF wvars
  <2>5. Around => UNCHANGED <<degraded, abandoned>>
    BY AroundOnly
  <2> QED
    BY <2>1, <2>2, <2>3, <2>4, <2>5, WizardStep
<1> QED
  BY <1>2, <1>4, <1>5 DEF WTypeOK, TabOK

\* The type invariant of Wizard holds in every reachable state: what a page
\* holds is a config this workspace's row could have rendered.
THEOREM WTypeCorrect == WSpec => []WTypeOK
<1>1. WInit => WTypeOK
  <2>1. Init => TypeOK
    BY ConstantsAssumption
    DEF Init, TypeOK, Steps, HandlerSteps, RunSteps, FinalSteps, LiveOrg, WsStates
  <2>2. DefaultConfig \in Configs /\ "closed" \in Views
    BY DEF Configs, Views
  <2>3. WInit => tab \in [view : Views, config : Configs, req : Reqs \cup {NoOrg},
                          initialFailed : BOOLEAN]
    BY <2>2 DEF WInit
  <2> QED
    BY <2>1, <2>3 DEF WInit, WTypeOK
<1> QED
  BY <1>1, WTypeStep, PTL DEF WSpec
------------------------------------------------------------------------------
(***************************************************************************)
(* What HomeAsksForOwner rests on: the company and the grant of the page's *)
(* organisation, which no later run takes away.                            *)
(***************************************************************************)
HomeInv ==
    tab.view = "home" =>
       company = {tab.config.OrgID} /\ tab.config.OrgID \in grant

\* Install never changes the owner row once there is one, and never takes a
\* grant back.
LEMMA OwnerStays ==
  ASSUME [Next]_vars, company # {}
  PROVE  company' = company /\ grant \subseteq grant'
<1> USE DEF database, process
<1>1. ASSUME NEW r \in Reqs, Run(r)
      PROVE  company' = company /\ grant \subseteq grant'
  <2>1. InsertCompany(r) => company' = company /\ grant' = grant
    BY DEF InsertCompany
  <2>2. InsertGrant(r) => company' = company /\ grant \subseteq grant'
    BY DEF InsertGrant
  <2> QED
    BY <1>1, <2>1, <2>2
    DEF Run, CreateOrg, CreateProject, CreateOIDCApp, PersistIDs, InsertContact,
        MarkReady, OnReady, RemoveOrg, MarkFailed, Release
<1>2. ASSUME NEW r \in Reqs, Arrive(r) \/ Handler(r)
      PROVE  company' = company /\ grant \subseteq grant'
  BY <1>2 DEF Arrive, Handler, ReadRow, TakeFlight, MarkProvisioning
<1>3. ASSUME NEW p \in Procs, Crash(p) \/ Boot(p)
      PROVE  company' = company /\ grant \subseteq grant'
  BY <1>3 DEF Crash, Boot
<1> QED
  BY <1>1, <1>2, <1>3 DEF Next, vars

\* Only the loader of / shows the home page, and only over a ready row whose
\* organisation is the one of the page's config.
LEMMA HomeIsCurrent ==
  ASSUME WTypeOK, ReadyIsComplete, WNext, tab'.view = "home", tab' # tab
  PROVE  /\ company = {tab'.config.OrgID} /\ tab'.config.OrgID \in grant
         /\ UNCHANGED vars
<1>1. ASSUME NEW view, NEW b, view # "home", ShowOver(view, b) PROVE FALSE
  BY <1>1 DEF ShowOver
<1>2. ASSUME NEW loader \in Loaders, NEW o, LoadPage(loader, o) PROVE FALSE
  BY <1>2 DEF LoadPage, Loaders
<1>3. CASE IndexLoader
  <2>1. Show("home")
    BY <1>1, <1>3 DEF IndexLoader, Show
  <2>2. /\ GetStatus.State = "READY"
        /\ ~(/\ GetStatus.ZitadelOrgId # NoOrg
             /\ tab.config.OrgID # GetStatus.ZitadelOrgId)
    BY <1>1, <1>3 DEF IndexLoader, Show
  <2>3. GetStatus.ZitadelOrgId = ws.org /\ GetStatus.State = toProtoState[ws.state]
    BY DEF GetStatus, GetWorkspace
  <2>4. ws.state = "ready"
    BY <2>2, <2>3 DEF WTypeOK, TypeOK, WsStates, toProtoState
  <2>5. company = {ws.org} /\ ws.org \in grant /\ ws.org # NoOrg
    BY <2>4, ConstantsAssumption DEF ReadyIsComplete, WTypeOK, TypeOK
  <2>6. tab'.config = tab.config /\ UNCHANGED vars
    BY <2>1 DEF Show, ShowOver
  <2> QED
    BY <2>2, <2>3, <2>5, <2>6
<1>4. CASE InstallLoader \/ Answered \/ Poll
  <2>1. InstallLoader => \E view, b : view # "home" /\ ShowOver(view, b)
    BY DEF InstallLoader, Show
  <2>2. Answered => \E view, b : view # "home" /\ ShowOver(view, b)
    BY DEF Answered
  <2>3. Poll => \E view, b : view # "home" /\ ShowOver(view, b)
    BY DEF Poll, Show
  <2> QED
    BY <1>1, <1>4, <2>1, <2>2, <2>3
<1>5. CASE Visit \/ \E o \in Outcomes : Assign(o)
  <2>1. \E loader \in Loaders, o \in Outcomes : LoadPage(loader, o)
    BY <1>5 DEF Visit, Assign, Loaders
  <2> QED
    BY <1>2, <2>1
<1>6. ASSUME NEW r \in Reqs, Submit(r) PROVE FALSE
  BY <1>6 DEF Submit, WTypeOK
<1>7. ASSUME NEW p \in Procs, Prepare(p) \/ Exit(p) \/ Serve(p) PROVE FALSE
  BY <1>7 DEF Prepare, Exit, Serve
<1>8. UNCHANGED tab => FALSE
  OBVIOUS
<1> QED
  BY <1>3, <1>4, <1>5, <1>6, <1>7, <1>8 DEF WNext, Served, Browser

\* The step of HomeInv, from what Install guarantees of a ready row.
LEMMA HomeStep ==
  WTypeOK /\ ReadyIsComplete /\ HomeInv /\ [WNext]_wvars => HomeInv'
<1> SUFFICES ASSUME WTypeOK, ReadyIsComplete, HomeInv, [WNext]_wvars,
                    tab'.view = "home"
             PROVE  company' = {tab'.config.OrgID} /\ tab'.config.OrgID \in grant'
  BY DEF HomeInv
<1>1. CASE tab' = tab
  <2>1. company = {tab.config.OrgID} /\ tab.config.OrgID \in grant
    BY <1>1 DEF HomeInv
  <2>2. company' = company /\ grant \subseteq grant'
    BY <2>1, InstallStep, OwnerStays
  <2> QED
    BY <1>1, <2>1, <2>2
<1>2. CASE tab' # tab
  <2>1. WNext
    BY <1>2 DEF wvars
  <2>2. /\ company = {tab'.config.OrgID} /\ tab'.config.OrgID \in grant
        /\ UNCHANGED vars
    BY <1>2, <2>1, HomeIsCurrent
  <2> QED
    BY <2>2 DEF vars
<1> QED
  BY <1>1, <1>2

\* With one process, the login that HomePage offers asks for the MSP's own
\* organisation and for the audience an active gate verifies.
THEOREM HomeAsksForOwnerHolds ==
  ASSUME NEW proc, Procs = {proc}
  PROVE  WSpec => []HomeAsksForOwner
<1>1. WInit => HomeInv
  BY DEF WInit, HomeInv
<1>2. WTypeOK /\ GateTrustsOwner /\ HomeInv => HomeAsksForOwner
  <2> SUFFICES ASSUME WTypeOK, GateTrustsOwner, HomeInv, tab.view = "home"
               PROVE  /\ company = {tab.config.OrgID}
                      /\ tab.config.OrgID \in grant
                      /\ OrgScope(tab.config.OrgID) \subseteq tab.config.Scopes
                      /\ \A p \in Procs : AudienceScope(gate[p]) \subseteq tab.config.Scopes
    BY DEF HomeAsksForOwner
  <2>1. company = {tab.config.OrgID} /\ tab.config.OrgID \in grant
    BY DEF HomeInv
  <2>2. tab.config.OrgID \in Reqs /\ tab.config.OrgID # NoOrg
    BY <2>1, ConstantsAssumption DEF WTypeOK, TypeOK
  <2>3. tab.config \in Configs
    BY DEF WTypeOK
  <2>4. tab.config # DefaultConfig
    BY <2>2 DEF DefaultConfig
  <2>5. PICK r \in Reqs :
           tab.config = [OrgID |-> r, Scopes |-> OrgScope(r) \cup AudienceScope(r)]
    BY <2>3, <2>4 DEF Configs
  <2>6. /\ tab.config.OrgID = r
        /\ tab.config.Scopes = OrgScope(r) \cup AudienceScope(r)
    BY <2>5
  <2>7. ASSUME NEW p \in Procs PROVE AudienceScope(gate[p]) \subseteq tab.config.Scopes
    <3>1. CASE gate[p] = NoOrg
      BY <3>1 DEF AudienceScope
    <3>2. CASE gate[p] # NoOrg
      <4>1. gate[p] = r
        BY <2>1, <2>6, <3>2 DEF GateTrustsOwner
      <4> QED
        BY <2>6, <4>1
    <3> QED
      BY <3>1, <3>2
  <2> QED
    BY <2>1, <2>6, <2>7
<1>3. Spec => [](ReadyIsComplete /\ GateTrustsOwner)
  BY ReadyIsCompleteHolds, GateTrustsOwnerHolds, PTL
<1> QED
  BY <1>1, <1>2, <1>3, HomeStep, ImplementsInstall, WTypeCorrect, PTL DEF WSpec
------------------------------------------------------------------------------
(***************************************************************************)
(* GateFollowsReady is inductive with one process: the row becomes ready   *)
(* in a step of a run that goes on to OnReady or counts as degraded, and a *)
(* gate that is inactive after OnReady or after startup is degraded.       *)
(***************************************************************************)
LEMMA GateStep ==
  ASSUME NEW proc, Procs = {proc},
         WTypeOK, GateFollowsReady, [WNext]_wvars
  PROVE  GateFollowsReady'
<1> USE ConstantsAssumption
<1> SUFFICES ASSUME up'[proc], ws'.state = "ready", gate'[proc] = NoOrg,
                    proc \notin degraded'
             PROVE  \E r \in Reqs : On[r] = proc /\ pc'[r] = "on_ready"
  BY DEF GateFollowsReady
<1>1. TypeOK
  BY DEF WTypeOK
<1>2. ASSUME UNCHANGED <<up, ws, gate, degraded>>,
             \A r \in Reqs : pc[r] = "on_ready" => pc'[r] = "on_ready"
      PROVE  \E r \in Reqs : On[r] = proc /\ pc'[r] = "on_ready"
  BY <1>2 DEF GateFollowsReady
<1>3. ASSUME NEW r \in Reqs, Submit(r)
      PROVE  \E q \in Reqs : On[q] = proc /\ pc'[q] = "on_ready"
  <2>1. /\ UNCHANGED <<up, ws, gate, degraded>>
        /\ \A q \in Reqs : pc[q] = "on_ready" => pc'[q] = "on_ready"
    BY <1>1, <1>3 DEF Submit, Arrive, At, Goto, process, database, TypeOK
  <2> QED
    BY <1>2, <2>1
<1>4. CASE UNCHANGED <<vars, degraded>>
  BY <1>2, <1>4 DEF vars
<1>5. CASE Next /\ Observe
  <2>1. proc \notin degraded /\ ~Degrades(proc)
    BY <1>5 DEF Observe
  <2>2. up[proc] => (ws.state = "ready" /\ gate[proc] = NoOrg =>
           \E r \in Reqs : On[r] = proc /\ pc[r] = "on_ready")
    BY <2>1 DEF GateFollowsReady
  <2>3. /\ up[proc] \/ ws.state # "ready"
        /\ \A r \in Reqs : pc[r] = "on_ready" => pc'[r] # "release"
        /\ \A r \in Reqs : pc[r] = "mark_ready" => pc'[r] # "remove_org"
    BY <2>1 DEF Degrades
  <2> USE DEF TypeOK, At, Goto, Return, Landed, database, process
  <2>4. ASSUME NEW r \in Reqs, Run(r)
        PROVE  \E q \in Reqs : On[q] = proc /\ pc'[q] = "on_ready"
    <3>1. CASE MarkReady(r)
      BY <1>1, <2>3, <3>1 DEF MarkReady
    <3>2. CASE OnReady(r)
      BY <1>1, <2>3, <3>2 DEF OnReady
    <3>3. CASE PersistIDs(r)
      BY <1>1, <2>2, <3>3 DEF PersistIDs, PersistZitadelIDs
    <3>4. CASE MarkFailed(r)
      BY <1>1, <2>2, <3>4 DEF MarkFailed, MarkWorkspaceFailed
    <3>5. CASE CreateOrg(r) \/ CreateProject(r) \/ CreateOIDCApp(r) \/ RemoveOrg(r)
      BY <1>1, <2>2, <3>5 DEF CreateOrg, CreateProject, CreateOIDCApp, RemoveOrg
    <3>6. CASE InsertCompany(r) \/ InsertContact(r) \/ InsertGrant(r) \/ Release(r)
      BY <1>1, <2>2, <3>6 DEF InsertCompany, InsertContact, InsertGrant, Release
    <3> QED
      BY <2>4, <3>1, <3>2, <3>3, <3>4, <3>5, <3>6 DEF Run
  <2>5. ASSUME NEW r \in Reqs, Arrive(r) \/ Handler(r)
        PROVE  \E q \in Reqs : On[q] = proc /\ pc'[q] = "on_ready"
    <3>1. CASE Arrive(r)
      BY <1>1, <2>2, <3>1 DEF Arrive
    <3>2. CASE ReadRow(r) \/ TakeFlight(r)
      BY <1>1, <2>2, <3>2 DEF ReadRow, TakeFlight
    <3>3. CASE MarkProvisioning(r)
      BY <1>1, <2>2, <3>3 DEF MarkProvisioning, MarkWorkspaceProvisioning
    <3> QED
      BY <2>5, <3>1, <3>2, <3>3 DEF Handler
  <2>6. ASSUME NEW p \in Procs, Crash(p) PROVE FALSE
    BY <1>1, <2>6 DEF Crash
  <2>7. ASSUME NEW p \in Procs, Boot(p) PROVE FALSE
    BY <1>1, <2>3, <2>7 DEF Boot, GetWorkspace
  <2> QED
    BY <1>5, <2>4, <2>5, <2>6, <2>7 DEF Next
<1>6. Around => UNCHANGED <<vars, degraded>>
  BY AroundOnly
<1>7. UNCHANGED wvars => UNCHANGED <<vars, degraded>>
  BY DEF wvars
<1> QED
  BY <1>3, <1>4, <1>5, <1>6, <1>7, WizardStep

\* With one process, a server that serves a ready workspace has its gate
\* active or is about to activate it, except for the failures that `degraded'
\* records (main, Orchestrator.OnReady).
THEOREM GateFollowsReadyHolds ==
  ASSUME NEW proc, Procs = {proc}
  PROVE  WSpec => []GateFollowsReady
<1>1. WInit => GateFollowsReady
  BY DEF WInit, Init, GateFollowsReady
<1>2. WTypeOK /\ GateFollowsReady /\ [WNext]_wvars => GateFollowsReady'
  BY GateStep
<1> QED
  BY <1>1, <1>2, WTypeCorrect, PTL DEF WSpec

------------------------------------------------------------------------------
(***************************************************************************)
(* ProvisioningHasRun is not inductive: a run at `release' has nothing     *)
(* left to do for the row.  What is inductive is that a provisioning row   *)
(* has a run that has not come to OnReady or to the release of the flag.   *)
(***************************************************************************)
AtWork == RunSteps \ {"on_ready", "release"}

WorkInv ==
    ws.state = "provisioning" =>
       abandoned \/ \E r \in Reqs : pc[r] \in AtWork

\* The step of that invariant, with any number of processes.
LEMMA WorkStep ==
  ASSUME WTypeOK, WorkInv, [WNext]_wvars
  PROVE  WorkInv'
<1> USE ConstantsAssumption
<1> SUFFICES ASSUME ws'.state = "provisioning", ~abandoned'
             PROVE  \E r \in Reqs : pc'[r] \in AtWork
  BY DEF WorkInv, AtWork
<1>1. TypeOK
  BY DEF WTypeOK
<1>2. ASSUME NEW r \in Reqs, Submit(r) PROVE \E q \in Reqs : pc'[q] \in AtWork
  <2>1. /\ ws' = ws /\ abandoned' = abandoned
        /\ \A q \in Reqs : pc[q] \in AtWork => pc'[q] = pc[q]
    BY <1>1, <1>2
    DEF Submit, Arrive, At, Goto, process, database, TypeOK, AtWork, RunSteps
  <2> QED
    BY <2>1 DEF WorkInv
<1>3. CASE UNCHANGED <<vars, abandoned>>
  BY <1>3 DEF WorkInv, vars
<1>4. CASE Next /\ Observe
  <2>1. ~abandoned /\ ~Abandons
    BY <1>4 DEF Observe
  <2>2. ws.state = "provisioning" => \E r \in Reqs : pc[r] \in AtWork
    BY <2>1 DEF WorkInv
  <2>3. \A r \in Reqs :
           /\ pc[r] \in Holding => pc'[r] \notin {"dead", "refused"}
           /\ pc[r] = "mark_failed" => pc'[r] # "release"
    BY <2>1 DEF Abandons
  <2> USE DEF TypeOK, At, Goto, Return, Landed, database, process,
              AtWork, RunSteps, Holding
  <2>4. ASSUME NEW r \in Reqs, Run(r) PROVE \E q \in Reqs : pc'[q] \in AtWork
    <3>1. CASE MarkReady(r)
      BY <1>1, <2>2, <3>1 DEF MarkReady, MarkWorkspaceReady
    <3>2. CASE OnReady(r)
      BY <1>1, <2>2, <3>2 DEF OnReady
    <3>3. CASE PersistIDs(r)
      BY <1>1, <2>2, <3>3 DEF PersistIDs, PersistZitadelIDs
    <3>4. CASE MarkFailed(r)
      BY <1>1, <2>3, <3>4 DEF MarkFailed
    <3>5. CASE CreateOrg(r) \/ CreateProject(r) \/ CreateOIDCApp(r) \/ RemoveOrg(r)
      BY <1>1, <2>2, <3>5 DEF CreateOrg, CreateProject, CreateOIDCApp, RemoveOrg
    <3>6. CASE InsertCompany(r) \/ InsertContact(r) \/ InsertGrant(r) \/ Release(r)
      BY <1>1, <2>2, <3>6 DEF InsertCompany, InsertContact, InsertGrant, Release
    <3> QED
      BY <2>4, <3>1, <3>2, <3>3, <3>4, <3>5, <3>6 DEF Run
  <2>5. ASSUME NEW r \in Reqs, Arrive(r) \/ Handler(r)
        PROVE  \E q \in Reqs : pc'[q] \in AtWork
    <3>1. CASE Arrive(r)
      <4>1. /\ ws' = ws
            /\ \A q \in Reqs : pc[q] \in AtWork => pc'[q] = pc[q]
        BY <1>1, <3>1 DEF Arrive
      <4> QED
        BY <2>2, <4>1
    <3>2. CASE ReadRow(r) \/ TakeFlight(r)
      BY <1>1, <2>2, <3>2 DEF ReadRow, TakeFlight
    <3>3. CASE MarkProvisioning(r)
      BY <1>1, <2>3, <3>3 DEF MarkProvisioning
    <3> QED
      BY <2>5, <3>1, <3>2, <3>3 DEF Handler
  <2>6. ASSUME NEW p \in Procs, Crash(p) PROVE \E q \in Reqs : pc'[q] \in AtWork
    BY <1>1, <2>2, <2>3, <2>6 DEF Crash
  <2>7. ASSUME NEW p \in Procs, Boot(p) PROVE \E q \in Reqs : pc'[q] \in AtWork
    BY <1>1, <2>2, <2>7 DEF Boot
  <2> QED
    BY <1>4, <2>4, <2>5, <2>6, <2>7 DEF Next
<1>5. Around => UNCHANGED <<vars, abandoned>>
  BY AroundOnly
<1>6. UNCHANGED wvars => UNCHANGED <<vars, abandoned>>
  BY DEF wvars
<1> QED
  BY <1>2, <1>3, <1>4, <1>5, <1>6, WizardStep

\* A provisioning row has a run at work or a known reason why not, with any
\* number of replicas (Handler.Install, `fail').
THEOREM ProvisioningHasRunHolds == WSpec => []ProvisioningHasRun
<1>1. WInit => WorkInv
  BY DEF WInit, Init, WorkInv
<1>2. WTypeOK /\ WorkInv /\ [WNext]_wvars => WorkInv'
  BY WorkStep
<1>3. WorkInv => ProvisioningHasRun
  BY DEF WorkInv, ProvisioningHasRun, AtWork
<1> QED
  BY <1>1, <1>2, <1>3, WTypeCorrect, PTL DEF WSpec
==============================================================================
