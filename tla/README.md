# gospa: a TLA+ verification project

gospa is the server of a PSA (professional services automation) product for
managed service providers (MSPs): one Go process behind a browser SPA, one
PostgreSQL database, and ZITADEL as identity provider. This directory holds TLA+
models of its stateful parts, TLC configurations that check them on small
instances, and TLAPS proofs of every safety property the runs check, for any number of
requests, and that the auth gate implements its abstract specification.

The server has little algorithmic code. What is hard in it is order: every handler
is a chain of single SQL statements and ZITADEL calls without a transaction, each
of which may fail before or after it took effect, and other requests, crashes and
restarts fall between any two of them. The models keep that chain statement by
statement and abstract the data.

## Inventory

| Part | State | Operations | Meets other parts by |
|---|---|---|---|
| Install handler, `internal/install/handler.go` | `inflight` flag under a mutex | `Install`, `GetStatus` | reads and writes the `workspace` row, starts the orchestrator goroutine |
| Orchestrator, `internal/install/orchestrator.go` | local ids of one run | the six steps of `Run` and the compensation `fail` | ZITADEL calls; `workspace`, `companies`, `contacts`, `workspace_grants`; the callback `OnReady` |
| Startup, `cmd/app/main.go` | wiring | checks that end the process, eager activation of the gate, refusal to start, shutdown | reads PAT, token and `workspace` row, calls `Gate.Activate` |
| Auth gate, `internal/authgate` | an atomic verifier pointer, a cached chain per mount | `Activate`, `Middleware` | in front of every request |
| Authorization, `internal/authz` | a last-seen throttle map | `Wrap`: resolve, activate, touch, policy | reads and updates `workspace_grants` before every private handler |
| Team service, `internal/team` | `contacts`, `workspace_grants`, ZITADEL users | invite, change role, suspend, reactivate, list | ZITADEL users; shares `contacts` with the contacts service |
| Contacts service, `internal/contacts` | `contacts` | create, update, archive, list, get | refuses to archive team members |
| Companies service, `internal/companies` | `companies`, ZITADEL organisations | create, update, archive, restore, workspace rename, reads | ZITADEL organisations |
| PAT watcher, `internal/patwatch` | `current`, an fsnotify queue | `New`, `loop`, `reload`, `Get`, `Close` | `Get` is called for every ZITADEL request |
| Public config, `internal/publicconfig` | none | renders the row into `/_gofra/config.js` | reads the `workspace` row |
| ZITADEL client, `internal/zitadel` | none but the PAT function | eight calls, each one HTTP request with a 30 s limit | PAT from the watcher; called by orchestrator, team and companies |
| Contract, token, config (`zitadelcontract`, `installtoken`, `config`) | none after startup | pure derivation, comparison, defaults | called by the above |
| SPA, `web/` | the config its page was loaded with, the browser session | wizard that polls `GetStatus`, landing page, pages | config.js and the RPCs above |

What is hard, and what correctness means, part by part:

- **Install.** A duplicate submission may be delayed past the end of the first run; a
  run may fail at any step and has to undo what it did in ZITADEL; the process may
  die anywhere; the ids of a failed run stay on the row. Correct means: runs of one
  process never overlap; there is one bootstrap admin whatever is retried; a `ready`
  row and an active gate belong to the run that made the MSP; the compensation never
  takes the living workspace apart and leaves no silent orphan; the single-flight
  flag is always given back.
- **Team and contacts.** The caller's grant, the email and the number of admins are
  checked several statements before they are relied on. Correct means: an active
  admin remains; a suspension is ended by a reactivation only; emails of active
  contacts stay unique; a failed invite takes its user back and never the user of a
  member.
- **PAT watcher.** Rotations race with the initial read, with the registration of
  the watch and with a reload in progress, and are seen half done. Correct means:
  there is always a PAT, and the last one arrives.
- **Startup, public config, browser.** A page reads the row's ids once and the status
  again and again, while runs fail, retry and crash; the process may come back to any
  row. Correct means: the page that offers the login asks for the organisation and the
  audience of the living workspace, the wizard gets there, the process comes back to
  serving, and a ready row without an active gate, or a provisioning row without a run,
  has one of the known causes.
- **ZITADEL client.** A request may be carried out after the client gave up, a removal
  is repeated, the PAT changes while calls are under way. Correct means: what is
  reported as done is done, calls are refused for their PAT only until the new file has
  been read, and a PAT that stays in the file is the one calls carry in the end.
- **Auth gate.** Requests that loaded different verifiers share a cached chain. Correct
  means: each request is judged by the verifier it loaded, and an active gate never
  opens again.
- **Companies.** The organisation is made before the row; the rename changes the
  database before ZITADEL; the response is completed by a read after the write.
  Correct means: no row without organisation and no silent stray organisation, an error
  answer means that nothing was written, archived and MSP rows are out of reach of the
  generic procedures, and an undisturbed rename ends with equal names or a warning.

`PROJECT.json` lists all components with the reasons for what is left out, and the
hazards with the source line each one bites at.

## Modules

| Module | Models | Extends |
|---|---|---|
| `Install` | install handler, orchestrator, gate activation, crash and startup | `Naturals`, `FiniteSets` |
| `MCInstall` | the one-process instance and its symmetry | `Install` |
| `InstallProofs` | the inductive invariants of `Install` and their proofs | `Install`, `TLAPS` |
| `Wizard` | server startup, public config, `GetStatus` and the browser's wizard around `Install` | `Install` |
| `MCWizard` | the one-process instance | `Wizard` |
| `WizardProofs` | that `Wizard` implements `Install`, and the proofs of its invariants | `Wizard`, `InstallProofs` |
| `Team` | authorization middleware, team service, contacts service | `Naturals`, `FiniteSets` |
| `MCTeam` | its symmetry | `Team` |
| `TeamProofs` | its inductive invariants and their proofs | `Team`, `FiniteSetTheorems`, `TLAPS` |
| `PatWatch` | the PAT watcher and the operator who rotates the file | `Naturals`, `Sequences` |
| `PatWatchProofs` | its inductive invariants and their proofs | `PatWatch`, `TLAPS` |
| `Zitadel` | the ZITADEL client on top of the PAT watcher, and the server | `PatWatch` |
| `ZitadelProofs` | that `Zitadel` implements `PatWatch`, and the proofs of its invariants | `Zitadel`, `PatWatchProofs` |
| `Gate` | what the auth gate promises | |
| `AuthGate` | `Activate` and `Middleware` of the auth gate; instantiates `Gate` | |
| `AuthGateProofs` | its inductive invariants, and that it implements `Gate` | `AuthGate`, `TLAPS` |
| `Companies` | companies service | `Naturals`, `FiniteSets` |
| `MCCompanies` | its symmetry | `Companies` |
| `CompaniesProofs` | its inductive invariants and their proofs | `Companies`, `TLAPS` |

Conventions shared by the modules:

- **A remote call is one action** with an outcome from `Outcomes`: `"ok"`; `"error"`,
  which had no effect; `"lost"`, which took effect although the caller saw an error
  (a timeout, a dropped connection, a cancelled request context). Statements between
  two remote calls are part of the action of the call before them.
- **`pc`** says which call a request makes next; the names of the steps are the
  orchestrator's own (`create_org`, `persist_ids`, ...) where it has them.
- **SQL statements are operators** with sqlc's names: a read is a value, an `INSERT` or
  `UPDATE` is the new table, with its WHERE clause and the unique indexes as
  conditions. The actions are the handlers' statements that use them.
- **Things are named by the request that makes them.** A request creates at most one
  organisation, contact or user, so an identifier of its own would add nothing.
- **History variables** (`crossed`, `raced`, `wrote`, `degraded`, `abandoned`,
  `applied`, `announced`, `gap`) record what happened for the properties; no guard reads them.
- **Mutations.** Each module has a section of plausible mistakes: an action with a
  dropped guard, an off-by-one, a missing reset. Each breaks the property it is
  paired with in `PROJECT.json`; no specification uses them.

### Install

| TLA+ | Code |
|---|---|
| `ws.state`, `ws.org` | `workspace.install_state`; the seven `zitadel_*` columns, which one `UPDATE` writes together and one run derives together |
| `orgs[r]` | the organisation of run `r` in ZITADEL and how far it is furnished |
| `company`, `contact`, `grant` | the MSP row, the admin contact and the admin grant; `company` is guarded by the index `companies_one_workspace_owner` |
| `reported` | runs whose error tells the operator of an organisation: `SetUpOrg` did not answer, or `install cleanup failed; org left orphaned` |
| `inflight[p]`, `gate[p]`, `up[p]` | `Handler.inflight`, the verifier of `authgate.Gate`, the process |
| `Arrive`, `ReadRow`, `TakeFlight`, `MarkProvisioning` | `Handler.Install` up to its goroutine; both resets of `inflight` are in |
| `CreateOrg` ... `MarkReady`, `OnReady` | `Orchestrator.Run`, steps 1 to 6 and the hook |
| `RemoveOrg`, `MarkFailed` | the closure `fail`; a step before `createdOrgID` is known skips the first |
| `Release` | the deferred reset |
| `Crash`, `Boot` | death of the process, and `main` up to serving: a ready row activates the gate or the process ends, any other state or a failed read leaves it inactive |

Left out: the contents of the form beyond their validation, `fullName`, logging. The
gate is the audience it verifies: the issuer comes from the configuration and is the
same for all runs.

### Wizard

`Wizard` puts `Install` into its surroundings. It adds the tab, the first half of
startup and two histories, and takes the actions of `Install` as they are.

| TLA+ | Code |
|---|---|
| `Environments`, `Starts`, `Prepare` | `main` up to the database: PAT path and file, install token, connection, migrations; whatever fails ends the process, and the supervisor starts it again, in whatever environment it finds then |
| `Serve`, `Exit` | reading the row, the eager activation and `Serve` (this is `Boot` of `Install`); `os.Exit(1)` when a ready row lacks its contract or cannot be activated |
| `WorkspaceAuth`, `PublicConfig` | `workspaceAuthProvider` and the mutator of `publicconfig.Handler`, with the placeholders of the configuration when the row cannot be read |
| `OrgScope`, `AudienceScope`, `GetStatus`, `toProtoState` | the functions of these names |
| `tab` | the browser tab: its view, the config its page was loaded with, the POST it waits for, and `initialFailed`: the data of its status query is still the FAILED of the page load |
| `InstallLoader`, `Submit`, `Answered`, `Poll` | `routes/install.tsx` |
| `IndexLoader`, `Assign` | `routes/index.tsx`: the loader, and `HomePage`, which reloads a page whose `orgId` is not that of the status |

A page load is one action: index.html, config.js and the bundle come from the same
server, and only config.js depends on state. An RPC may fail in a loader (the router's
error page) or for a POST (the form again). A failed poll is repeated, with one
exception: a page loaded in FAILED that resubmits starts its query from that FAILED
(`initialData` in `install.tsx:52`), and when the first query fails the interval stops
and the page goes on showing the old failure. `WizardArrives` speaks of the polls after
a first answer and leaves that page out. The config of a page that cannot lead to the
login is reset, since nothing reads it.

### Team

`contacts`, `grant` and `user` are the `contacts` rows of the MSP company (state and
email), the `workspace_grants` rows and the ZITADEL users. `Arrive` chooses a procedure,
a caller who can hold a token and arguments that pass validation; `Resolve` and
`Activate` are `Wrap`; then each handler runs statement by statement: `CheckEmail`,
`AddUser`, `InsertContact`, `InsertGrant`, `RemoveUser` for `InviteMember` and, without
user and grant, `CreateContact`; `LoadContact`, `LoadGrant`, `CountAdmins`, `WriteRole`
or `WriteStatus` for the member updates; `UpdateRow`; `HasGrant` and `ArchiveRow`. The
role used by the policy check is the one resolved before `ActivatePendingGrant`, kept in
`got`.

Two properties are stated up to a race the code does not prevent, so that everything
else is pinned down. `ArchivedHasNoGrant` excepts contacts that `ArchiveContact` checked
between the two inserts of their invite (`raced`). `LastAdminKept` excepts behaviours in
which a member update wrote while another was past its check (`crossed`); those are the
ones the run `team_last_admin` shows to be harmful.

Left out: names, passwords and other columns that nothing branches on, and
`last_seen_at` with its throttle, which no decision reads. Emails are compared
case-insensitively by the code, so an email is an equivalence class. A caller who has
been resolved keeps its rights until its request ends, as in the code.

### PatWatch

`ReadInitial` and `AddWatch` are `New`, `Loop` the select with its name filter,
`Reload` and `Store` the two halves of `reload`, `Close` the end. The operator is
external: an in-place write is a truncation and a completion, a rename or a removal
is one event with the file's name, and `Swap` is what the kubelet does to a Secret
volume, a rename of `..data` in the mount directory with no event named after the
file. `file` is what the file holds; a read of it may fail all the same (`readTrimmed`,
where `ReadErrors` holds), and is not repeated before the next event. `announced` is a
history variable: the present content was read, or came with an event of the file's
name that is still queued or being handled; a failed read uses the event up.

### Zitadel

| TLA+ | Code |
|---|---|
| `provider`, `NewHTTPClient`, `Get` | `patProvider`: the watcher's method, not its value at startup |
| `SetUpOrg` ... `RenameOrg`, with `Send` | the eight methods: refused arguments, a missing PAT, then one request that carries the PAT of this moment |
| `call`, `pat`, `client`, `server` | what each call asks for, the PAT in its request, where its caller is, and the request or answer on its way |
| `posted`, `removed`, `renamed`, `Receive` | what `post`, the two removals and `RenameOrg` make of a status, and of a body that does not decode |
| `Timeout` | `http.Do` failing: the connection, the context, or the 30 s of `http.Client` |
| `Handle`, `Answer` | ZITADEL (external): 200, 401 for a revoked PAT, 404, or 500 with or without the effect; also long after the client gave up. A lost request is never handled, a lost answer never received |
| `RotatePat`, `Revoke` | the operator (external): a PAT made for this rotation into the file by any way `PatWatch` knows, and revocation of any PAT that was in use, at any time: before the new one is written (Scenario F of `docs/operations.md`), between the write and the reload, or while calls carry it |
| `gap` | history: the waiting calls that were sent while the watcher had not caught up with the file or the file held no accepted PAT, or whose PAT was revoked with the request on its way |

This is where the outcomes `ok`, `error` and `lost` of the other modules come from. One
thing is stronger here than there: a call may take effect after the caller has gone on.
The handlers that go on after a failed ZITADEL call go on to remove the thing or to log
it, and `AnswerIsTrue` says that a removal that answered stays true.

### AuthGate and Gate

`Gate` is the promise: a request is judged at one moment between its arrival and its
answer, by the verifier in force at that moment. `AuthGate` is the code:

| TLA+ | Code |
|---|---|
| `verifier` | the atomic pointer `Gate.verifier`, nil before the first activation |
| `mu`, `cachedVP`, `cached` | the mutex of `Middleware` and the two variables it protects |
| `vp[r]`, `chain[r]` | the locals of one request |
| `Begin`, `Discover`, `Store` | `Activate`: argument checks, OIDC discovery, the store |
| `Load` ... `Unlock` | `Middleware`, one statement at a time |
| `Open`, `Serve` | the pass-through branch with its refusal of private procedures, and `chain.ServeHTTP` |

The chain itself is `runtimeauth`'s and external: a private procedure needs a token
its verifier accepts. In the refinement mapping a request counts as judged once it
has loaded the pointer, with the verdict of the verifier it loaded, so that the
mapping holds only if the shared cache never hands it another chain.

### Companies

`companies` holds the rows (absent, active or archived, and the name), `org` the names
of the ZITADEL organisations; `logged` holds the requests that logged an orphaned
organisation or a failed rename. `crossed` is the workspace renames that overlapped
another one between their `UPDATE` and their `RenameOrg`, `wrote` the requests that
changed a row. Each handler is a chain of actions, `RequireReady`, `AddOrganization`,
`CreateRow` and `Hydrate` for `CreateCompany`, `GetActive` and `ArchiveRow` for
`ArchiveCompany`, and so on. Customers exist from the start, active or archived. The
list shows archived rows too (`ListCompanies`); update and archive match active ones
only (`ActiveCustomers`).

Left out: owner and address columns, which the same statements write as the name.
`RequireReady` may pass or refuse: the workspace row belongs to `Install`.

## Runs

| Run | Instance | Result | Shows |
|---|---|---|---|
| `install_safety` | 3 requests, 1 process, calls succeed or fail, 2 crashes | passes, 62,097 states | `SingleFlight`, `OneBootstrapAdmin`, `ReadyIsComplete`, `GateTrustsOwner`, `ReadyOrgLives`, `OrphansReported` |
| `wizard` | 2 requests, answers may be lost, 1 crash, one tab, fairness | passes, 255,119 states | `HomeAsksForOwner`, `GateFollowsReady`, `ProvisioningHasRun`; `FlightIsReleased`, `InstallResolves`, `WizardArrives`, `ComesBack` |
| `install_ready_is_final` | 2 requests, no faults | violated | a delayed duplicate takes a ready workspace back to provisioning |
| `install_leftovers` | 1 request, one failing call | violated | a failure after the MSP row leaves it, and retries trip over it |
| `install_stuck` | 1 request, 1 crash, fairness | violated | startup does not move a row left in provisioning |
| `team_safety` | 2 founders, 3 requests, 2 at a time, all procedures, calls succeed or fail | passes, 1,765,659 states | `EmailsUnique`, `InviteCleansUp`, `ArchivedHasNoGrant`, `LastAdminKept`, `SuspensionHolds` |
| `team_last_admin` | 2 founders, 2 requests at a time, no faults | violated | two demotions both pass the last-admin check |
| `patwatch` | 3 PATs, 4 changes of any kind, also during `New`, reads may fail, fairness | passes, 9,224 states | `NeverBlank`, `UpToDate`, `AnnouncedArrives` |
| `patwatch_secret` | 2 PATs, 1 symlink swap after startup, fairness | violated | a rotated Secret is never read |
| `zitadel` | 2 calls, 2 PATs, one rotation by write or rename, also during startup, reads may fail, PATs revoked at any time, fairness of the watcher | passes, 963,738 states | `AnswerIsTrue`, `RefusedOnlyInTheGap`, `NewPatIsUsed` |
| `authgate` | 2 requests of any path and token, 2 activations, fairness | passes, 139,968 states | `ServedByLoaded`, `StaysActive`, `EveryRequestAnswered`, `ImplementsGate` |
| `companies` | 3 requests, 2 at a time, 1 customer, 2 names, calls succeed or fail | passes, 218,476 states | `EagerOrg`, `RefusedIsClean`, `ArchivedIsFrozen`, `WorkspaceRowGuarded`, `RenameHeals` |

State counts are TLC's distinct states, after symmetry where it is used. Each module
also has one type invariant.

**Bounds.** Three install requests are the least with a finished run, a stale
duplicate that read the row before it ended, and a fresh retry; two crashes let a
process die, restart into what was left, and die again. Requests are interchangeable,
so the safety run uses their permutations as symmetry; temporal runs do not use
symmetry. For the safety properties the proofs below remove the bounds. In the wizard
run the tab's own request and one other give a failed run whose ids the page has read, a
retry that succeeds and a crash in between. Three team requests let an invite complete,
its member sign in, and a third request interfere with either; two at a time is what a
check-then-act race needs, and two founders are the least for a last-admin check that
may pass. `MaxConcurrent` is a bound of the model, not of the server. Four file changes
and three PATs give a completed rotation, one in progress and one to go back to. Two
calls of the client give a creation and its removal, a removal and its repetition, or a
late creation into a removed organisation; one rotation is enough to separate the PAT a
call carries from the one in memory, in the file and accepted by ZITADEL. `MCPatWatchSecret`
has no failing reads, so that its violation is due to the missing event alone. Two requests and two activations are enough for
requests that loaded different verifiers to contend for the cache; the proofs remove the
bound. Three company requests let a customer be archived and restored while a third
that read it earlier is still running, and two renames cross or follow a failed one.

**Deadlock.** All configurations switch the deadlock check off: the requests of an
instance are finite in number, and a server whose requests are over just waits.

**Fairness.** `Install!Fairness` says that a started request keeps running and that a
dead process is started again, as its supervisor does. The first rests on the Go
scheduler and on every call returning. For ZITADEL the 30 s of `http.Client` see to
that; the SQL statements of a run use `context.Background()` and have no deadline, so
that their return is an assumption about the driver and the connection. The model
does not derive that calls return: `FlightIsReleased` and `InstallResolves` say that no
path keeps the flag or stops short once they do. It does not ask that anybody
submits the wizard, that any call succeeds, or that anything crashes. `Wizard!WFairness`
adds that the supervisor restarts the process until its checks pass, that reading the
row and the discovery behind the activation do not fail for ever (strong fairness of a
`Serve` that activates the gate of a ready row), that the page's scripts run, and that
config.js is not unreadable on every reload; nobody has to visit or submit anything.
`Zitadel!FairZSpec` asks only that the watcher's goroutine runs: no call is ever assumed
to be made, handled or answered.
`PatWatch!Fairness` says that the goroutine runs and that a writer who truncated the
file goes on to fill it. `AuthGate!Fairness` says that the goroutine of an arrived
request runs, and that a waiter gets the mutex in the end (strong fairness of `Lock`):
`sync.Mutex` hands over to a waiter that has starved for a millisecond. No activation
has to begin or to succeed.

**Lost answers.** `ReadyOrgLives`, `InviteCleansUp`, `EagerOrg` and `RefusedIsClean`
are claims about what the code can know; with an unknown outcome they are false by
design (a lost `MarkWorkspaceReady` makes `fail` remove the organisation of a row that
says `ready`, an insert whose answer is lost is undone halfway). They are checked for
calls that succeed or fail. `OrphansReported` and the other invariants of `Install` are
proved with lost answers, and the wizard run has them. `OrphansReported` is about runs
that came to their end: a run that a crash killed never reaches `fail`, and its
organisation stays in ZITADEL unreported, as `docs/operations.md:229-235` admits.

**Disagreements with comments and docs.** The five violated runs each check what a
comment or `docs/operations.md` says; `PROJECT.json` quotes the lines under
`findings`.

## Proofs

`InstallProofs` proves, for every set of requests, every number of crashes and, but for
`ReadyOrgLivesHolds`, any mix of outcomes, lost answers included:

| Theorem | For | Argument |
|---|---|---|
| `TypeCorrect` | any processes | inductive by itself |
| `SingleFlightHolds` | any processes | inductive with the type invariant: the equivalence of the flag with a holder is what makes uniqueness of the holder inductive |
| `OneBootstrapAdminHolds` | any processes | `BootstrapInv`: a run that is about to insert the contact owns the company row, and one about to insert the grant made the contact |
| `ReadyIsCompleteHolds` | one process | `InstallInv`, below |
| `GateTrustsOwnerHolds` | one process | `InstallInv` |
| `ReadyOrgLivesHolds` | one process, no unknown outcome | `LifeInv`: a run that persists its ids has its application, and a run on its error path belongs to a row that is not ready; with `OwnerInv` no call changes an organisation while the row is ready |
| `OrphansReportedHolds` | any processes | `OrphanInv`: a run before `SetUpOrg` has no organisation, one that reaches `MarkWorkspaceFailed` removed or reported it, one that reaches `MarkWorkspaceReady` made its grant, and by `BootstrapInv` then owns the company row |

`InstallInv` adds to the two properties `OwnerInv`: while a run is between
`create_org` and `mark_ready` the row says provisioning; from `persist_ids` on the row
carries that run's ids; from `insert_company`, `insert_contact` and `insert_grant` on
the run owns the respective row. Neither property is inductive alone, since
`MarkReady` and `OnReady` write without looking, and `OwnerInv` needs `SingleFlight`,
because another run of the same process could overwrite the row in between. With two
replicas that is what happens, so the theorems that use it assume one process, which is
how `docs/operations.md` (K1, K5) has the install done.

The proofs rest on `ConstantsAssumption` of `Install`: requests are served by some
process, `NoOrg` is not a request, outcomes are the three named ones.

`AuthGateProofs` proves, for any number of requests and activations:

| Theorem | Argument |
|---|---|
| `TypeCorrect` | inductive by itself |
| `ServedByLoadedHolds` | `GateInv`: whoever is in the critical section holds the mutex; the cached chain belongs to the cached pointer except between the two assignments of its holder; a request that compiled or found a chain has that of its own pointer |
| `StaysActiveHolds` | `ActiveInv`: after a finished activation the pointer is not nil |
| `Refinement` | initial states map to initial states; with `GateInv`, `Store` maps to `Install` of `Gate`, `Arrive` to `Arrives`, `Load` to `Judge`, `Open` and `Serve` to `Answer`, and every other step to a stutter |

`ServedByLoaded` alone is not inductive: a request takes whatever is in the cache, and
only the mutex keeps another one from replacing it after the comparison. These proofs
assume only that a nil pointer is no verifier and that `NoReq` is no request.

`WizardProofs` shows that every step of `Wizard` is a step of `Install` or leaves its
state alone, so that `WSpec => Spec` (`ImplementsInstall`) and every theorem above holds
of the whole. On top of that:

| Theorem | For | Argument |
|---|---|---|
| `WTypeCorrect` | any processes | inductive by itself; a page's config is the rendering of some run's ids, or the placeholders |
| `HomeAsksForOwnerHolds` | one process | `HomeInv`: the owner row and the grant that the page relied on when it was shown are never taken away (`OwnerStays`), and only a page that agrees with a ready row is shown (`HomeIsCurrent`, from `ReadyIsComplete`); an active gate has the same owner by `GateTrustsOwner` |
| `GateFollowsReadyHolds` | one process | inductive by itself: each step after which a ready row is served without a gate is one that `degraded` records, or `MarkReady` |
| `ProvisioningHasRunHolds` | any processes | `WorkInv`: the run that a provisioning row has is before `on_ready` and before `release`; a run at `release` would satisfy the property and is about to break it |

`TeamProofs` proves, for any founders, emails, requests and concurrency:

| Theorem | Outcomes | Argument |
|---|---|---|
| `TypeCorrect` | any | `BaseInv`: with the types, what each step knows of its call, and that a grant a member update has loaded exists |
| `EmailsUniqueHolds` | any | inductive with `BaseInv`: insert and update are the only writes of an email and the index guards both, and no archived row returns |
| `SuspensionHoldsAlways` | any | action property, from `RowInv` and the list of all writes to a grant (`GrantChanges`): an invite inserts its grant once, a first sign-in writes a pending grant only |
| `ArchivedHasNoGrantHolds` | any | `ArchiveInv`: from the check of `ArchiveContact` on, the contact has no grant and no invite about to insert one, or is in `raced` |
| `LastAdminKeptHolds` | any | `AdminInv`: while nothing has crossed or raced, a request that is past its check and takes an admin away leaves another one on the list, and goes on doing so until it writes |
| `InviteCleansUpHolds` | no unknown outcome | `InviteInv`: where the user, the contact and the grant of an invite are at each of its steps; `FounderInv` for the members who were not invited |

`LastAdminKept` alone is not inductive, for the check and the write are two statements;
`AdminInv` says what the check has established, and its proof needs that every other
step that could take the second admin away is a member update (which would be a
crossing), or an archive, which `ArchiveInv` keeps away from members. The count of
active admins enters through the library's theorems on finite sets. These proofs assume
that there is a founder, the admin whom the install makes, that founders are not
requests, and that the empty email is not an email.

`CompaniesProofs` proves, for any customers, names, requests and concurrency:

| Theorem | Outcomes | Argument |
|---|---|---|
| `TypeCorrect` | any | inductive with `CallInv`, what each step knows of its call |
| `ArchivedIsFrozenHolds`, `WorkspaceRowGuardedHolds` | any | action properties, from `RowChanges`, the list of all ways a row can change, and `RowInv`: a company has no row before its insert, and the MSP row is active |
| `EagerOrgHolds` | no unknown outcome | `OrgInv`: an organisation without a row is on its way to the insert or in the log |
| `RefusedIsCleanHolds` | no unknown outcome | `WroteInv`: a request that wrote is at a step that cannot end in an error |
| `RenameHealsHolds` | any | action property, `RenameInv`: between its two writes an uncrossed rename finds its own name in the MSP row |

`PatWatchProofs` and `ZitadelProofs` prove, for any PATs, rotations and calls:

| Theorem | Argument |
|---|---|
| `TypeCorrect`, `ZTypeCorrect` | inductive; the second with `ProviderInv`: the client has its provider only after `New` returned |
| `NeverBlankHolds` | `KnownGood`: there is a PAT in memory from the initial read on, one step before `New` returns |
| `UpToDateHolds` | `FreshInv`: while no event of the file's name is queued, a content that counts as announced is in memory or in the variable `reload` is about to store; a change before the watch is registered is not announced |
| `ImplementsPatWatch` | every step of the client, of ZITADEL and of the operator is a step of `PatWatch` or leaves its state alone |
| `AnswerIsTrueHolds` | `CallInv`: a call that was not sent is unknown to ZITADEL; what exists is in an organisation that exists; a request names ids that were answered to earlier calls; an answer on its way is true. Without the tree of organisations a late creation could bring back what a removal reported gone |
| `RefusedOnlyInTheGapHolds` | `PatInv`: a request on its way carries a PAT and, outside the gap, one that is not revoked if somebody waits for the answer. A call sent when the watcher has caught up carries the file's PAT, by `UpToDateHolds`; that it carries one at all is `NeverBlankHolds` with `ProviderInv` |

Nothing is assumed about when the operator revokes a PAT, only that a PAT written into
the file was not used before. A request to remove a user names the organisation the user
was made in, as the team handler does.

The hypothesis "no unknown outcome" (`"lost" \notin Outcomes`) and the hypothesis "one
process" stand in the theorems, not in assumptions of a module, and are the ones under
which the runs check the same properties; "Lost answers" above says why they are needed.

**Only model-checked** are the temporal properties `FlightIsReleased`,
`InstallResolves`, `WizardArrives`, `ComesBack`, `AnnouncedArrives`,
`EveryRequestAnswered` and `NewPatIsUsed`: liveness under fairness is out of the
prover's reach.

## Not modelled

- The last-seen throttle of the authorization middleware: a map under one mutex that
  decides whether a display column is written; no decision reads either.
- The derivation of the contract beyond its two scopes: issuer, management URL and
  audience are functions of configuration and project id, written together.
- The generated message types (`*.pb.go`) and the conversions between rows and
  messages: accessors and field copies without state or branches of their own.
- The configuration loader, migrations, health endpoints and HTTP serving are the
  runtime library's; the failures that matter are outcomes of `Prepare`.
- The pages behind the login, scripts and container files.
- A PAT written in several pieces, of which one is a non-empty prefix: the writers in
  `scripts/` and the kubelet replace the content at once.
- Lost file events: when the kernel's event queue overflows, or the watch reports an
  error, `loop` only logs it, and a rotation whose events were dropped stays unread until
  the next one. The queue of `PatWatch` never drops an event.
- Replicas in the wizard run: another replica's gate stays inactive until it restarts,
  which `docs/operations.md` (K1, K5) excludes; `Install` itself has any number of
  processes, and the proofs for any processes cover them.

## Plan

1. An abstract specification of the install (a workspace that is set up once or fails)
   which `Install` implements when no duplicate is delayed, with its refinement proved.
2. The safety parts of the liveness arguments as theorems: what `FlightIsReleased` and
   `ComesBack` rest on is that a holder of the flag, and a process that is down, always
   has a step to take.
