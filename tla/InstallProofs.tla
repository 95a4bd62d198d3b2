---------------------------- MODULE InstallProofs ----------------------------
(***************************************************************************)
(* Proofs about Install, for any set of requests, any set of processes,    *)
(* any mix of call outcomes and any number of crashes.                     *)
(***************************************************************************)
EXTENDS Install, TLAPS

(***************************************************************************)
(* Every step of a request, the handler's and the orchestrator's, and      *)
(* every crash and restart keep the state well typed.                      *)
(***************************************************************************)
LEMMA TypeStep == TypeOK /\ [Next]_vars => TypeOK'
<1> USE ConstantsAssumption
<1> SUFFICES ASSUME TypeOK, [Next]_vars PROVE TypeOK'
  OBVIOUS
<1> USE DEF TypeOK, Steps, HandlerSteps, RunSteps, FinalSteps, LiveOrg,
            WsStates, At, Goto, Return, Landed, database, process,
            GetWorkspace, MarkWorkspaceProvisioning,
            MarkWorkspaceReady, MarkWorkspaceFailed, PersistZitadelIDs,
            CreateWorkspaceCompany
<1>1. ASSUME NEW r \in Reqs, Arrive(r) PROVE TypeOK'
  BY <1>1 DEF Arrive
<1>2. ASSUME NEW r \in Reqs, ReadRow(r) PROVE TypeOK'
  BY <1>2 DEF ReadRow
<1>3. ASSUME NEW r \in Reqs, TakeFlight(r) PROVE TypeOK'
  BY <1>3 DEF TakeFlight
<1>4. ASSUME NEW r \in Reqs, MarkProvisioning(r) PROVE TypeOK'
  BY <1>4 DEF MarkProvisioning
<1>5. ASSUME NEW r \in Reqs, CreateOrg(r) PROVE TypeOK'
  BY <1>5 DEF CreateOrg
<1>6. ASSUME NEW r \in Reqs, CreateProject(r) PROVE TypeOK'
  BY <1>6 DEF CreateProject
<1>7. ASSUME NEW r \in Reqs, CreateOIDCApp(r) PROVE TypeOK'
  BY <1>7 DEF CreateOIDCApp
<1>8. ASSUME NEW r \in Reqs, PersistIDs(r) PROVE TypeOK'
  BY <1>8 DEF PersistIDs
<1>9. ASSUME NEW r \in Reqs, InsertCompany(r) PROVE TypeOK'
  BY <1>9 DEF InsertCompany
<1>10. ASSUME NEW r \in Reqs, InsertContact(r) PROVE TypeOK'
  BY <1>10 DEF InsertContact
<1>11. ASSUME NEW r \in Reqs, InsertGrant(r) PROVE TypeOK'
  BY <1>11 DEF InsertGrant
<1>12. ASSUME NEW r \in Reqs, MarkReady(r) PROVE TypeOK'
  BY <1>12 DEF MarkReady
<1>13. ASSUME NEW r \in Reqs, OnReady(r) PROVE TypeOK'
  BY <1>13 DEF OnReady
<1>14. ASSUME NEW r \in Reqs, RemoveOrg(r) PROVE TypeOK'
  BY <1>14 DEF RemoveOrg
<1>15. ASSUME NEW r \in Reqs, MarkFailed(r) PROVE TypeOK'
  BY <1>15 DEF MarkFailed
<1>16. ASSUME NEW r \in Reqs, Release(r) PROVE TypeOK'
  BY <1>16 DEF Release
<1>17. ASSUME NEW p \in Procs, Crash(p) PROVE TypeOK'
  BY <1>17 DEF Crash
<1>18. ASSUME NEW p \in Procs, Boot(p) PROVE TypeOK'
  BY <1>18 DEF Boot
<1>19. CASE UNCHANGED vars
  BY <1>19 DEF vars
<1> QED
  BY <1>1, <1>2, <1>3, <1>4, <1>5, <1>6, <1>7, <1>8, <1>9, <1>10, <1>11,
     <1>12, <1>13, <1>14, <1>15, <1>16, <1>17, <1>18, <1>19
  DEF Next, Handler, Run

\* The type invariant of Install holds in every reachable state.
THEOREM TypeCorrect == Spec => []TypeOK
<1>1. Init => TypeOK
  BY ConstantsAssumption
  DEF Init, TypeOK, Steps, HandlerSteps, RunSteps, FinalSteps, LiveOrg, WsStates
<1> QED
  BY <1>1, TypeStep, PTL DEF Spec

------------------------------------------------------------------------------
(***************************************************************************)
(* SingleFlight is inductive together with the type invariant: the flag is *)
(* raised only by the request that takes it, and lowered only by the one   *)
(* that holds it or by the crash that ends all of its process's requests.  *)
(***************************************************************************)
LEMMA FlightStep == TypeOK /\ SingleFlight /\ [Next]_vars => SingleFlight'
<1> USE ConstantsAssumption
<1> SUFFICES ASSUME TypeOK, SingleFlight, [Next]_vars PROVE SingleFlight'
  OBVIOUS
<1> USE DEF TypeOK, SingleFlight, Holding, Steps, HandlerSteps, RunSteps,
            FinalSteps, At, Goto, Return, Landed, database, process,
            GetWorkspace, MarkWorkspaceProvisioning,
            MarkWorkspaceReady, MarkWorkspaceFailed, PersistZitadelIDs,
            CreateWorkspaceCompany
<1>1. ASSUME NEW r \in Reqs, Arrive(r) PROVE SingleFlight'
  <2>1. /\ pc[r] = "idle"
        /\ \/ pc' = [pc EXCEPT ![r] = "read_row"]
           \/ pc' = [pc EXCEPT ![r] = "refused"]
        /\ UNCHANGED <<ws, orgs, database, reported, process>>
    BY <1>1 DEF Arrive
  <2> QED
    BY <2>1
<1>2. ASSUME NEW r \in Reqs, ReadRow(r) PROVE SingleFlight'
  BY <1>2 DEF ReadRow
<1>3. ASSUME NEW r \in Reqs, TakeFlight(r) PROVE SingleFlight'
  BY <1>3 DEF TakeFlight
<1>4. ASSUME NEW r \in Reqs, MarkProvisioning(r) PROVE SingleFlight'
  <2>1. PICK o \in Outcomes :
           /\ inflight' = [inflight EXCEPT ![On[r]] = (o = "ok")]
           /\ Return(r, o, "create_org", "refused")
    BY <1>4 DEF MarkProvisioning
  <2>2. pc[r] = "mark_provisioning"
    BY <1>4 DEF MarkProvisioning
  <2>3. CASE o = "ok"
    <3>1. /\ inflight' = [inflight EXCEPT ![On[r]] = TRUE]
          /\ pc' = [pc EXCEPT ![r] = "create_org"]
      BY <2>1, <2>3
    <3> QED
      BY <2>2, <3>1
  <2>4. CASE o # "ok"
    <3>1. /\ inflight' = [inflight EXCEPT ![On[r]] = FALSE]
          /\ pc' = [pc EXCEPT ![r] = "refused"]
      BY <2>1, <2>4
    <3> QED
      BY <2>2, <3>1
  <2> QED
    BY <2>3, <2>4
<1>5. ASSUME NEW r \in Reqs, CreateOrg(r) PROVE SingleFlight'
  BY <1>5 DEF CreateOrg
<1>6. ASSUME NEW r \in Reqs, CreateProject(r) PROVE SingleFlight'
  BY <1>6 DEF CreateProject
<1>7. ASSUME NEW r \in Reqs, CreateOIDCApp(r) PROVE SingleFlight'
  BY <1>7 DEF CreateOIDCApp
<1>8. ASSUME NEW r \in Reqs, PersistIDs(r) PROVE SingleFlight'
  BY <1>8 DEF PersistIDs
<1>9. ASSUME NEW r \in Reqs, InsertCompany(r) PROVE SingleFlight'
  BY <1>9 DEF InsertCompany
<1>10. ASSUME NEW r \in Reqs, InsertContact(r) PROVE SingleFlight'
  BY <1>10 DEF InsertContact
<1>11. ASSUME NEW r \in Reqs, InsertGrant(r) PROVE SingleFlight'
  BY <1>11 DEF InsertGrant
<1>12. ASSUME NEW r \in Reqs, MarkReady(r) PROVE SingleFlight'
  BY <1>12 DEF MarkReady
<1>13. ASSUME NEW r \in Reqs, OnReady(r) PROVE SingleFlight'
  BY <1>13 DEF OnReady
<1>14. ASSUME NEW r \in Reqs, RemoveOrg(r) PROVE SingleFlight'
  BY <1>14 DEF RemoveOrg
<1>15. ASSUME NEW r \in Reqs, MarkFailed(r) PROVE SingleFlight'
  BY <1>15 DEF MarkFailed
<1>16. ASSUME NEW r \in Reqs, Release(r) PROVE SingleFlight'
  BY <1>16 DEF Release
<1>17. ASSUME NEW p \in Procs, Crash(p) PROVE SingleFlight'
  BY <1>17 DEF Crash
<1>18. ASSUME NEW p \in Procs, Boot(p) PROVE SingleFlight'
  BY <1>18 DEF Boot
<1>19. CASE UNCHANGED vars
  BY <1>19 DEF vars
<1> QED
  BY <1>1, <1>2, <1>3, <1>4, <1>5, <1>6, <1>7, <1>8, <1>9, <1>10, <1>11,
     <1>12, <1>13, <1>14, <1>15, <1>16, <1>17, <1>18, <1>19
  DEF Next, Handler, Run

\* No two orchestrators of one process ever overlap, and the inflight flag
\* of Handler.Install is up exactly while one of them runs.
THEOREM SingleFlightHolds == Spec => []SingleFlight
<1>1. Init => SingleFlight
  BY ConstantsAssumption DEF Init, SingleFlight, Holding, RunSteps
<1> QED
  BY <1>1, TypeCorrect, FlightStep, PTL DEF Spec

------------------------------------------------------------------------------
(***************************************************************************)
(* OneBootstrapAdmin needs to know that a run that is about to insert the  *)
(* contact inserted the company, and one that is about to insert the grant *)
(* inserted the contact.                                                   *)
(***************************************************************************)
BootstrapInv ==
    /\ OneBootstrapAdmin
    /\ \A r \in Reqs :
          /\ pc[r] = "insert_contact" => r \in company
          /\ pc[r] = "insert_grant" => r \in contact

\* One lemma for the step: only InsertCompany adds an owner row, and only
\* when there is none.
LEMMA BootstrapStep == TypeOK /\ BootstrapInv /\ [Next]_vars => BootstrapInv'
<1> USE ConstantsAssumption
<1> SUFFICES ASSUME TypeOK, BootstrapInv, [Next]_vars PROVE BootstrapInv'
  OBVIOUS
<1> USE DEF TypeOK, BootstrapInv, OneBootstrapAdmin, FinalSteps,
            At, Goto, Return, Landed, database, process,
            GetWorkspace, MarkWorkspaceProvisioning,
            MarkWorkspaceReady, MarkWorkspaceFailed, PersistZitadelIDs,
            CreateWorkspaceCompany
<1>1. ASSUME NEW r \in Reqs, Arrive(r) PROVE BootstrapInv'
  BY <1>1 DEF Arrive
<1>2. ASSUME NEW r \in Reqs, ReadRow(r) PROVE BootstrapInv'
  BY <1>2 DEF ReadRow
<1>3. ASSUME NEW r \in Reqs, TakeFlight(r) PROVE BootstrapInv'
  BY <1>3 DEF TakeFlight
<1>4. ASSUME NEW r \in Reqs, MarkProvisioning(r) PROVE BootstrapInv'
  BY <1>4 DEF MarkProvisioning
<1>5. ASSUME NEW r \in Reqs, CreateOrg(r) PROVE BootstrapInv'
  BY <1>5 DEF CreateOrg
<1>6. ASSUME NEW r \in Reqs, CreateProject(r) PROVE BootstrapInv'
  BY <1>6 DEF CreateProject
<1>7. ASSUME NEW r \in Reqs, CreateOIDCApp(r) PROVE BootstrapInv'
  BY <1>7 DEF CreateOIDCApp
<1>8. ASSUME NEW r \in Reqs, PersistIDs(r) PROVE BootstrapInv'
  BY <1>8 DEF PersistIDs
<1>9. ASSUME NEW r \in Reqs, InsertCompany(r) PROVE BootstrapInv'
  BY <1>9 DEF InsertCompany
<1>10. ASSUME NEW r \in Reqs, InsertContact(r) PROVE BootstrapInv'
  BY <1>10 DEF InsertContact
<1>11. ASSUME NEW r \in Reqs, InsertGrant(r) PROVE BootstrapInv'
  BY <1>11 DEF InsertGrant
<1>12. ASSUME NEW r \in Reqs, MarkReady(r) PROVE BootstrapInv'
  BY <1>12 DEF MarkReady
<1>13. ASSUME NEW r \in Reqs, OnReady(r) PROVE BootstrapInv'
  BY <1>13 DEF OnReady
<1>14. ASSUME NEW r \in Reqs, RemoveOrg(r) PROVE BootstrapInv'
  BY <1>14 DEF RemoveOrg
<1>15. ASSUME NEW r \in Reqs, MarkFailed(r) PROVE BootstrapInv'
  BY <1>15 DEF MarkFailed
<1>16. ASSUME NEW r \in Reqs, Release(r) PROVE BootstrapInv'
  BY <1>16 DEF Release
<1>17. ASSUME NEW p \in Procs, Crash(p) PROVE BootstrapInv'
  BY <1>17 DEF Crash
<1>18. ASSUME NEW p \in Procs, Boot(p) PROVE BootstrapInv'
  BY <1>18 DEF Boot
<1>19. CASE UNCHANGED vars
  BY <1>19 DEF vars
<1> QED
  BY <1>1, <1>2, <1>3, <1>4, <1>5, <1>6, <1>7, <1>8, <1>9, <1>10, <1>11,
     <1>12, <1>13, <1>14, <1>15, <1>16, <1>17, <1>18, <1>19
  DEF Next, Handler, Run

\* The database holds the company, contact and grant of at most one install
\* run (Orchestrator.Run step 5b), with any number of replicas, retries,
\* crashes and calls of unknown outcome.
THEOREM OneBootstrapAdminHolds == Spec => []OneBootstrapAdmin
<1>1. Init => BootstrapInv
  BY DEF Init, BootstrapInv, OneBootstrapAdmin
<1>2. BootstrapInv => OneBootstrapAdmin
  BY DEF BootstrapInv
<1> QED
  BY <1>1, <1>2, TypeCorrect, BootstrapStep, PTL DEF Spec

------------------------------------------------------------------------------
(***************************************************************************)
(* The invariant behind ReadyIsComplete and GateTrustsOwner, for one       *)
(* process.  Single flight keeps every other run away from the row while   *)
(* one run is at work, so that                                             *)
(*   - from SetUpOrg up to MarkWorkspaceReady the row says `provisioning'  *)
(*     and is nobody else's;                                               *)
(*   - once the ids are persisted they stay this run's until it is over;   *)
(*   - the rows it inserted are there by the time it marks the row ready.  *)
(***************************************************************************)
Provisioning == {"create_org", "create_project", "create_oidc_app", "persist_ids",
                 "insert_company", "insert_contact", "insert_grant", "mark_ready"}

Persisted == {"insert_company", "insert_contact", "insert_grant", "mark_ready",
              "on_ready"}

OwnerInv ==
    \A r \in Reqs :
       /\ pc[r] \in Provisioning => ws.state = "provisioning"
       /\ pc[r] \in Persisted => ws.org = r
       /\ pc[r] \in {"insert_contact", "insert_grant", "mark_ready", "on_ready"} =>
             company = {r}
       /\ pc[r] \in {"insert_grant", "mark_ready", "on_ready"} => r \in contact
       /\ pc[r] \in {"mark_ready", "on_ready"} => r \in grant

InstallInv == OwnerInv /\ ReadyIsComplete /\ GateTrustsOwner

\* The step of that invariant, with one process.
LEMMA OwnerStep ==
  ASSUME NEW proc, Procs = {proc},
         TypeOK, SingleFlight, InstallInv, [Next]_vars
  PROVE  InstallInv'
<1> USE ConstantsAssumption
<1> USE DEF TypeOK, SingleFlight, Holding, RunSteps, InstallInv, OwnerInv,
            Provisioning, Persisted, ReadyIsComplete, GateTrustsOwner, FinalSteps,
            Eligible, At, Goto, Return, Landed, database, process,
            GetWorkspace, MarkWorkspaceProvisioning,
            MarkWorkspaceReady, MarkWorkspaceFailed, PersistZitadelIDs,
            CreateWorkspaceCompany
<1>1. ASSUME NEW r \in Reqs, Arrive(r) PROVE InstallInv'
  <2>1. /\ pc[r] = "idle"
        /\ \/ pc' = [pc EXCEPT ![r] = "read_row"]
           \/ pc' = [pc EXCEPT ![r] = "refused"]
        /\ UNCHANGED <<ws, orgs, database, reported, process>>
    BY <1>1 DEF Arrive
  <2> QED
    BY <2>1
<1>2. ASSUME NEW r \in Reqs, ReadRow(r) PROVE InstallInv'
  BY <1>2 DEF ReadRow
<1>3. ASSUME NEW r \in Reqs, TakeFlight(r) PROVE InstallInv'
  BY <1>3 DEF TakeFlight
<1>4. ASSUME NEW r \in Reqs, MarkProvisioning(r) PROVE InstallInv'
  BY <1>4 DEF MarkProvisioning
<1>5. ASSUME NEW r \in Reqs, CreateOrg(r) PROVE InstallInv'
  BY <1>5 DEF CreateOrg
<1>6. ASSUME NEW r \in Reqs, CreateProject(r) PROVE InstallInv'
  BY <1>6 DEF CreateProject
<1>7. ASSUME NEW r \in Reqs, CreateOIDCApp(r) PROVE InstallInv'
  BY <1>7 DEF CreateOIDCApp
<1>8. ASSUME NEW r \in Reqs, PersistIDs(r) PROVE InstallInv'
  BY <1>8 DEF PersistIDs
<1>9. ASSUME NEW r \in Reqs, InsertCompany(r) PROVE InstallInv'
  BY <1>9 DEF InsertCompany
<1>10. ASSUME NEW r \in Reqs, InsertContact(r) PROVE InstallInv'
  BY <1>10 DEF InsertContact
<1>11. ASSUME NEW r \in Reqs, InsertGrant(r) PROVE InstallInv'
  BY <1>11 DEF InsertGrant
<1>12. ASSUME NEW r \in Reqs, MarkReady(r) PROVE InstallInv'
  BY <1>12 DEF MarkReady
<1>13. ASSUME NEW r \in Reqs, OnReady(r) PROVE InstallInv'
  BY <1>13 DEF OnReady
<1>14. ASSUME NEW r \in Reqs, RemoveOrg(r) PROVE InstallInv'
  BY <1>14 DEF RemoveOrg
<1>15. ASSUME NEW r \in Reqs, MarkFailed(r) PROVE InstallInv'
  BY <1>15 DEF MarkFailed
<1>16. ASSUME NEW r \in Reqs, Release(r) PROVE InstallInv'
  BY <1>16 DEF Release
<1>17. ASSUME NEW p \in Procs, Crash(p) PROVE InstallInv'
  BY <1>17 DEF Crash
<1>18. ASSUME NEW p \in Procs, Boot(p) PROVE InstallInv'
  BY <1>18 DEF Boot
<1>19. CASE UNCHANGED vars
  BY <1>19 DEF vars
<1> QED
  BY <1>1, <1>2, <1>3, <1>4, <1>5, <1>6, <1>7, <1>8, <1>9, <1>10, <1>11,
     <1>12, <1>13, <1>14, <1>15, <1>16, <1>17, <1>18, <1>19
  DEF Next, Handler, Run

\* With one process, a ready workspace row names the run that made the MSP
\* company, the admin contact and the admin grant (Orchestrator.Run).
THEOREM ReadyIsCompleteHolds ==
  ASSUME NEW proc, Procs = {proc}
  PROVE  Spec => []ReadyIsComplete
<1>1. Init => InstallInv
  BY ConstantsAssumption
  DEF Init, InstallInv, OwnerInv, ReadyIsComplete, GateTrustsOwner,
      Provisioning, Persisted
<1>2. TypeOK /\ SingleFlight /\ InstallInv /\ [Next]_vars => InstallInv'
  BY OwnerStep
<1>3. InstallInv => ReadyIsComplete
  BY DEF InstallInv
<1> QED
  BY <1>1, <1>2, <1>3, TypeCorrect, SingleFlightHolds, PTL DEF Spec

\* With one process, an active auth gate (OnReady or main) verifies the
\* audience of the run that owns the MSP company and the admin grant.
THEOREM GateTrustsOwnerHolds ==
  ASSUME NEW proc, Procs = {proc}
  PROVE  Spec => []GateTrustsOwner
<1>1. Init => InstallInv
  BY ConstantsAssumption
  DEF Init, InstallInv, OwnerInv, ReadyIsComplete, GateTrustsOwner,
      Provisioning, Persisted
<1>2. TypeOK /\ SingleFlight /\ InstallInv /\ [Next]_vars => InstallInv'
  BY OwnerStep
<1>3. InstallInv => GateTrustsOwner
  BY DEF InstallInv
<1> QED
  BY <1>1, <1>2, <1>3, TypeCorrect, SingleFlightHolds, PTL DEF Spec
------------------------------------------------------------------------------
(***************************************************************************)
(* The invariant behind OrphansReported, for any number of processes: a    *)
(* run that has not called SetUpOrg has no organisation, one that reaches  *)
(* MarkWorkspaceFailed has removed it or reported it, and one that reaches *)
(* MarkWorkspaceReady has inserted its grant and so owns the company row.  *)
(***************************************************************************)
OrphanInv ==
    \A r \in Reqs :
       /\ pc[r] \in HandlerSteps \cup {"create_org", "refused"} =>
             orgs[r] = "absent"
       /\ pc[r] = "mark_failed" => orgs[r] \notin LiveOrg \/ r \in reported
       /\ pc[r] \in {"mark_ready", "on_ready"} => r \in grant
       /\ pc[r] \in {"release", "ended"} /\ orgs[r] \in LiveOrg =>
             r \in reported \/ r \in grant

\* The step of that invariant; grants and reports are never taken back.
LEMMA OrphanStep == TypeOK /\ OrphanInv /\ [Next]_vars => OrphanInv'
<1> USE ConstantsAssumption
<1> SUFFICES ASSUME TypeOK, OrphanInv, [Next]_vars PROVE OrphanInv'
  OBVIOUS
<1> USE DEF TypeOK, OrphanInv, HandlerSteps, FinalSteps, LiveOrg,
            At, Goto, Return, Landed, database, process
<1>1. ASSUME NEW r \in Reqs, Arrive(r) PROVE OrphanInv'
  BY <1>1 DEF Arrive
<1>2. ASSUME NEW r \in Reqs, ReadRow(r) PROVE OrphanInv'
  BY <1>2 DEF ReadRow
<1>3. ASSUME NEW r \in Reqs, TakeFlight(r) PROVE OrphanInv'
  BY <1>3 DEF TakeFlight
<1>4. ASSUME NEW r \in Reqs, MarkProvisioning(r) PROVE OrphanInv'
  BY <1>4 DEF MarkProvisioning
<1>5. ASSUME NEW r \in Reqs, CreateOrg(r) PROVE OrphanInv'
  BY <1>5 DEF CreateOrg
<1>6. ASSUME NEW r \in Reqs, CreateProject(r) PROVE OrphanInv'
  BY <1>6 DEF CreateProject
<1>7. ASSUME NEW r \in Reqs, CreateOIDCApp(r) PROVE OrphanInv'
  BY <1>7 DEF CreateOIDCApp
<1>8. ASSUME NEW r \in Reqs, PersistIDs(r) PROVE OrphanInv'
  BY <1>8 DEF PersistIDs
<1>9. ASSUME NEW r \in Reqs, InsertCompany(r) PROVE OrphanInv'
  BY <1>9 DEF InsertCompany
<1>10. ASSUME NEW r \in Reqs, InsertContact(r) PROVE OrphanInv'
  BY <1>10 DEF InsertContact
<1>11. ASSUME NEW r \in Reqs, InsertGrant(r) PROVE OrphanInv'
  BY <1>11 DEF InsertGrant
<1>12. ASSUME NEW r \in Reqs, MarkReady(r) PROVE OrphanInv'
  BY <1>12 DEF MarkReady
<1>13. ASSUME NEW r \in Reqs, OnReady(r) PROVE OrphanInv'
  BY <1>13 DEF OnReady
<1>14. ASSUME NEW r \in Reqs, RemoveOrg(r) PROVE OrphanInv'
  BY <1>14 DEF RemoveOrg
<1>15. ASSUME NEW r \in Reqs, MarkFailed(r) PROVE OrphanInv'
  BY <1>15 DEF MarkFailed
<1>16. ASSUME NEW r \in Reqs, Release(r) PROVE OrphanInv'
  BY <1>16 DEF Release
<1>17. ASSUME NEW p \in Procs, Crash(p) PROVE OrphanInv'
  BY <1>17 DEF Crash
<1>18. ASSUME NEW p \in Procs, Boot(p) PROVE OrphanInv'
  BY <1>18 DEF Boot
<1>19. CASE UNCHANGED vars
  BY <1>19 DEF vars
<1> QED
  BY <1>1, <1>2, <1>3, <1>4, <1>5, <1>6, <1>7, <1>8, <1>9, <1>10, <1>11,
     <1>12, <1>13, <1>14, <1>15, <1>16, <1>17, <1>18, <1>19
  DEF Next, Handler, Run

\* No run leaves an organisation behind without a word (the closure `fail' of
\* Orchestrator.Run), with any number of replicas, crashes and lost answers.
THEOREM OrphansReportedHolds == Spec => []OrphansReported
<1>1. Init => OrphanInv
  BY DEF Init, OrphanInv, HandlerSteps, LiveOrg
<1>2. OneBootstrapAdmin /\ OrphanInv => OrphansReported
  BY DEF OneBootstrapAdmin, OrphanInv, OrphansReported
<1> QED
  BY <1>1, <1>2, TypeCorrect, OneBootstrapAdminHolds, OrphanStep, PTL DEF Spec
------------------------------------------------------------------------------
(***************************************************************************)
(* The invariant behind ReadyOrgLives, for one process whose calls have no *)
(* unknown outcome: a run that persists its ids has its application, and a *)
(* run on its error path belongs to a row that is not ready, so what       *)
(* `fail' removes is never the organisation of a ready row.  A lost answer *)
(* to MarkWorkspaceReady is what breaks the second part.                   *)
(***************************************************************************)
LifeInv ==
    /\ \A r \in Reqs :
          /\ pc[r] \in Persisted \cup {"persist_ids"} => orgs[r] = "app"
          /\ pc[r] \in {"remove_org", "mark_failed"} => ws.state # "ready"
    /\ ReadyOrgLives

\* The step of that invariant.  While the row is ready no run is between
\* SetUpOrg and MarkWorkspaceReady (OwnerInv), so no call changes an org.
LEMMA LifeStep ==
  ASSUME NEW proc, Procs = {proc}, "lost" \notin Outcomes,
         TypeOK, SingleFlight, InstallInv, LifeInv, [Next]_vars
  PROVE  LifeInv'
<1> USE ConstantsAssumption
<1> USE DEF TypeOK, SingleFlight, Holding, RunSteps, InstallInv, OwnerInv,
            Provisioning, Persisted, LifeInv, ReadyOrgLives, FinalSteps,
            At, Goto, Return, Landed, database, process,
            GetWorkspace, MarkWorkspaceProvisioning,
            MarkWorkspaceReady, MarkWorkspaceFailed, PersistZitadelIDs,
            CreateWorkspaceCompany
<1>1. ASSUME NEW r \in Reqs, Arrive(r) PROVE LifeInv'
  <2>1. /\ pc[r] = "idle"
        /\ \/ pc' = [pc EXCEPT ![r] = "read_row"]
           \/ pc' = [pc EXCEPT ![r] = "refused"]
        /\ UNCHANGED <<ws, orgs, database, reported, process>>
    BY <1>1 DEF Arrive
  <2> QED
    BY <2>1
<1>2. ASSUME NEW r \in Reqs, ReadRow(r) PROVE LifeInv'
  BY <1>2 DEF ReadRow
<1>3. ASSUME NEW r \in Reqs, TakeFlight(r) PROVE LifeInv'
  BY <1>3 DEF TakeFlight
<1>4. ASSUME NEW r \in Reqs, MarkProvisioning(r) PROVE LifeInv'
  BY <1>4 DEF MarkProvisioning
<1>5. ASSUME NEW r \in Reqs, CreateOrg(r) PROVE LifeInv'
  BY <1>5 DEF CreateOrg
<1>6. ASSUME NEW r \in Reqs, CreateProject(r) PROVE LifeInv'
  BY <1>6 DEF CreateProject
<1>7. ASSUME NEW r \in Reqs, CreateOIDCApp(r) PROVE LifeInv'
  BY <1>7 DEF CreateOIDCApp
<1>8. ASSUME NEW r \in Reqs, PersistIDs(r) PROVE LifeInv'
  BY <1>8 DEF PersistIDs
<1>9. ASSUME NEW r \in Reqs, InsertCompany(r) PROVE LifeInv'
  BY <1>9 DEF InsertCompany
<1>10. ASSUME NEW r \in Reqs, InsertContact(r) PROVE LifeInv'
  BY <1>10 DEF InsertContact
<1>11. ASSUME NEW r \in Reqs, InsertGrant(r) PROVE LifeInv'
  BY <1>11 DEF InsertGrant
<1>12. ASSUME NEW r \in Reqs, MarkReady(r) PROVE LifeInv'
  BY <1>12 DEF MarkReady
<1>13. ASSUME NEW r \in Reqs, OnReady(r) PROVE LifeInv'
  BY <1>13 DEF OnReady
<1>14. ASSUME NEW r \in Reqs, RemoveOrg(r) PROVE LifeInv'
  BY <1>14 DEF RemoveOrg
<1>15. ASSUME NEW r \in Reqs, MarkFailed(r) PROVE LifeInv'
  BY <1>15 DEF MarkFailed
<1>16. ASSUME NEW r \in Reqs, Release(r) PROVE LifeInv'
  BY <1>16 DEF Release
<1>17. ASSUME NEW p \in Procs, Crash(p) PROVE LifeInv'
  BY <1>17 DEF Crash
<1>18. ASSUME NEW p \in Procs, Boot(p) PROVE LifeInv'
  BY <1>18 DEF Boot
<1>19. CASE UNCHANGED vars
  BY <1>19 DEF vars
<1> QED
  BY <1>1, <1>2, <1>3, <1>4, <1>5, <1>6, <1>7, <1>8, <1>9, <1>10, <1>11,
     <1>12, <1>13, <1>14, <1>15, <1>16, <1>17, <1>18, <1>19
  DEF Next, Handler, Run

\* With one process whose calls have no unknown outcome, the organisation and
\* the application a ready workspace signs in with are never removed by `fail'.
THEOREM ReadyOrgLivesHolds ==
  ASSUME NEW proc, Procs = {proc}, "lost" \notin Outcomes
  PROVE  Spec => []ReadyOrgLives
<1>1. Init => InstallInv /\ LifeInv
  BY ConstantsAssumption
  DEF Init, InstallInv, OwnerInv, ReadyIsComplete, GateTrustsOwner,
      Provisioning, Persisted, LifeInv, ReadyOrgLives
<1>2. TypeOK /\ SingleFlight /\ InstallInv /\ [Next]_vars => InstallInv'
  BY OwnerStep
<1>3. TypeOK /\ SingleFlight /\ InstallInv /\ LifeInv /\ [Next]_vars => LifeInv'
  BY LifeStep
<1>4. LifeInv => ReadyOrgLives
  BY DEF LifeInv
<1> QED
  BY <1>1, <1>2, <1>3, <1>4, TypeCorrect, SingleFlightHolds, PTL DEF Spec
==============================================================================
