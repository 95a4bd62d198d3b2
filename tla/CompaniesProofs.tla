--------------------------- MODULE CompaniesProofs ---------------------------
(***************************************************************************)
(* Proofs about Companies, for any set of requests, customers and names,   *)
(* any number of requests at a time and any mix of call outcomes; where a  *)
(* property is about what the code can know, for calls without an unknown  *)
(* outcome.                                                                *)
(***************************************************************************)
EXTENDS Companies, TLAPS

(***************************************************************************)
(* The UPDATEs change at most the row they are for, and never an archived  *)
(* one or the MSP's: what the WHERE clauses of companies.sql achieve.      *)
(***************************************************************************)
LEMMA UpdateCompanyRow ==
  ASSUME TypeOK, NEW c \in Companies, NEW n \in Names
  PROVE  /\ UpdateCompany(c, n) \in [Companies -> Rows]
         /\ \A d \in Companies : UpdateCompany(c, n)[d] # companies[d] =>
               /\ d = c /\ d # Msp
               /\ companies[d].state = "active"
               /\ UpdateCompany(c, n)[d].state = "active"
  BY DEF TypeOK, UpdateCompany, ActiveCustomers, ListCompanies, Rows

\* ArchiveCompany: an active customer row only.
LEMMA ArchiveCompanyRow ==
  ASSUME TypeOK, NEW c \in Companies
  PROVE  /\ ArchiveCompany(c) \in [Companies -> Rows]
         /\ \A d \in Companies : ArchiveCompany(c)[d] # companies[d] =>
               /\ d = c /\ d # Msp
               /\ companies[d].state = "active"
               /\ ArchiveCompany(c)[d].state = "archived"
  BY DEF TypeOK, ArchiveCompany, ActiveCustomers, ListCompanies, Rows

\* RestoreCompany: an archived customer row only, and not its name.
LEMMA RestoreCompanyRow ==
  ASSUME TypeOK, NEW c \in Companies
  PROVE  /\ RestoreCompany(c) \in [Companies -> Rows]
         /\ \A d \in Companies : RestoreCompany(c)[d] # companies[d] =>
               /\ d = c /\ d # Msp
               /\ companies[d].state = "archived"
               /\ RestoreCompany(c)[d].state = "active"
               /\ RestoreCompany(c)[d].name = companies[d].name
  BY DEF TypeOK, RestoreCompany, Rows

(***************************************************************************)
(* A request that is being served has a call, and is at a step of it.      *)
(***************************************************************************)
CallInv ==
    \A q \in Reqs :
       /\ pc[q] # "idle" => req[q] \in Calls(q)
       /\ pc[q] \in {"add_organization", "create_row"} => req[q].op = "create"
       /\ pc[q] = "update_row" => req[q].op = "update"
       /\ pc[q] \in {"update_workspace", "rename_org"} => req[q].op = "rename"

\* Every statement of every handler keeps the types and the call.
LEMMA CallStep == TypeOK /\ CallInv /\ [Next]_vars => TypeOK' /\ CallInv'
<1> USE ConstantsAssumption
<1> SUFFICES ASSUME TypeOK, CallInv, [Next]_vars PROVE TypeOK' /\ CallInv'
  OBVIOUS
<1> USE DEF TypeOK, CallInv, Steps, Outside, Goto, Return, Landed, Write
<1>1. ASSUME NEW q \in Reqs, Arrive(q) PROVE TypeOK' /\ CallInv'
  BY <1>1 DEF Arrive
<1>2. ASSUME NEW q \in Reqs, RequireReady(q) PROVE TypeOK' /\ CallInv'
  BY <1>2 DEF RequireReady, FirstStep, Calls
<1>3. ASSUME NEW q \in Reqs, AddOrganization(q) PROVE TypeOK' /\ CallInv'
  BY <1>3 DEF AddOrganization, Calls, Companies
<1>4. ASSUME NEW q \in Reqs, CreateRow(q) PROVE TypeOK' /\ CallInv'
  BY <1>4 DEF CreateRow, Calls, Companies, CreateCompany, Rows
<1>5. ASSUME NEW q \in Reqs, UpdateRow(q) PROVE TypeOK' /\ CallInv'
  <2>1. req[q].target \in Companies /\ req[q].name \in Names
    BY <1>5 DEF UpdateRow, Calls
  <2> QED
    BY <1>5, <2>1, UpdateCompanyRow DEF UpdateRow
<1>6. ASSUME NEW q \in Reqs, Explain(q) \/ Hydrate(q) PROVE TypeOK' /\ CallInv'
  BY <1>6 DEF Explain, Hydrate
<1>7. ASSUME NEW q \in Reqs, GetActive(q) PROVE TypeOK' /\ CallInv'
  BY <1>7 DEF GetActive
<1>8. ASSUME NEW q \in Reqs, ArchiveRow(q) PROVE TypeOK' /\ CallInv'
  <2>1. req[q].target \in Companies
    BY <1>8 DEF ArchiveRow, Calls, Companies
  <2> QED
    BY <1>8, <2>1, ArchiveCompanyRow DEF ArchiveRow
<1>9. ASSUME NEW q \in Reqs, GetAny(q) PROVE TypeOK' /\ CallInv'
  BY <1>9 DEF GetAny
<1>10. ASSUME NEW q \in Reqs, RestoreRow(q) PROVE TypeOK' /\ CallInv'
  <2>1. req[q].target \in Companies
    BY <1>10 DEF RestoreRow, Calls, Companies
  <2> QED
    BY <1>10, <2>1, RestoreCompanyRow DEF RestoreRow
<1>11. ASSUME NEW q \in Reqs, UpdateWorkspace(q) PROVE TypeOK' /\ CallInv'
  BY <1>11 DEF UpdateWorkspace, UpdateWorkspaceCompany, Calls, Companies, Rows,
               Renaming
<1>12. ASSUME NEW q \in Reqs, RenameOrg(q) PROVE TypeOK' /\ CallInv'
  BY <1>12 DEF RenameOrg, Calls, Companies
<1>13. ASSUME NEW q \in Reqs, Read(q) \/ NotFound(q) PROVE TypeOK' /\ CallInv'
  BY <1>13 DEF Read, NotFound
<1>14. CASE UNCHANGED vars
  BY <1>14 DEF vars
<1> QED
  BY <1>1, <1>2, <1>3, <1>4, <1>5, <1>6, <1>7, <1>8, <1>9, <1>10, <1>11,
     <1>12, <1>13, <1>14
  DEF Next, Serve

\* What the remaining proofs of this module start from.
LEMMA CallInvariant == Spec => [](TypeOK /\ CallInv)
<1>1. Init => TypeOK /\ CallInv
  BY ConstantsAssumption
  DEF Init, TypeOK, CallInv, Companies, Rows, NoRow, Steps, Outside
<1> QED
  BY <1>1, CallStep, PTL DEF Spec

\* The tables and the requests of the companies service are well typed.
THEOREM TypeCorrect == Spec => []TypeOK
  BY CallInvariant, PTL

\* A request is moved by its own handler only.
LEMMA OwnStep ==
  ASSUME TypeOK, [Next]_vars, NEW q \in Reqs, pc'[q] # pc[q]
  PROVE  Arrive(q) \/ Serve(q)
<1>1. PICK p \in Reqs : Arrive(p) \/ Serve(p)
  BY DEF Next, vars
<1>2. \E step : pc' = [pc EXCEPT ![p] = step]
  BY <1>1 DEF Serve, Arrive, RequireReady, AddOrganization, CreateRow, UpdateRow,
              Explain, Hydrate, GetActive, ArchiveRow, GetAny, RestoreRow,
              UpdateWorkspace, RenameOrg, Read, NotFound, Goto, Return
<1>3. p = q
  BY <1>2 DEF TypeOK
<1> QED
  BY <1>1, <1>3

------------------------------------------------------------------------------
(***************************************************************************)
(* A company that a request creates has no row before the insert, and the  *)
(* MSP row is there and active.                                            *)
(***************************************************************************)
RowInv ==
    /\ \A q \in Reqs : companies[q] # NoRow => pc[q] \in {"hydrate", "done", "refused"}
    /\ companies[Msp].state = "active"

(***************************************************************************)
(* How a step may change the row of company d: the only writes are the     *)
(* insert, the updates of an active customer row, its archival, the        *)
(* restore of an archived one, and the rename of the MSP row.              *)
(***************************************************************************)
RowChange(d) ==
    LET row == companies[d]
    IN  \/ /\ pc[d] = "create_row" /\ d \in Reqs
           /\ row = NoRow /\ companies'[d].state = "active"
           /\ pc'[d] \in {"hydrate", "refused"}
        \/ /\ d # Msp /\ row.state = "active"
           /\ companies'[d].state \in {"active", "archived"}
        \/ /\ d # Msp /\ row.state = "archived" /\ companies'[d].state = "active"
           /\ companies'[d].name = row.name
           /\ \E q \in Reqs : pc[q] = "restore_row" /\ req[q].target = d
        \/ /\ d = Msp /\ companies'[d].state = row.state
           /\ \E q \in Reqs : pc[q] = "update_workspace" /\ companies'[d].name = req[q].name

\* Every step that changes a row changes it in one of those ways.
LEMMA RowChanges ==
  ASSUME TypeOK, CallInv, RowInv, [Next]_vars,
         NEW d \in Companies, companies'[d] # companies[d]
  PROVE  RowChange(d)
<1> USE ConstantsAssumption
<1> USE DEF RowChange
<1>1. PICK q \in Reqs :
         CreateRow(q) \/ UpdateRow(q) \/ ArchiveRow(q) \/ RestoreRow(q) \/ UpdateWorkspace(q)
  BY DEF Next, Serve, vars, Arrive, RequireReady, AddOrganization, Explain, Hydrate,
         GetActive, GetAny, RenameOrg, Read, NotFound
<1>2. /\ req[q] \in Calls(q) /\ req[q].target \in Companies
      /\ pc[q] \in {"create_row", "update_row", "update_workspace"} => req[q].name \in Names
      /\ Msp \in Companies /\ q \in Companies
  BY <1>1 DEF CreateRow, UpdateRow, ArchiveRow, RestoreRow, UpdateWorkspace,
              CallInv, Calls, Companies
<1>3. CASE CreateRow(q)
  <2>1. companies' = CreateCompany(q, req[q].name) /\ pc[q] = "create_row"
    BY <1>3 DEF CreateRow, Write
  <2>2. d = q /\ companies'[d] = [state |-> "active", name |-> req[q].name]
    BY <1>2, <2>1 DEF CreateCompany, TypeOK
  <2>3. pc'[q] \in {"hydrate", "refused"}
    BY <1>3 DEF CreateRow, Return, Goto, TypeOK
  <2> QED
    BY <2>1, <2>2, <2>3 DEF RowInv
<1>4. CASE UpdateRow(q)
  BY <1>2, <1>4, UpdateCompanyRow DEF UpdateRow, Write
<1>5. CASE ArchiveRow(q)
  BY <1>2, <1>5, ArchiveCompanyRow DEF ArchiveRow, Write
<1>6. CASE RestoreRow(q)
  BY <1>2, <1>6, RestoreCompanyRow DEF RestoreRow, Write
<1>7. CASE UpdateWorkspace(q)
  <2>1. companies' = UpdateWorkspaceCompany(req[q].name) /\ pc[q] = "update_workspace"
    BY <1>7 DEF UpdateWorkspace, Write
  <2> QED
    BY <1>2, <2>1 DEF UpdateWorkspaceCompany, TypeOK, Rows
<1> QED
  BY <1>1, <1>3, <1>4, <1>5, <1>6, <1>7

\* Only the insert makes a row, and none of the writes archives the MSP.
LEMMA RowStep == TypeOK /\ CallInv /\ RowInv /\ [Next]_vars => RowInv'
<1> USE ConstantsAssumption
<1> SUFFICES ASSUME TypeOK, CallInv, RowInv, [Next]_vars PROVE RowInv'
  OBVIOUS
<1>1. Msp \in Companies /\ Reqs \subseteq Companies
  BY DEF Companies
<1>2. companies'[Msp].state = "active"
  BY <1>1, RowChanges DEF RowInv, RowChange
<1>3. ASSUME NEW q \in Reqs, companies'[q] # NoRow
      PROVE  pc'[q] \in {"hydrate", "done", "refused"}
  <2>1. companies[q] # NoRow \/ pc[q] = "create_row"
    <3>1. CASE companies'[q] # companies[q]
      BY <1>1, <3>1, RowChanges DEF RowChange, NoRow
    <3> QED
      BY <1>3, <3>1
  <2>2. pc[q] \in {"hydrate", "done", "refused", "create_row"}
    BY <2>1 DEF RowInv
  <2>3. CASE pc[q] # "create_row"
    BY <2>2, <2>3
    DEF TypeOK, Next, Serve, vars, Arrive, RequireReady, AddOrganization, CreateRow,
        UpdateRow, Explain, Hydrate, GetActive, ArchiveRow, GetAny, RestoreRow,
        UpdateWorkspace, RenameOrg, Read, NotFound, Goto, Return
  <2>4. CASE pc[q] = "create_row" /\ companies'[q] # companies[q]
    <3>1. RowChange(q)
      BY <1>1, <2>4, RowChanges
    <3>2. q # Msp /\ companies[q] = NoRow
      BY <2>4 DEF RowInv
    <3> QED
      BY <3>1, <3>2 DEF RowChange, NoRow
  <2> QED
    BY <1>3, <2>1, <2>3, <2>4 DEF RowInv
<1> QED
  BY <1>2, <1>3 DEF RowInv

\* RowInv holds in every reachable state.
LEMMA RowInvariant == Spec => [](TypeOK /\ CallInv /\ RowInv)
<1>1. Init => RowInv
  BY ConstantsAssumption DEF Init, RowInv, Companies
<1> QED
  BY <1>1, CallInvariant, RowStep, PTL DEF Spec

\* The WHERE clauses freeze an archived row: no request that looked before the
\* archival changes it, and only RestoreCompany brings it back.
THEOREM ArchivedIsFrozenHolds == Spec => ArchivedIsFrozen
<1>1. TypeOK /\ CallInv /\ RowInv /\ [Next]_vars =>
        \A c \in Companies : companies[c].state = "archived" =>
          /\ companies'[c].name = companies[c].name
          /\ \/ companies'[c].state = "archived"
             \/ \E q \in Reqs : pc[q] = "restore_row" /\ req[q].target = c
  <2> SUFFICES ASSUME TypeOK, CallInv, RowInv, [Next]_vars,
                      NEW c \in Companies, companies[c].state = "archived"
               PROVE  /\ companies'[c].name = companies[c].name
                      /\ \/ companies'[c].state = "archived"
                         \/ \E q \in Reqs : pc[q] = "restore_row" /\ req[q].target = c
    OBVIOUS
  <2>1. CASE companies'[c] # companies[c]
    BY <2>1, RowChanges DEF RowChange, RowInv, NoRow
  <2> QED
    BY <2>1
<1> QED
  BY <1>1, RowInvariant, PTL DEF Spec, ArchivedIsFrozen

\* The MSP row is never archived, and only UpdateWorkspaceCompany renames it.
THEOREM WorkspaceRowGuardedHolds == Spec => WorkspaceRowGuarded
<1>1. TypeOK /\ CallInv /\ RowInv /\ [Next]_vars =>
        /\ companies'[Msp].state = "active"
        /\ GetWorkspaceCompany' # GetWorkspaceCompany =>
              \E q \in Reqs : pc[q] = "update_workspace"
  <2> SUFFICES ASSUME TypeOK, CallInv, RowInv, [Next]_vars
               PROVE  /\ companies'[Msp].state = "active"
                      /\ companies'[Msp] # companies[Msp] =>
                            \E q \in Reqs : pc[q] = "update_workspace"
    BY DEF GetWorkspaceCompany
  <2>1. Msp \in Companies /\ Msp \notin Reqs
    BY ConstantsAssumption DEF Companies
  <2>2. CASE companies'[Msp] # companies[Msp]
    BY <2>1, <2>2, RowChanges DEF RowChange, RowInv
  <2> QED
    BY <2>2 DEF RowInv
<1> QED
  BY <1>1, RowInvariant, PTL DEF Spec, WorkspaceRowGuarded

------------------------------------------------------------------------------
(***************************************************************************)
(* The eager-org rule, made inductive: the organisation is there before    *)
(* the insert, and one without a row is on its way to the insert or in the *)
(* log.  A call of unknown outcome may leave an organisation nobody knows  *)
(* of, hence the assumption.                                               *)
(***************************************************************************)
OrgInv ==
    /\ \A c \in Companies : companies[c] # NoRow => org[c] # NoName
    /\ \A q \in Reqs :
          /\ pc[q] = "create_row" => org[q] # NoName
          /\ org[q] # NoName /\ companies[q] = NoRow =>
                pc[q] = "create_row" \/ q \in logged

\* Organisations only appear: with AddOrganization, or renamed with the MSP's.
LEMMA OrgChanges ==
  ASSUME TypeOK, CallInv, [Next]_vars, NEW c \in Companies, org'[c] # org[c]
  PROVE  /\ org'[c] # NoName
         /\ c = Msp \/ (c \in Reqs /\ pc[c] = "add_organization" /\ AddOrganization(c))
<1>1. PICK q \in Reqs : AddOrganization(q) \/ RenameOrg(q)
  BY DEF Next, Serve, vars, Arrive, RequireReady, CreateRow, UpdateRow, Explain,
         Hydrate, GetActive, ArchiveRow, GetAny, RestoreRow, UpdateWorkspace, Read, NotFound
<1>2. req[q].name \in Names
  BY <1>1 DEF AddOrganization, RenameOrg, CallInv, Calls
<1> QED
  BY <1>1, <1>2, ConstantsAssumption DEF AddOrganization, RenameOrg, TypeOK

\* CreateRow inserts or logs, and no step takes an organisation away.
LEMMA OrgStep ==
  ASSUME "lost" \notin Outcomes
  PROVE  TypeOK /\ CallInv /\ RowInv /\ OrgInv /\ [Next]_vars => OrgInv'
<1> USE ConstantsAssumption
<1> SUFFICES ASSUME TypeOK, CallInv, RowInv, OrgInv, [Next]_vars PROVE OrgInv'
  OBVIOUS
<1>1. Msp \in Companies /\ Msp \notin Reqs /\ Reqs \subseteq Companies
  BY DEF Companies
<1>2. ASSUME NEW c \in Companies, companies'[c] # NoRow PROVE org'[c] # NoName
  <2>1. CASE companies'[c] # companies[c]
    BY <2>1, RowChanges, OrgChanges DEF RowChange, OrgInv, RowInv, NoRow
  <2> QED
    BY <1>2, <2>1, OrgChanges DEF OrgInv
<1>3. ASSUME NEW q \in Reqs, pc'[q] = "create_row" PROVE org'[q] # NoName
  <2>1. CASE pc[q] = "create_row"
    BY <1>1, <2>1, OrgChanges DEF OrgInv
  <2>2. CASE pc[q] # "create_row"
    <3>1. AddOrganization(q)
      <4>1. Arrive(q) \/ Serve(q)
        BY <1>3, <2>2, OwnStep
      <4> QED
        BY <1>3, <2>2, <4>1
        DEF TypeOK, CallInv, Calls, Serve, Arrive, RequireReady, FirstStep, CreateRow,
            UpdateRow, Explain, Hydrate, GetActive, ArchiveRow, GetAny, RestoreRow,
            UpdateWorkspace, RenameOrg, Read, NotFound, Goto, Return
    <3> QED
      BY <1>1, <1>3, <3>1 DEF AddOrganization, Landed, Return, Goto, TypeOK, CallInv, Calls
  <2> QED
    BY <2>1, <2>2
<1>4. ASSUME NEW q \in Reqs, org'[q] # NoName, companies'[q] = NoRow
      PROVE  pc'[q] = "create_row" \/ q \in logged'
  <2>1. companies[q] = NoRow
    BY <1>1, <1>4, RowChanges DEF RowChange, NoRow
  <2>2. logged \subseteq logged'
    BY DEF Next, Serve, vars, Arrive, RequireReady, AddOrganization, CreateRow,
        UpdateRow, Explain, Hydrate, GetActive, ArchiveRow, GetAny, RestoreRow,
        UpdateWorkspace, RenameOrg, Read, NotFound
  <2>3. CASE org'[q] # org[q]
    <3>1. AddOrganization(q)
      BY <1>1, <2>3, OrgChanges
    <3> QED
      BY <2>3, <3>1 DEF AddOrganization, Landed, Return, Goto, TypeOK
  <2>4. CASE org'[q] = org[q] /\ pc[q] = "create_row" /\ q \notin logged /\ pc'[q] # pc[q]
    <3>1. CreateRow(q)
      BY <2>4, OwnStep
      DEF Serve, Arrive, RequireReady, AddOrganization, UpdateRow, Explain, Hydrate,
          GetActive, ArchiveRow, GetAny, RestoreRow, UpdateWorkspace, RenameOrg, Read,
          NotFound
    <3>2. PICK o \in Outcomes :
            /\ Write(q, o, CreateCompany(q, req[q].name))
            /\ logged' = IF o = "ok" THEN logged ELSE logged \cup {q}
      BY <3>1 DEF CreateRow
    <3>3. o # "ok"
      BY <1>1, <1>4, <3>2 DEF Write, Landed, CreateCompany, NoRow, TypeOK
    <3> QED
      BY <3>2, <3>3
  <2> QED
    BY <1>4, <2>1, <2>2, <2>3, <2>4 DEF OrgInv
<1> QED
  BY <1>2, <1>3, <1>4 DEF OrgInv

\* A company row always has its organisation, and an organisation that a
\* failed CreateCompany left behind is in the log.
THEOREM EagerOrgHolds ==
  ASSUME "lost" \notin Outcomes
  PROVE  Spec => []EagerOrg
<1>1. Init => OrgInv
  BY ConstantsAssumption DEF Init, OrgInv, Companies, NoRow
<1>2. OrgInv => EagerOrg
  BY DEF OrgInv, EagerOrg
<1> QED
  BY <1>1, <1>2, RowInvariant, OrgStep, PTL DEF Spec
------------------------------------------------------------------------------
(***************************************************************************)
(* RefusedIsClean, made inductive: a request that wrote a row is on its    *)
(* way to its answer along steps that cannot fail any more.                *)
(***************************************************************************)
WroteInv == \A q \in wrote : pc[q] \in {"hydrate", "rename_org", "done"}

\* The write is the last step of a handler that can end in an error.
LEMMA WroteStep ==
  ASSUME "lost" \notin Outcomes
  PROVE  TypeOK /\ CallInv /\ WroteInv /\ [Next]_vars => WroteInv'
<1> USE ConstantsAssumption
<1> SUFFICES ASSUME TypeOK, CallInv, WroteInv, [Next]_vars, NEW q \in wrote'
             PROVE  pc'[q] \in {"hydrate", "rename_org", "done"}
  BY DEF WroteInv
<1> USE DEF Goto, Return
<1>1. CASE q \in wrote
  <2>1. q \in Reqs /\ pc[q] \in {"hydrate", "rename_org", "done"}
    BY <1>1 DEF WroteInv, TypeOK
  <2>2. CASE pc'[q] # pc[q]
    <3>1. Hydrate(q) \/ RenameOrg(q)
      BY <2>1, <2>2, OwnStep
      DEF Serve, Arrive, RequireReady, AddOrganization, CreateRow, UpdateRow, Explain,
          GetActive, ArchiveRow, GetAny, RestoreRow, UpdateWorkspace, Read, NotFound
    <3> QED
      BY <2>1, <3>1 DEF Hydrate, RenameOrg, TypeOK
  <2> QED
    BY <2>1, <2>2
<1>2. CASE q \notin wrote
  <2>1. PICK p \in Reqs : CreateRow(p) \/ UpdateRow(p) \/ ArchiveRow(p) \/ RestoreRow(p)
                          \/ UpdateWorkspace(p)
    BY <1>2 DEF Next, Serve, vars, Arrive, RequireReady, AddOrganization, Explain, Hydrate,
           GetActive, GetAny, RenameOrg, Read, NotFound
  <2>2. /\ p = q /\ companies' # companies
        /\ req[p].target \in Companies
    BY <1>2, <2>1 DEF CreateRow, UpdateRow, ArchiveRow, RestoreRow, UpdateWorkspace, Write,
                      CallInv, Calls, Companies
  <2>3. CASE CreateRow(p) \/ ArchiveRow(p) \/ UpdateWorkspace(p)
    BY <2>2, <2>3 DEF CreateRow, ArchiveRow, UpdateWorkspace, Write, Landed, TypeOK
  <2>4. CASE UpdateRow(p)
    BY <2>2, <2>4 DEF UpdateRow, UpdateCompany, Write, Landed, TypeOK
  <2>5. CASE RestoreRow(p)
    BY <2>2, <2>5 DEF RestoreRow, Write, Landed, TypeOK
  <2> QED
    BY <2>1, <2>3, <2>4, <2>5
<1> QED
  BY <1>1, <1>2

\* A request that was answered with an error changed no company row.
THEOREM RefusedIsCleanHolds ==
  ASSUME "lost" \notin Outcomes
  PROVE  Spec => []RefusedIsClean
<1>1. Init => WroteInv
  BY DEF Init, WroteInv
<1>2. WroteInv => RefusedIsClean
  BY DEF WroteInv, RefusedIsClean
<1> QED
  BY <1>1, <1>2, CallInvariant, WroteStep, PTL DEF Spec

------------------------------------------------------------------------------
(***************************************************************************)
(* Between its two writes a rename that no other one crossed still finds   *)
(* its name in the MSP row.                                                *)
(***************************************************************************)
RenameInv == \A q \in Renaming \ crossed : companies[Msp].name = req[q].name

\* Another rename that wrote in between makes both of them crossed.
LEMMA RenameStep == TypeOK /\ CallInv /\ RowInv /\ RenameInv /\ [Next]_vars => RenameInv'
<1> USE ConstantsAssumption
<1> SUFFICES ASSUME TypeOK, CallInv, RowInv, RenameInv, [Next]_vars,
                    NEW q \in Reqs, pc'[q] = "rename_org", q \notin crossed'
             PROVE  companies'[Msp].name = req'[q].name
  BY DEF RenameInv, Renaming
<1>1. Msp \in Companies /\ Msp \notin Reqs
  BY DEF Companies
<1>2. CASE pc[q] # "rename_org"
  <2>1. UpdateWorkspace(q)
    <3>1. Arrive(q) \/ Serve(q)
      BY <1>2, OwnStep
    <3> QED
      BY <1>2, <3>1
      DEF TypeOK, CallInv, Calls, Serve, Arrive, RequireReady, FirstStep, AddOrganization,
          CreateRow, UpdateRow, Explain, Hydrate, GetActive, ArchiveRow, GetAny, RestoreRow,
          RenameOrg, Read, NotFound, Goto, Return
  <2>2. companies' = UpdateWorkspaceCompany(req[q].name) /\ req' = req
    BY <2>1 DEF UpdateWorkspace, Write, Return, Goto, Landed, TypeOK
  <2>3. companies'[Msp].name = req[q].name
    BY <1>1, <2>2 DEF UpdateWorkspaceCompany, TypeOK, Rows
  <2> QED
    BY <2>2, <2>3
<1>3. CASE pc[q] = "rename_org"
  <2>1. crossed \subseteq crossed' /\ req'[q] = req[q]
    BY <1>3 DEF TypeOK, Next, Serve, vars, Arrive, RequireReady, AddOrganization, CreateRow,
        UpdateRow, Explain, Hydrate, GetActive, ArchiveRow, GetAny, RestoreRow,
        UpdateWorkspace, RenameOrg, Read, NotFound
  <2>2. companies[Msp].name = req[q].name
    BY <1>3, <2>1 DEF RenameInv, Renaming
  <2>3. companies'[Msp] = companies[Msp]
    <3>1. SUFFICES ASSUME companies'[Msp] # companies[Msp] PROVE FALSE
      OBVIOUS
    <3>2. PICK r \in Reqs : UpdateWorkspace(r) /\ companies' # companies
      <4>1. PICK r \in Reqs : CreateRow(r) \/ UpdateRow(r) \/ ArchiveRow(r) \/ RestoreRow(r)
                              \/ UpdateWorkspace(r)
        BY <3>1 DEF Next, Serve, vars, Arrive, RequireReady, AddOrganization, Explain,
               Hydrate, GetActive, GetAny, RenameOrg, Read, NotFound
      <4>2. /\ req[r].target \in Companies
            /\ pc[r] = "update_row" => req[r].name \in Names
            /\ r \in Companies /\ r # Msp
        BY <4>1 DEF CreateRow, UpdateRow, ArchiveRow, RestoreRow, UpdateWorkspace,
                    CallInv, Calls, Companies
      <4>3. CASE CreateRow(r)
        BY <1>1, <3>1, <4>2, <4>3 DEF CreateRow, Write, CreateCompany, TypeOK
      <4>4. CASE UpdateRow(r)
        BY <1>1, <3>1, <4>2, <4>4, UpdateCompanyRow DEF UpdateRow, Write
      <4>5. CASE ArchiveRow(r)
        BY <1>1, <3>1, <4>2, <4>5, ArchiveCompanyRow DEF ArchiveRow, Write
      <4>6. CASE RestoreRow(r)
        BY <1>1, <3>1, <4>2, <4>6, RestoreCompanyRow DEF RestoreRow, Write
      <4> QED
        BY <3>1, <4>1, <4>3, <4>4, <4>5, <4>6
    <3>3. q \in Renaming
      BY <1>3 DEF Renaming
    <3> QED
      BY <3>2, <3>3 DEF UpdateWorkspace, Write
  <2> QED
    BY <2>1, <2>2, <2>3
<1> QED
  BY <1>2, <1>3

\* A workspace rename that no other one crosses ends with the same name in
\* the database and in ZITADEL, or in the log.
THEOREM RenameHealsHolds == Spec => RenameHeals
<1>1. Init => RenameInv
  BY DEF Init, RenameInv, Renaming
<1>2. TypeOK /\ CallInv /\ RowInv /\ RenameInv /\ [Next]_vars =>
        \A q \in Reqs :
          /\ pc[q] = "rename_org" /\ pc'[q] = "done"
          /\ q \notin crossed /\ q \notin logged'
          => org'[Msp] = GetWorkspaceCompany'.name
  <2> SUFFICES ASSUME TypeOK, CallInv, RowInv, RenameInv, [Next]_vars, NEW q \in Reqs,
                      pc[q] = "rename_org", pc'[q] = "done",
                      q \notin crossed, q \notin logged'
               PROVE  org'[Msp] = companies'[Msp].name
    BY DEF GetWorkspaceCompany
  <2>1. RenameOrg(q)
    BY OwnStep
    DEF Serve, Arrive, RequireReady, AddOrganization, CreateRow, UpdateRow, Explain, Hydrate,
        GetActive, ArchiveRow, GetAny, RestoreRow, UpdateWorkspace, Read, NotFound
  <2>2. companies[Msp].name = req[q].name /\ Msp \in Companies
    BY DEF RenameInv, Renaming, Companies
  <2> QED
    BY <2>1, <2>2 DEF RenameOrg, Landed, TypeOK
<1>3. TypeOK /\ CallInv /\ RowInv /\ RenameInv /\ [Next]_vars => RenameInv'
  BY RenameStep
<1> QED
  BY <1>1, <1>2, <1>3, RowInvariant, PTL DEF Spec, RenameHeals
==============================================================================
