------------------------- MODULE DeploymentsProofs -------------------------
(***************************************************************************)
(* Proofs about the control plane (module Deployments), for any number of  *)
(* services, servers, deployments and jobs, and for agents that report     *)
(* anything in any order.                                                  *)
(***************************************************************************)
EXTENDS Deployments, TLAPS

\* The placeholder of an absent row is not a row, nor that of an absent job a job.
LEMMA Placeholders == NoRow \notin Row /\ NoTeardown \notin TeardownRow
  BY ConstantsAssumption DEF NoRow, Row, NoTeardown, TeardownRow, NoDeployment

\* The keys a deployment is inserted with are route keys.
LEMMA KeysAreRouteKeys ==
  ASSUME NEW svc \in Services
  PROVE  /\ ProductionKey(svc) \in RouteKeys
         /\ \A ref \in Refs : PreviewKey(svc, ref) \in RouteKeys
  BY DEF ProductionKey, PreviewKey, RouteKeys

\* Inserting a queued deployment keeps the tables well formed.
LEMMA InsertDeploymentType ==
  ASSUME TypeOK, NEW d \in DeploymentIds, NEW svc \in Services, NEW srv \in Servers,
         NEW kind \in {"production", "preview"}, NEW key \in RouteKeys,
         NEW from \in DeploymentIds \cup {NoDeployment},
         InsertDeployment(d, svc, srv, kind, key, from)
  PROVE  TypeOK'
<1> DEFINE new == [svc |-> svc, srv |-> srv, kind |-> kind, key |-> key,
                   at |-> clock, from |-> from]
<1>1. new \in Row
  BY DEF Row, TypeOK
<1>2. status' \in [DeploymentIds -> Status \cup {"none"}]
  BY DEF InsertDeployment, TypeOK, Status
<1>3. row' \in [DeploymentIds -> Row \cup {NoRow}]
  BY <1>1 DEF InsertDeployment, TypeOK
<1>4. \A e \in DeploymentIds : Inserted(e)' <=> row'[e] \in Row
  BY <1>1 DEF InsertDeployment, TypeOK, Inserted
<1>5. clock' \in Nat
  BY DEF InsertDeployment, TypeOK
<1> QED
  BY <1>2, <1>3, <1>4, <1>5 DEF InsertDeployment, TypeOK, jobVars, Existing

\* So does inserting a teardown job for an existing deployment.
LEMMA InsertTeardownType ==
  ASSUME TypeOK, NEW d \in DeploymentIds, Inserted(d), NEW t \in TeardownIds,
         InsertTeardownJob(t, d), sweep' \subseteq sweep
  PROVE  TypeOK'
<1> DEFINE new == [dep |-> d, key |-> row[d].key, srv |-> row[d].srv, at |-> clock]
<1>1. new \in TeardownRow
  BY DEF Row, TeardownRow, TypeOK
<1>2. tstatus' \in [TeardownIds -> TeardownStatus \cup {"none"}]
  BY DEF InsertTeardownJob, TypeOK, TeardownStatus
<1>3. trow' \in [TeardownIds -> TeardownRow \cup {NoTeardown}]
  BY <1>1 DEF InsertTeardownJob, TypeOK
<1>4. \A u \in TeardownIds : Existing(u)' <=> trow'[u] \in TeardownRow
  BY <1>1 DEF InsertTeardownJob, TypeOK, Existing
<1>5. clock' \in Nat
  BY DEF InsertTeardownJob, TypeOK
<1> QED
  BY <1>2, <1>3, <1>4, <1>5 DEF InsertTeardownJob, TypeOK, depVars, Inserted

-----------------------------------------------------------------------------

\* The row a request reads exists, so what it copies from it is well typed.
LEMMA RowFields ==
  ASSUME TypeOK, NEW d \in DeploymentIds, Inserted(d)
  PROVE  row[d].svc \in Services /\ row[d].srv \in Servers
  BY DEF TypeOK, Row

\* Every request, sweep step, claim and report keeps the tables well formed.
LEMMA TypeStep == TypeOK /\ [Next]_vars => TypeOK'
<1> SUFFICES ASSUME TypeOK, [Next]_vars PROVE TypeOK'
  OBVIOUS
<1>1. ASSUME NEW svc \in Services, NEW srv \in Servers, NEW d \in DeploymentIds,
             CreateForService(svc, srv, d)
      PROVE  TypeOK'
  BY <1>1, KeysAreRouteKeys, InsertDeploymentType DEF CreateForService, BuildAndInsert,
         InsertProduction
<1>2. ASSUME NEW svc \in Services, NEW srv \in Servers, NEW ref \in Refs,
             NEW d \in DeploymentIds, CreatePreview(svc, srv, ref, d)
      PROVE  TypeOK'
  BY <1>2, KeysAreRouteKeys, InsertDeploymentType DEF CreatePreview, InsertPreview
<1>3. ASSUME NEW svc \in Services, NEW pr \in PullRequests, NEW d \in DeploymentIds,
             CreatePreviewForPR(svc, pr, d)
      PROVE  TypeOK'
  <2>1. pr \in Refs
    BY ConstantsAssumption
  <2>2. PICK srv \in Servers :
          InsertDeployment(d, svc, srv, "preview", PreviewKey(svc, pr), NoDeployment)
    BY <1>3 DEF CreatePreviewForPR, InsertPreview
  <2> QED
    BY <2>1, <2>2, KeysAreRouteKeys, InsertDeploymentType
<1>4. ASSUME NEW target \in DeploymentIds, NEW d \in DeploymentIds,
             RollbackToDeployment(target, d)
      PROVE  TypeOK'
  <2>1. row[target].svc \in Services /\ row[target].srv \in Servers
    BY <1>4, RowFields DEF RollbackToDeployment, InsertProduction
  <2>2. InsertDeployment(d, row[target].svc, row[target].srv, "production",
                         ProductionKey(row[target].svc), target)
    BY <1>4 DEF RollbackToDeployment, InsertProduction
  <2> QED
    BY <2>1, <2>2, KeysAreRouteKeys, InsertDeploymentType
<1>5. ASSUME NEW d \in DeploymentIds, NEW t \in TeardownIds, TeardownPreview(d, t)
      PROVE  TypeOK'
  BY <1>5, InsertTeardownType DEF TeardownPreview, IsPreview, TypeOK
<1>6. ASSUME NEW svc \in Services, NEW pr \in PullRequests, NEW t \in TeardownIds,
             TeardownPreviewForPR(svc, pr, t)
      PROVE  TypeOK'
  <2>1. PICK d \in DeploymentIds :
          LatestActivePreview(svc, PreviewKey(svc, pr), d) /\ InsertTeardownJob(t, d)
    BY <1>6 DEF TeardownPreviewForPR
  <2>2. Inserted(d) /\ sweep' \subseteq sweep
    BY <1>6, <2>1 DEF TeardownPreviewForPR, LatestActivePreview, IsPreview, TypeOK
  <2> QED
    BY <2>1, <2>2, InsertTeardownType
<1>7. ASSUME SweepStart PROVE TypeOK'
  BY <1>7 DEF SweepStart, ListExpiredPreviews, IsPreview, TypeOK, depVars, jobVars, Inserted,
         Existing
<1>8. ASSUME NEW d \in DeploymentIds, NEW t \in TeardownIds, SweepEnqueue(d, t)
      PROVE  TypeOK'
  <2>1. Inserted(d) /\ sweep' \subseteq sweep /\ InsertTeardownJob(t, d)
    BY <1>8 DEF SweepEnqueue, OldestInSweep, TypeOK
  <2> QED
    BY <2>1, InsertTeardownType
<1>9. ASSUME NEW d \in DeploymentIds, SweepSkip(d) PROVE TypeOK'
  BY <1>9 DEF SweepSkip, TypeOK, depVars, jobVars, Inserted, Existing
<1>10. ASSUME NEW srv \in Servers, NEW d \in DeploymentIds, ClaimNextDeployment(srv, d)
       PROVE  TypeOK'
  BY <1>10 DEF ClaimNextDeployment, Queued, TypeOK, Status, jobVars, Inserted, Existing
<1>11. ASSUME NEW d \in DeploymentIds, FailDeployment(d) PROVE TypeOK'
  BY <1>11 DEF FailDeployment, UpdateDeploymentStatus, TypeOK, Status, AgentStatus, jobVars,
         Inserted, Existing
<1>12. ASSUME NEW srv \in Servers, NEW d \in DeploymentIds, NEW s \in AgentStatus,
              NEW p \in BOOLEAN, NEW u \in BOOLEAN, ReportDeployment(srv, d, s, p, u)
       PROVE  TypeOK'
  BY <1>12 DEF ReportDeployment, UpdateDeploymentStatus, Supersedes, TypeOK, Status,
         AgentStatus, jobVars, Inserted, Existing, Row, RouteURL, RouteURLs
<1>13. ASSUME NEW srv \in Servers, NEW t \in TeardownIds, ClaimNextTeardown(srv, t)
       PROVE  TypeOK'
  BY <1>13 DEF ClaimNextTeardown, QueuedTeardowns, TypeOK, TeardownStatus, depVars,
               Inserted, Existing
<1>14. ASSUME NEW srv \in Servers, NEW t \in TeardownIds, NEW s \in AgentTeardownStatus,
              ReportTeardownJob(srv, t, s)
       PROVE  TypeOK'
  BY <1>14 DEF ReportTeardownJob, UpdateTeardownStatus, TornDownBy, TypeOK, TeardownStatus,
         AgentTeardownStatus, Status, Inserted, Existing
<1>15. CASE UNCHANGED vars
  BY <1>15 DEF vars, TypeOK, Inserted, Existing
<1> QED
  BY <1>1, <1>2, <1>3, <1>4, <1>5, <1>6, <1>7, <1>8, <1>9, <1>10, <1>11, <1>12,
     <1>13, <1>14, <1>15 DEF Next, Request, Sweep, Gateway

\* The empty tables are well typed.
LEMMA TypeInit == Init => TypeOK
  BY Placeholders DEF Init, TypeOK, Inserted, Existing

\* TypeOK: what the tables hold, whatever requests and reports arrive.
THEOREM TypeCorrect == Spec => []TypeOK
  BY TypeInit, TypeStep, PTL DEF Spec

-----------------------------------------------------------------------------
(* Tenant isolation and the key discipline.  A step leaves existing rows alone *)
(* and inserts only good ones; that is the whole argument, split by action.    *)

\* What TenantIsolation and KeyDiscipline say of one row and of one job.
RowOK(d) ==
    /\ WorkspaceOf[row[d].srv] = WorkspaceOf[row[d].svc]
    /\ row[d].key[1] = row[d].svc
    /\ row[d].kind = "production" <=> row[d].key = ProductionKey(row[d].svc)

JobOK(t) ==
    /\ IsPreview(trow[t].dep)
    /\ WorkspaceOf[trow[t].srv] = WorkspaceOf[row[trow[t].dep].svc]
    /\ trow[t].key = row[trow[t].dep].key
    /\ trow[t].srv = row[trow[t].dep].srv

\* The inductive invariant.
Isolation ==
    /\ TypeOK
    /\ \A d \in DeploymentIds : Inserted(d) => RowOK(d)
    /\ \A t \in TeardownIds : Existing(t) => JobOK(t)
    /\ \A d \in sweep : IsPreview(d)

\* A step's effect on the immutable columns: old rows and jobs stay as they are.
Kept ==
    /\ \A d \in DeploymentIds : Inserted(d) => Inserted(d)' /\ row'[d] = row[d]
    /\ \A t \in TeardownIds : Existing(t) => Existing(t)' /\ trow'[t] = trow[t]

\* Every step is such: the columns of Row and TeardownRow are never updated and no
\* row or job is deleted.
LEMMA RowsKept ==
  ASSUME TypeOK, TypeOK', [Next]_vars
  PROVE  Kept
<1>1. ASSUME Gateway PROVE Kept
  BY <1>1 DEF Gateway, ClaimNextDeployment, FailDeployment, UpdateDeploymentStatus,
         ReportDeployment, ClaimNextTeardown, ReportTeardownJob, UpdateTeardownStatus,
         depVars, jobVars, TypeOK, Kept
<1>2. ASSUME Request \/ Sweep PROVE Kept
  BY <1>2 DEF Request, Sweep, CreateForService, BuildAndInsert, InsertProduction,
         CreatePreview, InsertPreview, CreatePreviewForPR, RollbackToDeployment,
         TeardownPreview, TeardownPreviewForPR, SweepStart, SweepEnqueue, SweepSkip,
         InsertDeployment, InsertTeardownJob, depVars, jobVars, TypeOK, Kept, Inserted,
         Existing
<1> QED
  BY <1>1, <1>2 DEF Next, vars, Kept, Inserted, Existing

\* A step that keeps old rows and jobs and adds good ones preserves Isolation.
LEMMA KeptIsEnough ==
  ASSUME Isolation, TypeOK', Kept,
         \A d \in DeploymentIds : ~Inserted(d) /\ Inserted(d)' => RowOK(d)',
         \A t \in TeardownIds : ~Existing(t) /\ Existing(t)' => JobOK(t)',
         \A d \in sweep' : IsPreview(d)
  PROVE  Isolation'
<1>1. \A d \in DeploymentIds : Inserted(d)' => RowOK(d)'
  BY DEF Isolation, Kept, RowOK
<1>2. ASSUME NEW d \in DeploymentIds, IsPreview(d) PROVE IsPreview(d)'
  BY <1>2 DEF IsPreview, Kept
<1>3. ASSUME NEW t \in TeardownIds, Existing(t)' PROVE JobOK(t)'
  <2>1. CASE ~Existing(t)
    BY <1>3, <2>1
  <2>2. CASE Existing(t)
    <3>1. trow'[t] = trow[t] /\ JobOK(t)
      BY <2>2 DEF Isolation, Kept
    <3>2. trow[t].dep \in DeploymentIds
      BY <2>2 DEF Isolation, TypeOK, TeardownRow
    <3>3. row'[trow[t].dep] = row[trow[t].dep]
      BY <3>1, <3>2 DEF JobOK, IsPreview, Kept
    <3> QED
      BY <3>1, <3>2, <3>3, <1>2 DEF JobOK
  <2> QED
    BY <2>1, <2>2
<1>4. \A d \in sweep' : IsPreview(d)'
  BY <1>2 DEF TypeOK
<1> QED
  BY <1>1, <1>3, <1>4 DEF Isolation

\* Inserting a deployment whose server and key are right preserves Isolation.
LEMMA InsertDeploymentIsolation ==
  ASSUME Isolation, TypeOK', NEW d \in DeploymentIds, NEW svc \in Services,
         NEW srv \in Servers, NEW kind \in {"production", "preview"},
         NEW key \in RouteKeys, NEW from,
         InsertDeployment(d, svc, srv, kind, key, from),
         WorkspaceOf[srv] = WorkspaceOf[svc],
         key[1] = svc, kind = "production" <=> key = ProductionKey(svc)
  PROVE  Isolation'
<1>1. Kept /\ \A t \in TeardownIds : ~Existing(t) => ~Existing(t)'
  BY DEF InsertDeployment, Isolation, TypeOK, Kept, Inserted, Existing, jobVars
<1>2. ASSUME NEW e \in DeploymentIds, ~Inserted(e), Inserted(e)' PROVE RowOK(e)'
  <2>1. e = d
    BY <1>2 DEF InsertDeployment, Isolation, TypeOK, Inserted
  <2>2. row'[d] = [svc |-> svc, srv |-> srv, kind |-> kind, key |-> key,
                   at |-> clock, from |-> from]
    BY DEF InsertDeployment, Isolation, TypeOK
  <2>3. /\ row'[e].svc = svc /\ row'[e].srv = srv
        /\ row'[e].kind = kind /\ row'[e].key = key
    BY <2>1, <2>2
  <2> QED
    BY <2>3, Zenon DEF RowOK, ProductionKey
<1>3. \A e \in sweep' : IsPreview(e)
  BY DEF InsertDeployment, Isolation
<1> QED
  BY <1>1, <1>2, <1>3, KeptIsEnough

\* Inserting a teardown job for a preview preserves Isolation.
LEMMA InsertTeardownIsolation ==
  ASSUME Isolation, TypeOK', NEW d \in DeploymentIds, IsPreview(d),
         NEW t \in TeardownIds, InsertTeardownJob(t, d), sweep' \subseteq sweep
  PROVE  Isolation'
<1>1. Kept /\ \A e \in DeploymentIds : ~Inserted(e) => ~Inserted(e)'
  BY DEF InsertTeardownJob, Isolation, TypeOK, Kept, Inserted, Existing, depVars
<1>2. ASSUME NEW u \in TeardownIds, ~Existing(u), Existing(u)' PROVE JobOK(u)'
  <2>1. u = t
    BY <1>2 DEF InsertTeardownJob, Isolation, TypeOK, Existing
  <2>2. trow'[t] = [dep |-> d, key |-> row[d].key, srv |-> row[d].srv, at |-> clock]
    BY DEF InsertTeardownJob, Isolation, TypeOK
  <2>3. row' = row /\ status' = status /\ RowOK(d)
    BY DEF InsertTeardownJob, depVars, Isolation, IsPreview
  <2> QED
    BY <2>1, <2>2, <2>3 DEF JobOK, RowOK, IsPreview, Inserted
<1>3. \A e \in sweep' : IsPreview(e)
  BY DEF Isolation
<1> QED
  BY <1>1, <1>2, <1>3, KeptIsEnough

\* The production and preview keys are told apart by the slug.
LEMMA KeysApart ==
  ASSUME NEW svc \in Services
  PROVE  /\ ProductionKey(svc)[1] = svc
         /\ \A ref \in Refs : PreviewKey(svc, ref)[1] = svc
         /\ \A ref \in Refs : PreviewKey(svc, ref) # ProductionKey(svc)
  BY SuffixAssumption DEF ProductionKey, PreviewKey

\* Every step preserves the invariant.
LEMMA IsolationStep == Isolation /\ TypeOK' /\ [Next]_vars => Isolation'
<1> SUFFICES ASSUME Isolation, TypeOK', [Next]_vars PROVE Isolation'
  OBVIOUS
<1> USE DEF SameWorkspace
<1>1. ASSUME NEW svc \in Services, NEW srv \in Servers, NEW d \in DeploymentIds,
             CreateForService(svc, srv, d)
      PROVE  Isolation'
  <2>1. InsertDeployment(d, svc, srv, "production", ProductionKey(svc), NoDeployment)
    BY <1>1 DEF CreateForService, BuildAndInsert, InsertProduction
  <2>2. WorkspaceOf[srv] = WorkspaceOf[svc]
    BY <1>1 DEF CreateForService, BuildAndInsert, InsertProduction
  <2> QED
    BY <2>1, <2>2, KeysApart, KeysAreRouteKeys, InsertDeploymentIsolation
<1>2. ASSUME NEW svc \in Services, NEW srv \in Servers, NEW ref \in Refs,
             NEW d \in DeploymentIds, CreatePreview(svc, srv, ref, d)
      PROVE  Isolation'
  <2>1. InsertDeployment(d, svc, srv, "preview", PreviewKey(svc, ref), NoDeployment)
    BY <1>2 DEF CreatePreview, InsertPreview
  <2>2. WorkspaceOf[srv] = WorkspaceOf[svc]
    BY <1>2 DEF CreatePreview, InsertPreview
  <2> QED
    BY <2>1, <2>2, KeysApart, KeysAreRouteKeys, InsertDeploymentIsolation
<1>3. ASSUME NEW svc \in Services, NEW pr \in PullRequests, NEW d \in DeploymentIds,
             CreatePreviewForPR(svc, pr, d)
      PROVE  Isolation'
  <2>1. pr \in Refs
    BY ConstantsAssumption
  <2>2. PICK srv \in Servers :
          /\ LatestServerForService(svc, srv)
          /\ InsertDeployment(d, svc, srv, "preview", PreviewKey(svc, pr), NoDeployment)
    BY <1>3 DEF CreatePreviewForPR, InsertPreview
  <2>3. WorkspaceOf[srv] = WorkspaceOf[svc]
    BY <2>2 DEF LatestServerForService, Isolation, RowOK
  <2> QED
    BY <2>1, <2>2, <2>3, KeysApart, KeysAreRouteKeys, InsertDeploymentIsolation
<1>4. ASSUME NEW target \in DeploymentIds, NEW d \in DeploymentIds,
             RollbackToDeployment(target, d)
      PROVE  Isolation'
  <2> DEFINE svc == row[target].svc
             srv == row[target].srv
  <2>1. InsertDeployment(d, svc, srv, "production", ProductionKey(svc), target)
    BY <1>4 DEF RollbackToDeployment, InsertProduction
  <2>2. svc \in Services /\ srv \in Servers
    BY <1>4, RowFields DEF RollbackToDeployment, InsertProduction, Isolation
  <2>3. WorkspaceOf[srv] = WorkspaceOf[svc]
    BY <1>4 DEF RollbackToDeployment, InsertProduction, Isolation, RowOK
  <2> HIDE DEF svc, srv
  <2> QED
    BY <2>1, <2>2, <2>3, KeysApart, KeysAreRouteKeys, InsertDeploymentIsolation
<1>5. ASSUME NEW d \in DeploymentIds, NEW t \in TeardownIds, TeardownPreview(d, t)
      PROVE  Isolation'
  BY <1>5, InsertTeardownIsolation DEF TeardownPreview
<1>6. ASSUME NEW svc \in Services, NEW pr \in PullRequests, NEW t \in TeardownIds,
             TeardownPreviewForPR(svc, pr, t)
      PROVE  Isolation'
  <2>1. PICK d \in DeploymentIds :
          LatestActivePreview(svc, PreviewKey(svc, pr), d) /\ InsertTeardownJob(t, d)
    BY <1>6 DEF TeardownPreviewForPR
  <2>2. IsPreview(d) /\ sweep' \subseteq sweep
    BY <1>6, <2>1 DEF TeardownPreviewForPR, LatestActivePreview
  <2> QED
    BY <2>1, <2>2, InsertTeardownIsolation
<1>7. ASSUME NEW d \in DeploymentIds, NEW t \in TeardownIds, SweepEnqueue(d, t)
      PROVE  Isolation'
  <2>1. IsPreview(d) /\ sweep' \subseteq sweep /\ InsertTeardownJob(t, d)
    BY <1>7 DEF SweepEnqueue, OldestInSweep, Isolation
  <2> QED
    BY <2>1, InsertTeardownIsolation
<1>8. ASSUME SweepStart \/ (\E d \in DeploymentIds : SweepSkip(d)) PROVE Isolation'
  <2>1. Kept /\ UNCHANGED <<status, row, tstatus, trow>>
    BY <1>8 DEF SweepStart, SweepSkip, Kept, depVars, jobVars, Inserted, Existing
  <2>2. \A d \in sweep' : IsPreview(d)
    BY <1>8 DEF SweepStart, ListExpiredPreviews, SweepSkip, Isolation
  <2> QED
    BY <2>1, <2>2, KeptIsEnough DEF Inserted, Existing
<1>9. ASSUME Gateway PROVE Isolation'
  <2>1. UNCHANGED <<row, trow, sweep>>
    BY <1>9 DEF Gateway, ClaimNextDeployment, FailDeployment, UpdateDeploymentStatus,
           ReportDeployment, ClaimNextTeardown, ReportTeardownJob, UpdateTeardownStatus,
           depVars, jobVars
  <2>2. \A d \in DeploymentIds : Inserted(d) <=> Inserted(d)'
    BY <2>1 DEF TypeOK, Isolation
  <2>3. \A t \in TeardownIds : Existing(t) <=> Existing(t)'
    BY <2>1 DEF TypeOK, Isolation
  <2> QED
    BY <2>1, <2>2, <2>3, KeptIsEnough DEF Kept, Isolation
<1>10. CASE UNCHANGED vars
  BY <1>10, KeptIsEnough DEF vars, Isolation, Kept, Inserted, Existing
<1> QED
  BY <1>1, <1>2, <1>3, <1>4, <1>5, <1>6, <1>7, <1>8, <1>9, <1>10
  DEF Next, Request, Sweep

LEMMA IsolationInvariant == Spec => []Isolation
<1>1. Init => Isolation
  BY Placeholders DEF Init, Isolation, TypeOK, Inserted, Existing
<1> QED
  BY <1>1, IsolationStep, TypeCorrect, PTL DEF Spec

\* TenantIsolation: no deployment or teardown job is ever bound to a server of
\* another workspace, though only two of the five paths that insert one check it.
THEOREM TenantsIsolated == Spec => []TenantIsolation
<1>1. Isolation => TenantIsolation
  BY DEF Isolation, TenantIsolation, RowOK, JobOK
<1> QED
  BY <1>1, IsolationInvariant, PTL

\* KeyDiscipline: production and previews never share a route key, and teardown jobs
\* only ever carry a preview's key.
THEOREM KeysDisciplined == Spec => []KeyDiscipline
<1>1. Isolation => KeyDiscipline
  BY DEF Isolation, KeyDiscipline, RowOK, JobOK
<1> QED
  BY <1>1, IsolationInvariant, PTL

-----------------------------------------------------------------------------

\* A row retired by another is of the same kind: equal keys have equal kinds.
LEMMA SameKeySameKind ==
  ASSUME Isolation, NEW d \in DeploymentIds, NEW e \in DeploymentIds,
         Inserted(d), Inserted(e), row[d].key = row[e].key
  PROVE  row[d].kind = row[e].kind /\ row[d].svc = row[e].svc
<1>1. RowOK(d) /\ RowOK(e)
  BY DEF Isolation
<1>2. row[d].kind \in {"production", "preview"} /\ row[e].kind \in {"production", "preview"}
  BY DEF Isolation, TypeOK, Row
<1>3. row[d].svc = row[e].svc
  BY <1>1 DEF RowOK
<1>4. row[d].kind = "production" <=> row[e].kind = "production"
  BY <1>1, <1>3 DEF RowOK
<1> QED
  BY <1>2, <1>3, <1>4

\* RetireStep for one row, and the peer that retires it.
RetiredByPeer(c) ==
    \E e \in DeploymentIds \ {c} :
        /\ Inserted(e) /\ status'[e] = "running"
        /\ row[e].kind = row[c].kind
        /\ row[e].svc = row[c].svc /\ row[e].srv = row[c].srv

RetireOf(c) ==
    /\ IsProduction(c) /\ status[c] # "torndown" => status'[c] # "torndown"
    /\ Inserted(c) /\ status'[c] = "superseded" /\ status[c] # "superseded" =>
           RetiredByPeer(c)

\* PreviewIsolation: whatever agents report, in whatever order, no step tears down a
\* production row, and none supersedes a row except for one of its own kind and
\* service that is reported running on the same server.
THEOREM PreviewsIsolated == Spec => PreviewIsolation
<1>1. ASSUME Isolation, Isolation', [Next]_vars PROVE [RetireStep]_vars
  <2> SUFFICES ASSUME Next, NEW c \in DeploymentIds PROVE RetireOf(c)
    BY <1>1 DEF RetireStep, RetireOf, RetiredByPeer
  <2>1. ASSUME NEW srv \in Servers, NEW d \in DeploymentIds, NEW s \in AgentStatus,
               NEW p \in BOOLEAN, NEW u \in BOOLEAN, ReportDeployment(srv, d, s, p, u)
        PROVE  RetireOf(c)
    <3>1. s \notin {"torndown", "superseded"}
      BY DEF AgentStatus
    <3>2. status'[c] = IF c = d THEN s
                       ELSE IF s = "running" /\ p /\ Supersedes(d, c)
                            THEN "superseded" ELSE status[c]
      BY <1>1, <2>1 DEF ReportDeployment, UpdateDeploymentStatus, Supersedes, Isolation, TypeOK
    <3>3. IsProduction(c) /\ status[c] # "torndown" => status'[c] # "torndown"
      BY <3>1, <3>2
    <3>4. ASSUME Inserted(c), status'[c] = "superseded", status[c] # "superseded"
          PROVE  RetiredByPeer(c)
      <4>1. c # d /\ s = "running" /\ Supersedes(d, c)
        BY <3>1, <3>2, <3>4
      <4>2. Inserted(d) /\ status'[d] = "running"
        BY <1>1, <2>1, <4>1
           DEF ReportDeployment, UpdateDeploymentStatus, Supersedes, Isolation, TypeOK
      <4>3. row[c].key = row[d].key /\ row[c].srv = row[d].srv
        BY <4>1 DEF Supersedes
      <4> QED
        BY <1>1, <3>4, <4>1, <4>2, <4>3, SameKeySameKind DEF RetiredByPeer
    <3> QED
      BY <3>3, <3>4 DEF RetireOf
  <2>2. ASSUME NEW srv \in Servers, NEW t \in TeardownIds, NEW s \in AgentTeardownStatus,
               ReportTeardownJob(srv, t, s)
        PROVE  RetireOf(c)
    <3>1. status'[c] = IF s = "succeeded" /\ TornDownBy(t, c) THEN "torndown" ELSE status[c]
      BY <2>2 DEF ReportTeardownJob, UpdateTeardownStatus
    <3>2. ASSUME IsProduction(c), TornDownBy(t, c) PROVE FALSE
      <4>1. JobOK(t) /\ trow[t].dep \in DeploymentIds
        BY <1>1, <2>2 DEF ReportTeardownJob, UpdateTeardownStatus, Isolation, TypeOK,
               TeardownRow
      <4>2. row[trow[t].dep].key = row[c].key /\ IsPreview(trow[t].dep)
        BY <3>2, <4>1 DEF JobOK, TornDownBy
      <4> QED
        BY <1>1, <3>2, <4>1, <4>2, SameKeySameKind DEF IsPreview, IsProduction
    <3> QED
      BY <3>1, <3>2 DEF RetireOf
  <2>3. ASSUME \/ \E srv \in Servers, d \in DeploymentIds : ClaimNextDeployment(srv, d)
               \/ \E d \in DeploymentIds : FailDeployment(d)
               \/ \E srv \in Servers, t \in TeardownIds : ClaimNextTeardown(srv, t)
        PROVE  RetireOf(c)
    <3>1. status'[c] \in {status[c], "assigned", "failed"}
      BY <1>1, <2>3 DEF ClaimNextDeployment, FailDeployment, UpdateDeploymentStatus,
             ClaimNextTeardown, depVars, Isolation, TypeOK
    <3> QED
      BY <3>1 DEF RetireOf
  <2>4. ASSUME Request \/ Sweep PROVE RetireOf(c)
    <3>1. status'[c] \in {status[c], "queued"}
      BY <1>1, <2>4 DEF Request, Sweep, CreateForService, BuildAndInsert, InsertProduction,
             CreatePreview, InsertPreview, CreatePreviewForPR, RollbackToDeployment,
             TeardownPreview, TeardownPreviewForPR, SweepStart, SweepEnqueue, SweepSkip,
             InsertDeployment, InsertTeardownJob, depVars, Isolation, TypeOK
    <3> QED
      BY <3>1 DEF RetireOf
  <2> QED
    BY <2>1, <2>2, <2>3, <2>4 DEF Next, Gateway
<1> QED
  BY <1>1, IsolationInvariant, PTL DEF PreviewIsolation, Spec

-----------------------------------------------------------------------------

\* URLTracksProduction: the cached URL of a service is the URL of its own route key on
\* a server where it has a production deployment, never a preview's: only production
\* reports are cached, production rows have the production key (Isolation), and rows
\* are never deleted.
THEOREM ServiceURLTracksProduction == Spec => []URLTracksProduction
<1>1. Init => URLTracksProduction
  BY DEF Init, URLTracksProduction
<1>2. ASSUME Isolation, TypeOK', Kept, URLTracksProduction, [Next]_vars
      PROVE  URLTracksProduction'
  <2>1. ASSUME NEW srv \in Servers, NEW d \in DeploymentIds, NEW s \in AgentStatus,
               NEW p \in BOOLEAN, NEW u \in BOOLEAN, ReportDeployment(srv, d, s, p, u),
               u, row[d].kind # "preview"
        PROVE  URLTracksProduction'
    <3>1. serviceURL' = [serviceURL EXCEPT ![row[d].svc] = RouteURL(row[d].key, srv)]
      BY <2>1 DEF ReportDeployment, UpdateDeploymentStatus
    <3>2. IsProduction(d) /\ row[d].srv = srv /\ RowOK(d)
      BY <1>2, <2>1 DEF ReportDeployment, Isolation, IsProduction, TypeOK, Row
    <3>3. row[d].key = ProductionKey(row[d].svc)
      BY <3>2 DEF RowOK, IsProduction
    <3>4. ASSUME NEW svc \in Services, serviceURL'[svc] # NoURL
          PROVE  \E e \in DeploymentIds :
                   /\ IsProduction(e) /\ row[e].svc = svc
                   /\ serviceURL'[svc] = RouteURL(ProductionKey(svc), row[e].srv)
      <4>1. CASE svc = row[d].svc
        <5>1. serviceURL'[svc] = RouteURL(ProductionKey(svc), row[d].srv)
          BY <1>2, <3>1, <3>2, <3>3, <4>1 DEF Isolation, TypeOK
        <5> QED
          BY <3>2, <4>1, <5>1
      <4>2. CASE svc # row[d].svc
        <5>1. serviceURL'[svc] = serviceURL[svc]
          BY <1>2, <3>1, <4>2 DEF Isolation, TypeOK
        <5> QED
          BY <1>2, <3>4, <5>1 DEF URLTracksProduction
      <4> QED
        BY <4>1, <4>2
    <3> QED
      BY <1>2, <3>4 DEF URLTracksProduction, IsProduction, Kept
  <2>2. CASE serviceURL' = serviceURL
    BY <1>2, <2>2 DEF URLTracksProduction, IsProduction, Kept
  <2>3. \/ serviceURL' = serviceURL
        \/ \E srv \in Servers, d \in DeploymentIds, s \in AgentStatus, p, u \in BOOLEAN :
             ReportDeployment(srv, d, s, p, u) /\ u /\ row[d].kind # "preview"
    BY <1>2 DEF Next, Request, Sweep, Gateway, CreateForService, BuildAndInsert,
           InsertProduction, CreatePreview, InsertPreview, CreatePreviewForPR,
           RollbackToDeployment, TeardownPreview, TeardownPreviewForPR, SweepStart,
           SweepEnqueue, SweepSkip, InsertDeployment, InsertTeardownJob, ClaimNextDeployment,
           FailDeployment, UpdateDeploymentStatus, ReportDeployment, ClaimNextTeardown,
           ReportTeardownJob, UpdateTeardownStatus, vars
  <2> QED
    BY <2>1, <2>2, <2>3
<1>3. ASSUME Isolation, TypeOK', [Next]_vars PROVE Kept
  BY <1>3, RowsKept DEF Isolation
<1> QED
  BY <1>1, <1>2, <1>3, IsolationInvariant, TypeCorrect, PTL DEF Spec
=============================================================================
