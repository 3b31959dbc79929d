---------------------------- MODULE Deployments ----------------------------
(***************************************************************************)
(* The control plane's side of the deploy loop (internal/deployments): the *)
(* deployments and teardown_jobs tables and every operation on them.       *)
(*                                                                         *)
(* The dashboard, the GitHub webhook and the expiry sweep insert rows; the *)
(* agent gateway claims and reports them.  Nothing is assumed of an agent  *)
(* here except what the gateway checks: it may report any reportable       *)
(* status for any row of its own server, at any time and in any order.     *)
(* Module DeployEngine replaces that by what the agent's loops really do.  *)
(*                                                                         *)
(* One action is one database transaction (or single statement).           *)
(***************************************************************************)
EXTENDS Naturals

CONSTANTS
    Services,       \* service ids (of services whose source can be deployed)
    Servers,        \* server ids, each running one agent
    WorkspaceOf,    \* the workspace that owns a service or a server
    GitServices,    \* services whose source is a buildable (public or app) repo
    Refs,           \* what a preview can build: branches and pull requests
    PullRequests,   \* the refs that are pull requests
    Suffix,         \* the slug of a ref, the tail of a preview's route key
    DeploymentIds,  \* uuids of deployments, ordered as routeTieBreak orders them
    TeardownIds     \* uuids of teardown jobs

NoDeployment == 0
NoServer == "no-server"

ASSUME ConstantsAssumption ==
    /\ DeploymentIds \subseteq Nat \ {NoDeployment}
    /\ GitServices \subseteq Services
    /\ PullRequests \subseteq Refs
    /\ NoServer \notin Servers

\* A service id is a fixed-length uuid and a preview's key appends a non-empty
\* slug to it, so no preview key is a service id.
ASSUME SuffixAssumption == \A r \in Refs : Suffix[r] # ""

VARIABLES
    status,      \* deployments.status, "none" for a row not inserted yet
    row,         \* the immutable columns of a deployments row
    tstatus,     \* teardown_jobs.status
    trow,        \* the immutable columns of a teardown_jobs row
    serviceURL,  \* services.route_url, the public URL cached for the dashboard
    sweep,       \* expired previews the running expiry sweep has yet to handle
    clock        \* created_at of the next row inserted

vars == <<status, row, tstatus, trow, serviceURL, sweep, clock>>
depVars == <<status, row>>
jobVars == <<tstatus, trow>>

-----------------------------------------------------------------------------
(* Tables *)

\* deployments.Status*: those an agent may report (isAgentReportableStatus), and
\* those only the control plane writes.
AgentStatus == {"cloning", "building", "pulling", "starting", "healthcheck",
                "routing", "running", "failed"}
Status == AgentStatus \cup {"queued", "assigned", "superseded", "torndown"}

AgentTeardownStatus == {"stopping", "removing", "succeeded", "failed"}
TeardownStatus == AgentTeardownStatus \cup {"queued", "assigned"}

\* route_key: the service id for production, {service-id}-{slug} for a preview.
ProductionKey(svc) == <<svc, "">>
\* Mutant: a preview keyed by its service alone.
MutantUnsluggedKey(svc, ref) == <<svc, "">>
PreviewKey(svc, ref) == <<svc, Suffix[ref]>>
RouteKeys == Services \X ({""} \cup {Suffix[r] : r \in Refs})

\* routeURL: the route key's host label under the base domain of the agent that
\* computes it.  An agent reports no other URL for a row; the gateway stores it as is.
RouteURL(key, srv) == [key |-> key, srv |-> srv]
RouteURLs == [key : RouteKeys, srv : Servers]
NoURL == [key |-> <<"", "">>, srv |-> NoServer]

Row == [svc : Services, srv : Servers, kind : {"production", "preview"},
        key : RouteKeys, at : Nat, from : DeploymentIds \cup {NoDeployment}]
NoRow == [kind |-> "none"]

TeardownRow == [dep : DeploymentIds, key : RouteKeys, srv : Servers, at : Nat]
NoTeardown == [dep |-> NoDeployment]

Inserted(d) == status[d] # "none"
IsPreview(d) == Inserted(d) /\ row[d].kind = "preview"
IsProduction(d) == Inserted(d) /\ row[d].kind = "production"
Existing(t) == tstatus[t] # "none"

TypeOK ==
    /\ status \in [DeploymentIds -> Status \cup {"none"}]
    /\ row \in [DeploymentIds -> Row \cup {NoRow}]
    /\ \A d \in DeploymentIds : Inserted(d) <=> row[d] \in Row
    /\ tstatus \in [TeardownIds -> TeardownStatus \cup {"none"}]
    /\ trow \in [TeardownIds -> TeardownRow \cup {NoTeardown}]
    /\ \A t \in TeardownIds : Existing(t) <=> trow[t] \in TeardownRow
    /\ serviceURL \in [Services -> RouteURLs \cup {NoURL}]
    /\ sweep \in SUBSET {d \in DeploymentIds : Inserted(d)}
    /\ clock \in Nat

Init ==
    /\ status = [d \in DeploymentIds |-> "none"]
    /\ row = [d \in DeploymentIds |-> NoRow]
    /\ tstatus = [t \in TeardownIds |-> "none"]
    /\ trow = [t \in TeardownIds |-> NoTeardown]
    /\ serviceURL = [svc \in Services |-> NoURL]
    /\ sweep = {}
    /\ clock = 0

-----------------------------------------------------------------------------
(* Dashboard, webhook and rollback: inserting deployments *)

\* Mutant: the insert leaves the status column out.
MutantInsertNoStatus(d, svc, srv, kind, key, from) ==
    /\ ~Inserted(d)
    /\ row' = [row EXCEPT ![d] = [svc |-> svc, srv |-> srv, kind |-> kind,
                                  key |-> key, at |-> clock, from |-> from]]
    /\ clock' = clock + 1
    /\ UNCHANGED <<status, jobVars, serviceURL, sweep>>

\* InsertDeployment / InsertDeploymentFromGit / InsertPreviewDeployment.
InsertDeployment(d, svc, srv, kind, key, from) ==
    /\ ~Inserted(d)
    /\ status' = [status EXCEPT ![d] = "queued"]
    /\ row' = [row EXCEPT ![d] = [svc |-> svc, srv |-> srv, kind |-> kind,
                                  key |-> key, at |-> clock, from |-> from]]
    /\ clock' = clock + 1
    /\ UNCHANGED <<jobVars, serviceURL, sweep>>

\* CreateDeployment and CreateDeploymentFromGit.
InsertProduction(d, svc, srv, from) ==
    InsertDeployment(d, svc, srv, "production", ProductionKey(svc), from)

\* CreatePreviewDeployment.
InsertPreview(d, svc, srv, ref) ==
    InsertDeployment(d, svc, srv, "preview", PreviewKey(svc, ref), NoDeployment)

\* Mutant: no cross-tenant guard.
MutantAnyServer(svc, srv) == TRUE

\* The cross-tenant guard: the target server lives in the service's workspace.
SameWorkspace(svc, srv) == WorkspaceOf[srv] = WorkspaceOf[svc]

\* buildAndInsert: a production row keyed by the service id.
BuildAndInsert(svc, srv, d) == InsertProduction(d, svc, srv, NoDeployment)

\* CreateForService, and the first deployment a service create enqueues
\* (EnqueueFirstDeployment).
CreateForService(svc, srv, d) ==
    /\ SameWorkspace(svc, srv)
    /\ BuildAndInsert(svc, srv, d)

\* CreatePreview: only a buildable git service has previews.
CreatePreview(svc, srv, ref, d) ==
    /\ SameWorkspace(svc, srv)
    /\ svc \in GitServices
    /\ InsertPreview(d, svc, srv, ref)

\* LatestServerForService: the server of the service's newest deployment.  It is
\* read before a call to GitHub and used after it, so by the time of the insert
\* the row it came from may be any row of the service: each was the newest once.
LatestServerForService(svc, srv) ==
    \E d \in DeploymentIds : Inserted(d) /\ row[d].svc = svc /\ row[d].srv = srv

\* CreatePreviewForPR: a webhook preview goes where the service last deployed.
CreatePreviewForPR(svc, pr, d) ==
    /\ svc \in GitServices
    /\ \E srv \in Servers :
           /\ LatestServerForService(svc, srv)
           /\ InsertPreview(d, svc, srv, pr)

\* RollbackToDeployment: reproduce a running or superseded deployment as a new
\* production deployment of the same service on the same server.
RollbackToDeployment(target, d) ==
    /\ Inserted(target)
    /\ status[target] \in {"running", "superseded"}
    /\ InsertProduction(d, row[target].svc, row[target].srv, target)

-----------------------------------------------------------------------------
(* Teardown requests *)

InsertTeardownJob(t, d) ==
    /\ ~Existing(t)
    /\ tstatus' = [tstatus EXCEPT ![t] = "queued"]
    /\ trow' = [trow EXCEPT ![t] = [dep |-> d, key |-> row[d].key,
                                    srv |-> row[d].srv, at |-> clock]]
    /\ clock' = clock + 1
    /\ UNCHANGED <<depVars, serviceURL>>

\* TeardownPreview: on demand, for a preview in any status.
TeardownPreview(d, t) ==
    /\ IsPreview(d)
    /\ InsertTeardownJob(t, d)
    /\ UNCHANGED sweep

\* LatestActivePreviewByRouteKey: the newest preview of the key not torn down.
LatestActivePreview(svc, key, d) ==
    LET Active(e) == /\ IsPreview(e) /\ row[e].svc = svc /\ row[e].key = key
                     /\ status[e] # "torndown"
    IN  Active(d) /\ \A e \in DeploymentIds : Active(e) => row[e].at <= row[d].at

\* TeardownPreviewForPR: the pull request was closed; a no-op without a preview.
TeardownPreviewForPR(svc, pr, t) ==
    /\ \E d \in DeploymentIds :
           /\ LatestActivePreview(svc, PreviewKey(svc, pr), d)
           /\ InsertTeardownJob(t, d)
    /\ UNCHANGED sweep

\* Mutant: a preview that has had a teardown job is not torn down again.
MutantListExpiredOnce(cutoff) ==
    {d \in DeploymentIds : /\ IsPreview(d) /\ status[d] = "running" /\ row[d].at < cutoff
                           /\ \A t \in TeardownIds : trow[t].dep # d}

\* ListExpiredPreviews: running previews created before the cutoff, read once
\* at the start of a sweep.
ListExpiredPreviews(cutoff) ==
    {d \in DeploymentIds : IsPreview(d) /\ status[d] = "running" /\ row[d].at < cutoff}

SweepStart ==
    /\ sweep = {}
    /\ \E cutoff \in 1 .. clock :
           /\ ListExpiredPreviews(cutoff) # {}
           /\ sweep' = ListExpiredPreviews(cutoff)
    /\ UNCHANGED <<depVars, jobVars, serviceURL, clock>>

\* The sweep's loop body, oldest first: one transaction per expired preview; a
\* failed one is logged and skipped.
OldestInSweep(d) == d \in sweep /\ \A e \in sweep : row[d].at <= row[e].at

SweepEnqueue(d, t) ==
    /\ OldestInSweep(d)
    /\ InsertTeardownJob(t, d)
    /\ sweep' = sweep \ {d}

SweepSkip(d) ==
    /\ OldestInSweep(d)
    /\ sweep' = sweep \ {d}
    /\ UNCHANGED <<depVars, jobVars, serviceURL, clock>>

-----------------------------------------------------------------------------
(* The agent gateway *)

\* Mutant: a restarted agent is handed unfinished work again.
MutantUnfinished(srv) ==
    {d \in DeploymentIds :
        /\ status[d] \notin {"none", "running", "failed", "superseded", "torndown"}
        /\ row[d].srv = srv}

Queued(srv) == {d \in DeploymentIds : status[d] = "queued" /\ row[d].srv = srv}

\* Mutant: the claim has no ORDER BY.
MutantClaimAny(srv, d) ==
    /\ d \in Queued(srv)
    /\ status' = [status EXCEPT ![d] = "assigned"]
    /\ UNCHANGED <<row, jobVars, serviceURL, sweep, clock>>

\* ClaimNextForServer: the oldest queued row of the agent's server.
ClaimNextDeployment(srv, d) ==
    /\ d \in Queued(srv)
    /\ \A e \in Queued(srv) : row[d].at <= row[e].at
    /\ status' = [status EXCEPT ![d] = "assigned"]
    /\ UNCHANGED <<row, jobVars, serviceURL, sweep, clock>>

\* UpdateDeploymentStatus: the column after the statement, whatever it was before.
UpdateDeploymentStatus(d, s) == [status EXCEPT ![d] = s]

\* failDeployment: the claim could not get its clone token.
FailDeployment(d) ==
    /\ status[d] \notin {"none", "queued"}
    /\ status' = UpdateDeploymentStatus(d, "failed")
    /\ UNCHANGED <<row, jobVars, serviceURL, sweep, clock>>

\* Mutant: superseding keyed by the service instead of the route key.
MutantSupersedesService(d, e) ==
    /\ e # d /\ status[e] = "running"
    /\ row[e].svc = row[d].svc /\ row[e].srv = row[d].srv

\* SupersedePreviousRunning's WHERE clause.
Supersedes(d, e) ==
    /\ e # d /\ status[e] = "running"
    /\ row[e].key = row[d].key /\ row[e].srv = row[d].srv

\* Mutant: every report's URL is cached, a preview's too.
MutantCacheEveryURL(srv, d, s, hasPort, hasURL) ==
    /\ Inserted(d) /\ row[d].srv = srv
    /\ s \in AgentStatus
    /\ status' = [e \in DeploymentIds |->
                    IF e = d THEN s
                    ELSE IF s = "running" /\ hasPort /\ Supersedes(d, e)
                         THEN "superseded" ELSE status[e]]
    /\ serviceURL' = IF hasURL
                     THEN [serviceURL EXCEPT ![row[d].svc] = RouteURL(row[d].key, srv)]
                     ELSE serviceURL
    /\ UNCHANGED <<row, jobVars, sweep, clock>>

\* ReportDeployment: a "running" report
\* that carries a host port supersedes; a production report that carries a URL
\* is cached on the service.
ReportDeployment(srv, d, s, hasPort, hasURL) ==
    /\ Inserted(d) /\ row[d].srv = srv
    /\ s \in AgentStatus
    /\ status' = [e \in DeploymentIds |->
                    IF s = "running" /\ hasPort /\ Supersedes(d, e)
                    THEN "superseded" ELSE UpdateDeploymentStatus(d, s)[e]]
    /\ serviceURL' = IF hasURL /\ row[d].kind # "preview"
                     THEN [serviceURL EXCEPT ![row[d].svc] = RouteURL(row[d].key, srv)]
                     ELSE serviceURL
    /\ UNCHANGED <<row, jobVars, sweep, clock>>

QueuedTeardowns(srv) == {t \in TeardownIds : tstatus[t] = "queued" /\ trow[t].srv = srv}

\* ClaimNextTeardownForServer.
ClaimNextTeardown(srv, t) ==
    /\ t \in QueuedTeardowns(srv)
    /\ \A u \in QueuedTeardowns(srv) : trow[t].at <= trow[u].at
    /\ tstatus' = [tstatus EXCEPT ![t] = "assigned"]
    /\ UNCHANGED <<depVars, trow, serviceURL, sweep, clock>>

\* MarkPreviewTornDown's WHERE clause: every row of the key on the server that is
\* not terminal yet.
TornDownBy(t, d) ==
    /\ Inserted(d) /\ row[d].key = trow[t].key /\ row[d].srv = trow[t].srv
    /\ status[d] \notin {"failed", "superseded", "torndown"}

UpdateTeardownStatus(t, s) == tstatus' = [tstatus EXCEPT ![t] = s]

\* ReportTeardownJob: success retires the preview's rows in the same transaction.
ReportTeardownJob(srv, t, s) ==
    /\ Existing(t) /\ trow[t].srv = srv
    /\ s \in AgentTeardownStatus
    /\ UpdateTeardownStatus(t, s)
    /\ status' = [d \in DeploymentIds |->
                    IF s = "succeeded" /\ TornDownBy(t, d) THEN "torndown" ELSE status[d]]
    /\ UNCHANGED <<row, trow, serviceURL, sweep, clock>>

-----------------------------------------------------------------------------
(* What users, GitHub and the sweep may request, and what an agent may send. *)
Request ==
    \/ \E svc \in Services, srv \in Servers, d \in DeploymentIds :
           CreateForService(svc, srv, d)
    \/ \E svc \in Services, srv \in Servers, ref \in Refs, d \in DeploymentIds :
           CreatePreview(svc, srv, ref, d)
    \/ \E svc \in Services, pr \in PullRequests, d \in DeploymentIds :
           CreatePreviewForPR(svc, pr, d)
    \/ \E target, d \in DeploymentIds : RollbackToDeployment(target, d)
    \/ \E d \in DeploymentIds, t \in TeardownIds : TeardownPreview(d, t)
    \/ \E svc \in Services, pr \in PullRequests, t \in TeardownIds :
           TeardownPreviewForPR(svc, pr, t)

Sweep ==
    \/ SweepStart
    \/ \E d \in DeploymentIds, t \in TeardownIds : SweepEnqueue(d, t)
    \/ \E d \in DeploymentIds : SweepSkip(d)

Gateway ==
    \/ \E srv \in Servers, d \in DeploymentIds : ClaimNextDeployment(srv, d)
    \/ \E d \in DeploymentIds : FailDeployment(d)
    \/ \E srv \in Servers, d \in DeploymentIds, s \in AgentStatus, p, u \in BOOLEAN :
           ReportDeployment(srv, d, s, p, u)
    \/ \E srv \in Servers, t \in TeardownIds : ClaimNextTeardown(srv, t)
    \/ \E srv \in Servers, t \in TeardownIds, s \in AgentTeardownStatus :
           ReportTeardownJob(srv, t, s)

Next == Request \/ Sweep \/ Gateway

Spec == Init /\ [][Next]_vars

-----------------------------------------------------------------------------
(* Properties *)

\* Every deployment, and every teardown job, is bound to a server of the workspace
\* that owns its service.  Only CreateForService and CreatePreview check it: a
\* webhook preview and a rollback take the server of an earlier row
\* (LatestServerForService, RollbackToDeployment) and a job that of its preview.
TenantIsolation ==
    /\ \A d \in DeploymentIds :
           Inserted(d) => WorkspaceOf[row[d].srv] = WorkspaceOf[row[d].svc]
    /\ \A t \in TeardownIds :
           Existing(t) => WorkspaceOf[trow[t].srv] = WorkspaceOf[row[trow[t].dep].svc]

\* Route keys separate production from previews: a row has its service's key
\* exactly when it is production, and a teardown job carries the key and the server
\* of a preview, whichever of the three paths (request, closed pull request,
\* expiry sweep) enqueued it.  The supersede, replace and teardown scopes are all
\* keyed this way.
KeyDiscipline ==
    /\ \A d \in DeploymentIds : Inserted(d) =>
           /\ row[d].key[1] = row[d].svc
           /\ row[d].kind = "production" <=> row[d].key = ProductionKey(row[d].svc)
    /\ \A t \in TeardownIds : Existing(t) =>
           /\ IsPreview(trow[t].dep)
           /\ trow[t].key = row[trow[t].dep].key
           /\ trow[t].srv = row[trow[t].dep].srv
    /\ \A d \in sweep : IsPreview(d)

\* services.route_url, once set, is the production URL of the service on a server that
\* has a production deployment of it: a preview's report never overwrites it, on the
\* same server or another, nor does the report of a rollback of a preview point it at
\* the preview's host name (ReportDeployment, RollbackToDeployment).
URLTracksProduction ==
    \A svc \in Services : serviceURL[svc] # NoURL =>
        \E d \in DeploymentIds :
            /\ IsProduction(d) /\ row[d].svc = svc
            /\ serviceURL[svc] = RouteURL(ProductionKey(svc), row[d].srv)

\* What one step may do to somebody else's row.  A production row is never torn
\* down, and a row is retired by another only within its kind, service and server:
\* a running preview never supersedes production, nor production a preview.  This
\* holds whatever the agents report, and in whatever order.
RetireStep ==
    \A d \in DeploymentIds :
        /\ IsProduction(d) /\ status[d] # "torndown" => status'[d] # "torndown"
        /\ Inserted(d) /\ status'[d] = "superseded" /\ status[d] # "superseded" =>
               \E e \in DeploymentIds \ {d} :
                   /\ Inserted(e) /\ status'[e] = "running"
                   /\ row[e].kind = row[d].kind
                   /\ row[e].svc = row[d].svc /\ row[e].srv = row[d].srv

\* Every step of the control plane keeps to RetireStep: SupersedePreviousRunning and
\* MarkPreviewTornDown are keyed by route key and server.
PreviewIsolation == [][RetireStep]_vars
=============================================================================
