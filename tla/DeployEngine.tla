---------------------------- MODULE DeployEngine ----------------------------
(***************************************************************************)
(* The deploy engine: the control plane of module Deployments composed     *)
(* with the agent of each server (internal/agentcore).  An agent runs four *)
(* of its loops concurrently on one Docker daemon and one Caddy:           *)
(*   deploy    claims a deployment and executes it (executeDeployment);    *)
(*   sync      rebuilds Caddy's routes from Docker (syncCustomRoutes);     *)
(*   log       tails containers, re-reporting "running" (runtimeLogLoop);  *)
(*   teardown  claims a teardown job and executes it (executeTeardown).    *)
(* An action is one RPC, one Docker operation or one Caddy apply; between  *)
(* two of them the other loops run.  RPCs may be lost, Docker may refuse a *)
(* removal and the agent may crash, MaxFaults times in a behaviour.        *)
(***************************************************************************)
EXTENDS Deployments

CONSTANTS
    Private,         \* services with visibility "private": no port, no route
    DomainServices,  \* services with a verified custom domain
    MaxFaults        \* how many faults a behaviour may contain

NoJob == 0

ASSUME EngineAssumption ==
    /\ Private \subseteq Services
    /\ DomainServices \subseteq Services
    /\ MaxFaults \in Nat
    /\ NoJob \notin TeardownIds

VARIABLES
    docker,    \* the container of each deployment
    caddy,     \* per server: the deployments its live Caddy config routes to
    released,  \* history: deployments that passed every check before the switch
    dl,        \* per server: the deploy loop
    sl,        \* per server: the route-sync loop
    tl,        \* per server: the teardown loop
    log,       \* per server: the deployment whose log lines are being sent
    faults     \* faults so far

agentVars == <<docker, caddy, released, dl, sl, tl, log>>
engineVars == <<vars, agentVars, faults>>

-----------------------------------------------------------------------------
(* State *)

\* containerName is unique per deployment and its labels hold the route key.
\* "none" was never created, "gone" was removed.
ContainerState == {"none", "stopped", "up", "gone"}
Present(d) == docker[d] \in {"stopped", "up"}
Public(d) == row[d].svc \notin Private
SameRoute(d, e) == row[d].key = row[e].key /\ row[d].srv = row[e].srv

DeployPC == {"idle", "polled", "fetching", "building", "start", "check", "probe",
             "list", "apply", "replace", "remove", "running", "sync", "resync",
             "failing", "cleanup"}
TeardownPC == {"idle", "stop", "find", "remove", "list", "apply", "succeed", "fail"}

\* `found' is what the loop's last container listing returned; `url' is set once
\* executeDeployment has computed routeURL, which later reports then carry.
IdleDeploy == [pc |-> "idle", d |-> NoDeployment, found |-> {}, url |-> FALSE]
IdleSync == [pc |-> "idle", found |-> {}]
IdleTeardown == [pc |-> "idle", t |-> NoJob, found |-> {}]

\* The deployment the deploy loop is executing.
Job(s) == dl[s].d

AgentTypeOK ==
    /\ docker \in [DeploymentIds -> ContainerState]
    /\ caddy \in [Servers -> SUBSET DeploymentIds]
    /\ released \in SUBSET DeploymentIds
    /\ dl \in [Servers -> [pc : DeployPC, d : DeploymentIds \cup {NoDeployment},
                           found : SUBSET DeploymentIds, url : BOOLEAN]]
    /\ sl \in [Servers -> [pc : {"idle", "apply"}, found : SUBSET DeploymentIds]]
    /\ tl \in [Servers -> [pc : TeardownPC, t : TeardownIds \cup {NoJob},
                           found : SUBSET DeploymentIds]]
    /\ \A s \in Servers : dl[s].pc = "idle" <=> Job(s) = NoDeployment
    /\ \A s \in Servers : tl[s].pc = "idle" <=> tl[s].t = NoJob
    /\ log \in [Servers -> DeploymentIds \cup {NoDeployment}]
    /\ faults \in 0 .. MaxFaults

EngineTypeOK == TypeOK /\ AgentTypeOK

EngineInit ==
    /\ Init
    /\ docker = [d \in DeploymentIds |-> "none"]
    /\ caddy = [s \in Servers |-> {}]
    /\ released = {}
    /\ dl = [s \in Servers |-> IdleDeploy]
    /\ sl = [s \in Servers |-> IdleSync]
    /\ tl = [s \in Servers |-> IdleTeardown]
    /\ log = [s \in Servers |-> NoDeployment]
    /\ faults = 0

-----------------------------------------------------------------------------
(* Docker and Caddy *)

Fault == faults < MaxFaults /\ faults' = faults + 1
NoFault == UNCHANGED faults

\* Mutant: containers matched by service instead of by route key.
MutantLabelledService(s, key) ==
    {d \in DeploymentIds : Present(d) /\ row[d].srv = s /\ row[d].svc = key[1]}

\* Containers of a server, running or stopped, labelled with a route key.
Labelled(s, key) == {d \in DeploymentIds :
                        Present(d) /\ row[d].srv = s /\ row[d].key = key}

\* listManagedRunning.
ListManagedRunning(s) == {d \in DeploymentIds : docker[d] = "up" /\ row[d].srv = s}

\* listManagedRoutes: a private service publishes no port and is left out.
ListManagedRoutes(s) == {d \in ListManagedRunning(s) : Public(d)}

\* routesForDeployment: the listed routes, the current one replacing its key's.
RoutesForDeployment(routes, d) == {e \in routes : row[e].key # row[d].key} \cup {d}

\* normalizeRoutes: one route per key; routeTieBreak keeps the greatest uuid.
NormalizeRoutes(routes) ==
    {d \in routes : \A e \in routes : row[e].key = row[d].key => e <= d}

\* The routes syncCustomRoutes may apply.  A service with a verified domain is
\* routed to the container that came last in Docker's listing (byService), which
\* may be any of them; the others fall to normalizeRoutes.
HasOverride(d) == row[d].svc \in DomainServices /\ row[d].kind = "production"
SyncedRoutes(routes) ==
    {R \in SUBSET routes :
        /\ \A d \in routes : \E e \in R : row[e].key = row[d].key
        /\ \A d, e \in R : row[e].key = row[d].key => e = d
        /\ \A d \in R : HasOverride(d) \/ d \in NormalizeRoutes(routes)}

\* ContainerStop and a forced ContainerRemove of a container that exists.
Remove(d) == Present(d) /\ docker' = [docker EXCEPT ![d] = "gone"] /\ NoFault

\* Removing a container another loop removed meanwhile is an error, as is one that
\* Docker refuses; the stop that came first, whose error is ignored, may have stopped
\* the container, and the restart policy leaves it so.
RemoveError(d) ==
    \/ ~Present(d) /\ UNCHANGED docker /\ NoFault
    \/ /\ Present(d) /\ Fault
       /\ \E c \in {docker[d], "stopped"} : docker' = [docker EXCEPT ![d] = c]

-----------------------------------------------------------------------------
(* deployLoop and executeDeployment *)

IsGit(s) == row[Job(s)].svc \in GitServices
GoTo(s, pc) == dl' = [dl EXCEPT ![s].pc = pc]
\* Mutant: the job outlives its execution.
MutantKeepJob(s) == dl' = [dl EXCEPT ![s].pc = "idle"]
Finish(s) == dl' = [dl EXCEPT ![s] = IdleDeploy]

\* The report closure: an error is logged and ignored.
Report(s, st, hasPort, hasURL) ==
    \/ ReportDeployment(s, Job(s), st, hasPort, hasURL) /\ NoFault
    \/ UNCHANGED vars /\ Fault

\* The poll's claim; the rest of the handler runs after it has committed.
PollDeployment(s) ==
    /\ dl[s].pc = "idle"
    /\ \E d \in DeploymentIds :
           /\ ClaimNextDeployment(s, d)
           /\ dl' = [dl EXCEPT ![s].pc = "polled", ![s].d = d]
    /\ NoFault
    /\ UNCHANGED <<docker, caddy, released, sl, tl, log>>

\* Mutant: a failed poll puts the row back in the queue.
MutantPollRequeues(s) ==
    /\ dl[s].pc = "polled"
    /\ status' = [status EXCEPT ![Job(s)] = "queued"]
    /\ Finish(s)
    /\ Fault
    /\ UNCHANGED <<row, jobVars, serviceURL, sweep, clock>>
    /\ UNCHANGED <<docker, caddy, released, sl, tl, log>>

\* The handler errs after the claim (configEnvForService, ServiceForDeploy), or
\* its answer is lost: the agent backs off and polls for other work.
PollError(s) ==
    /\ dl[s].pc = "polled"
    /\ Finish(s)
    /\ Fault
    /\ UNCHANGED <<vars, docker, caddy, released, sl, tl, log>>

\* No clone token for an App-backed repo: the handler fails the deployment.
TokenFailure(s) ==
    /\ dl[s].pc = "polled" /\ IsGit(s)
    /\ FailDeployment(Job(s))
    /\ Finish(s)
    /\ NoFault
    /\ UNCHANGED <<docker, caddy, released, sl, tl, log>>

\* Report pulling or cloning, then pull or clone.
Fetch(s) ==
    /\ dl[s].pc = "polled"
    /\ Report(s, IF IsGit(s) THEN "cloning" ELSE "pulling", FALSE, FALSE)
    /\ GoTo(s, "fetching")
    /\ UNCHANGED <<docker, caddy, released, sl, tl, log>>

\* The clone succeeded: report building, then build.
Build(s) ==
    /\ dl[s].pc = "fetching" /\ IsGit(s)
    /\ Report(s, "building", FALSE, FALSE)
    /\ GoTo(s, "building")
    /\ UNCHANGED <<docker, caddy, released, sl, tl, log>>

\* The image is on the host: report starting.
Start(s) ==
    /\ dl[s].pc = "building" \/ (dl[s].pc = "fetching" /\ ~IsGit(s))
    /\ Report(s, "starting", FALSE, FALSE)
    /\ GoTo(s, "start")
    /\ UNCHANGED <<docker, caddy, released, sl, tl, log>>

\* No Docker, or the pull, clone, build or port detection failed.
PrepareFails(s) ==
    /\ dl[s].pc \in {"polled", "fetching", "building"}
    /\ Report(s, "failed", FALSE, FALSE)
    /\ Finish(s)
    /\ UNCHANGED <<docker, caddy, released, sl, tl, log>>

\* dockerClient.run.  A private service has nothing to probe and no route, so its
\* container is the new release as soon as it has started.
Run(s) ==
    /\ dl[s].pc = "start"
    /\ docker' = [docker EXCEPT ![Job(s)] = "up"]
    /\ IF Public(Job(s))
       THEN GoTo(s, "check") /\ UNCHANGED released
       ELSE GoTo(s, "replace") /\ released' = released \cup {Job(s)}
    /\ NoFault
    /\ UNCHANGED <<vars, caddy, sl, tl, log>>

\* run failed: before it created the container, when it started it, or (a public
\* service) when it looked for the port of the running container.
RunFails(s) ==
    /\ dl[s].pc = "start"
    /\ \E c \in {docker[Job(s)], "stopped", "up"} :
           /\ c = "up" => Public(Job(s))
           /\ docker' = [docker EXCEPT ![Job(s)] = c]
    /\ GoTo(s, "failing")
    /\ NoFault
    /\ UNCHANGED <<vars, caddy, released, sl, tl, log>>

\* Report healthcheck, then probe the published port.
HealthCheck(s) ==
    /\ dl[s].pc = "check"
    /\ Report(s, "healthcheck", TRUE, FALSE)
    /\ GoTo(s, "probe")
    /\ UNCHANGED <<docker, caddy, released, sl, tl, log>>

\* The container answered: compute routeURL and report routing.
Healthy(s) ==
    /\ dl[s].pc = "probe"
    /\ docker[Job(s)] = "up"
    /\ Report(s, "routing", TRUE, TRUE)
    /\ dl' = [dl EXCEPT ![s].pc = "list", ![s].url = TRUE]
    /\ UNCHANGED <<docker, caddy, released, sl, tl, log>>

\* The probe timed out, or no route URL could be derived.
Unhealthy(s) ==
    /\ dl[s].pc = "probe"
    /\ Report(s, "failed", TRUE, FALSE)
    /\ GoTo(s, "cleanup")
    /\ UNCHANGED <<docker, caddy, released, sl, tl, log>>

\* listManagedRoutes, before the traffic switch.
ListRoutes(s) ==
    /\ dl[s].pc = "list"
    /\ dl' = [dl EXCEPT ![s].pc = "apply", ![s].found = ListManagedRoutes(s)]
    /\ NoFault
    /\ UNCHANGED <<vars, docker, caddy, released, sl, tl, log>>

\* The traffic switch: Caddy is reloaded with the new container's route.
ApplyRoutes(s) ==
    /\ dl[s].pc = "apply"
    /\ caddy' = [caddy EXCEPT ![s] =
                    NormalizeRoutes(RoutesForDeployment(dl[s].found, Job(s)))]
    /\ released' = released \cup {Job(s)}
    /\ dl' = [dl EXCEPT ![s].pc = "replace", ![s].found = {}]
    /\ NoFault
    /\ UNCHANGED <<vars, docker, sl, tl, log>>

\* Docker could not be listed, or Caddy refused the configuration.
RoutingFails(s) ==
    /\ dl[s].pc \in {"list", "apply"}
    /\ dl' = [dl EXCEPT ![s].pc = "failing", ![s].found = {}]
    /\ NoFault
    /\ UNCHANGED <<vars, docker, caddy, released, sl, tl, log>>

\* Mutant: cleaning up without a report.
MutantCleanUpSilently(s) ==
    /\ dl[s].pc = "failing"
    /\ GoTo(s, "cleanup")
    /\ NoFault
    /\ UNCHANGED <<vars, docker, caddy, released, sl, tl, log>>

\* Report failed, then clean up.
ReportFailed(s) ==
    /\ dl[s].pc = "failing"
    /\ Report(s, "failed", TRUE, dl[s].url)
    /\ GoTo(s, "cleanup")
    /\ UNCHANGED <<docker, caddy, released, sl, tl, log>>

\* cleanupFailedContainer: an error is only a warning.
Cleanup(s) ==
    /\ dl[s].pc = "cleanup"
    /\ Remove(Job(s)) \/ RemoveError(Job(s))
    /\ Finish(s)
    /\ UNCHANGED <<vars, caddy, released, sl, tl, log>>

\* Mutant: the new container is not excepted from its own replacement.
MutantListPreviousAndNew(s) ==
    /\ dl[s].pc = "replace"
    /\ dl' = [dl EXCEPT ![s].pc = "remove",
                        ![s].found = Labelled(s, row[Job(s)].key)]
    /\ NoFault
    /\ UNCHANGED <<vars, docker, caddy, released, sl, tl, log>>

\* replacePreviousExcept lists the containers of the key other than the new one...
ListPrevious(s) ==
    /\ dl[s].pc = "replace"
    /\ dl' = [dl EXCEPT ![s].pc = "remove",
                        ![s].found = Labelled(s, row[Job(s)].key) \ {Job(s)}]
    /\ NoFault
    /\ UNCHANGED <<vars, docker, caddy, released, sl, tl, log>>

ListPreviousFails(s) ==
    /\ dl[s].pc = "replace"
    /\ GoTo(s, "running")
    /\ NoFault
    /\ UNCHANGED <<vars, docker, caddy, released, sl, tl, log>>

\* ... and removes them one by one, giving up at the first error.
RemovePrevious(s) ==
    /\ dl[s].pc = "remove"
    /\ \E e \in dl[s].found :
           \/ Remove(e) /\ dl' = [dl EXCEPT ![s].found = @ \ {e}]
           \/ RemoveError(e) /\ dl' = [dl EXCEPT ![s].pc = "running", ![s].found = {}]
    /\ UNCHANGED <<vars, caddy, released, sl, tl, log>>

\* The report that supersedes: a public service's carries its port and its URL.
ReportRunning(s) ==
    /\ dl[s].pc = "running" \/ (dl[s].pc = "remove" /\ dl[s].found = {})
    /\ Report(s, "running", Public(Job(s)), dl[s].url)
    /\ GoTo(s, "sync")
    /\ UNCHANGED <<docker, caddy, released, sl, tl, log>>

\* The tail of executeDeployment is one syncCustomRoutes, which returns at once when
\* Docker cannot be listed or runs no public container.
DeploySyncList(s) ==
    /\ dl[s].pc = "sync"
    /\ \/ Finish(s)
       \/ /\ ListManagedRoutes(s) # {}
          /\ dl' = [dl EXCEPT ![s].pc = "resync", ![s].found = ListManagedRoutes(s)]
    /\ NoFault
    /\ UNCHANGED <<vars, docker, caddy, released, sl, tl, log>>

\* Mutant: Caddy is reloaded only when the set of routed keys changed.
MutantApplyNewKeys(s, found) ==
    IF {row[d].key : d \in caddy[s]} = {row[d].key : d \in found}
    THEN UNCHANGED caddy /\ NoFault
    ELSE \E R \in SyncedRoutes(found) : caddy' = [caddy EXCEPT ![s] = R] /\ NoFault

\* SyncRoutes then apply; a lost RPC or a failed apply leaves Caddy as it is.
ApplySynced(s, found) ==
    \/ \E R \in SyncedRoutes(found) : caddy' = [caddy EXCEPT ![s] = R] /\ NoFault
    \/ UNCHANGED caddy /\ Fault

DeploySyncApply(s) ==
    /\ dl[s].pc = "resync"
    /\ ApplySynced(s, dl[s].found)
    /\ Finish(s)
    /\ UNCHANGED <<vars, docker, released, sl, tl, log>>

DeployLoop(s) ==
    \/ PollDeployment(s) \/ PollError(s) \/ TokenFailure(s)
    \/ Fetch(s) \/ Build(s) \/ Start(s) \/ PrepareFails(s)
    \/ Run(s) \/ RunFails(s)
    \/ HealthCheck(s) \/ Healthy(s) \/ Unhealthy(s)
    \/ ListRoutes(s) \/ ApplyRoutes(s) \/ RoutingFails(s)
    \/ ReportFailed(s) \/ Cleanup(s)
    \/ ListPrevious(s) \/ ListPreviousFails(s) \/ RemovePrevious(s) \/ ReportRunning(s)
    \/ DeploySyncList(s) \/ DeploySyncApply(s)

-----------------------------------------------------------------------------
(* routeSyncLoop *)

\* syncCustomRoutes returns at once when no public container runs.
SyncList(s) ==
    /\ sl[s].pc = "idle"
    /\ ListManagedRoutes(s) # {}
    /\ sl' = [sl EXCEPT ![s] = [pc |-> "apply", found |-> ListManagedRoutes(s)]]
    /\ NoFault
    /\ UNCHANGED <<vars, docker, caddy, released, dl, tl, log>>

SyncApply(s) ==
    /\ sl[s].pc = "apply"
    /\ ApplySynced(s, sl[s].found)
    /\ sl' = [sl EXCEPT ![s] = IdleSync]
    /\ UNCHANGED <<vars, docker, released, dl, tl, log>>

SyncLoop(s) == SyncList(s) \/ SyncApply(s)

-----------------------------------------------------------------------------
(* runtimeLogLoop *)

\* A tick lists the running containers, reads the new lines of one it has seen
\* on an earlier tick...  (That earlier tick only has to come some time after
\* the container's start, so the map of cursors it fills is not kept here.)
LogTail(s) ==
    /\ log[s] = NoDeployment
    /\ \E d \in ListManagedRunning(s) : log' = [log EXCEPT ![s] = d]
    /\ NoFault
    /\ UNCHANGED <<vars, docker, caddy, released, dl, sl, tl>>

\* ... and reports them with status "running", no host port and no URL.
LogReport(s) ==
    /\ log[s] # NoDeployment
    /\ \/ ReportDeployment(s, log[s], "running", FALSE, FALSE) /\ NoFault
       \/ UNCHANGED vars /\ Fault
    /\ log' = [log EXCEPT ![s] = NoDeployment]
    /\ UNCHANGED <<docker, caddy, released, dl, sl, tl>>

LogLoop(s) == LogTail(s) \/ LogReport(s)

-----------------------------------------------------------------------------
(* teardownLoop and executeTeardown *)

TeardownGoTo(s, pc) == tl' = [tl EXCEPT ![s].pc = pc]

TeardownReport(s, st) ==
    \/ ReportTeardownJob(s, tl[s].t, st) /\ NoFault
    \/ UNCHANGED vars /\ Fault

\* The claim, whose answer may be lost.
PollTeardownJob(s) ==
    /\ tl[s].pc = "idle"
    /\ \E t \in TeardownIds :
           /\ ClaimNextTeardown(s, t)
           /\ \/ tl' = [tl EXCEPT ![s].pc = "stop", ![s].t = t] /\ NoFault
              \/ UNCHANGED tl /\ Fault
    /\ UNCHANGED <<docker, caddy, released, dl, sl, log>>

ReportStopping(s) ==
    /\ tl[s].pc = "stop"
    /\ TeardownReport(s, "stopping")
    /\ TeardownGoTo(s, "find")
    /\ UNCHANGED <<docker, caddy, released, dl, sl, log>>

\* removeByService lists the containers labelled with the job's key...
FindByService(s) ==
    /\ tl[s].pc = "find"
    /\ tl' = [tl EXCEPT ![s].pc = "remove", ![s].found = Labelled(s, trow[tl[s].t].key)]
    /\ NoFault
    /\ UNCHANGED <<vars, docker, caddy, released, dl, sl, log>>

\* ... and removes them; the first error fails the job.
RemoveByService(s) ==
    /\ tl[s].pc = "remove"
    /\ \E e \in tl[s].found :
           \/ Remove(e) /\ tl' = [tl EXCEPT ![s].found = @ \ {e}]
           \/ RemoveError(e) /\ tl' = [tl EXCEPT ![s].pc = "fail", ![s].found = {}]
    /\ UNCHANGED <<vars, caddy, released, dl, sl, log>>

ReportRemoving(s) ==
    /\ tl[s].pc = "remove" /\ tl[s].found = {}
    /\ TeardownReport(s, "removing")
    /\ TeardownGoTo(s, "list")
    /\ UNCHANGED <<docker, caddy, released, dl, sl, log>>

TeardownList(s) ==
    /\ tl[s].pc = "list"
    /\ tl' = [tl EXCEPT ![s].pc = "apply", ![s].found = ListManagedRoutes(s)]
    /\ NoFault
    /\ UNCHANGED <<vars, docker, caddy, released, dl, sl, log>>

\* Caddy is rebuilt from the listing, without the custom domains.
TeardownApply(s) ==
    /\ tl[s].pc = "apply"
    /\ caddy' = [caddy EXCEPT ![s] = NormalizeRoutes(tl[s].found)]
    /\ tl' = [tl EXCEPT ![s].pc = "succeed", ![s].found = {}]
    /\ NoFault
    /\ UNCHANGED <<vars, docker, released, dl, sl, log>>

\* Docker could not be listed, or Caddy refused the configuration.
TeardownFails(s) ==
    /\ tl[s].pc \in {"find", "list", "apply"}
    /\ tl' = [tl EXCEPT ![s].pc = "fail", ![s].found = {}]
    /\ NoFault
    /\ UNCHANGED <<vars, docker, caddy, released, dl, sl, log>>

\* Mutant: a failed teardown is only logged.
MutantReportSuccessOnly(s) ==
    /\ \/ tl[s].pc = "succeed" /\ TeardownReport(s, "succeeded")
       \/ tl[s].pc \in {"stop", "fail"} /\ UNCHANGED vars /\ NoFault
    /\ tl' = [tl EXCEPT ![s] = IdleTeardown]
    /\ UNCHANGED <<docker, caddy, released, dl, sl, log>>

\* The last report; "failed" at once when there is no Docker.
ReportTeardownEnd(s) ==
    /\ \/ tl[s].pc = "succeed" /\ TeardownReport(s, "succeeded")
       \/ tl[s].pc \in {"stop", "fail"} /\ TeardownReport(s, "failed")
    /\ tl' = [tl EXCEPT ![s] = IdleTeardown]
    /\ UNCHANGED <<docker, caddy, released, dl, sl, log>>

TeardownLoop(s) ==
    \/ PollTeardownJob(s) \/ ReportStopping(s) \/ FindByService(s)
    \/ RemoveByService(s) \/ ReportRemoving(s) \/ TeardownList(s)
    \/ TeardownApply(s) \/ TeardownFails(s) \/ ReportTeardownEnd(s)

-----------------------------------------------------------------------------
(* The agent process *)

\* The agent dies and is started again: what its loops held in memory is lost,
\* the containers and Caddy keep running.
Crash(s) ==
    /\ Fault
    /\ <<dl[s], sl[s], tl[s], log[s]>> # <<IdleDeploy, IdleSync, IdleTeardown, NoDeployment>>
    /\ dl' = [dl EXCEPT ![s] = IdleDeploy]
    /\ sl' = [sl EXCEPT ![s] = IdleSync]
    /\ tl' = [tl EXCEPT ![s] = IdleTeardown]
    /\ log' = [log EXCEPT ![s] = NoDeployment]
    /\ UNCHANGED <<vars, docker, caddy, released>>

ControlPlane == (Request \/ Sweep) /\ UNCHANGED <<agentVars, faults>>

Agent(s) == DeployLoop(s) \/ SyncLoop(s) \/ LogLoop(s) \/ TeardownLoop(s) \/ Crash(s)

EngineNext == ControlPlane \/ \E s \in Servers : Agent(s)

\* Each loop is a goroutine that the Go scheduler keeps running, and its calls to the
\* control plane, Docker, git and Caddy are taken to return: health probes and Caddy's
\* commands have timeouts, the RPCs and the pull, clone and build have none.  Users,
\* GitHub and containers that print lines owe nothing.
Fairness ==
    \A s \in Servers :
        /\ WF_engineVars(DeployLoop(s))
        /\ WF_engineVars(SyncLoop(s))
        /\ WF_engineVars(TeardownLoop(s))

EngineSpec == EngineInit /\ [][EngineNext]_engineVars

FairEngineSpec == EngineSpec /\ Fairness

\* runPreviewExpiry: a ticker starts the sweeps, every preview is past its TTL one day,
\* and the transaction that enqueues its teardown does not fail for ever.
SweepFairness ==
    \A d \in DeploymentIds :
        /\ WF_engineVars(SweepStart /\ d \in sweep' /\ UNCHANGED <<agentVars, faults>>)
        /\ SF_engineVars(\E t \in TeardownIds :
                            SweepEnqueue(d, t) /\ UNCHANGED <<agentVars, faults>>)

\* Ending previews takes the sweep and the teardown loops, and nothing of the others.
ExpiringSpec ==
    /\ EngineSpec /\ SweepFairness
    /\ \A s \in Servers : WF_engineVars(TeardownLoop(s))

-----------------------------------------------------------------------------
(* Properties *)

\* The step stops or removes the container of e.
TakenDown(e) == Present(e) /\ docker'[e] \in {"stopped", "gone"} /\ docker'[e] # docker[e]

\* A step stops or removes a container only when its deploy failed before the traffic
\* switch, when a newer deployment of the same key and server has passed its checks
\* and is still up (unless it is a preview being torn down), or when a teardown job
\* of that key is removing a preview.  So a failed or stale deploy never takes down
\* the current release, and nothing a preview does reaches production.
RemovalStep ==
    \A e \in DeploymentIds : TakenDown(e) =>
        LET s == row[e].srv IN
        \/ dl[s].pc = "cleanup" /\ Job(s) = e /\ e \notin released
        \/ \E d \in released \ {e} :
               /\ SameRoute(d, e) /\ row[e].at < row[d].at
               /\ docker[d] = "up" \/ IsPreview(d)
        \/ IsPreview(e) /\ tl[s].pc = "remove" /\ trow[tl[s].t].key = row[e].key

\* Every step of the engine takes down only what RemovalStep justifies: a cleanup
\* (cleanupFailedContainer), a replacement (replacePreviousExcept) or a teardown
\* (removeByService).
RemovalJustified == [][RemovalStep]_engineVars

\* Once a production service has had a release on a server, one of its released
\* containers is up there: through redeploys, rollbacks, failed deploys, failed
\* removals, lost reports, preview teardowns and agent crashes.
NeverDark ==
    \A d \in released : IsProduction(d) =>
        \E e \in released : SameRoute(d, e) /\ docker[e] = "up"

\* A deployment is started at most once: no lost answer, crash or second poll makes
\* the agent run a container for a deployment that already had one.
RunOnce == \A s \in Servers : dl[s].pc = "start" => docker[Job(s)] = "none"

\* A status that no step of the deploy loop leaves behind.
Settled(d) == status[d] \in {"running", "failed", "superseded", "torndown"}

\* No RPC is lost, no removal refused and no agent crashes.
FaultFree == [](faults = 0)

\* Where there are no faults, every queued deployment ends in a final status and
\* stays in one: every exit of executeDeployment reports, and no late report of
\* another loop brings back a status on the way.
DeploymentsSettle ==
    FaultFree => \A d \in DeploymentIds : status[d] = "queued" ~> []Settled(d)

\* Likewise every queued teardown job ends, unless something fails: every exit of
\* executeTeardown reports.
TeardownsSettle ==
    \A t \in TeardownIds :
        tstatus[t] = "queued" ~> (tstatus[t] \in {"succeeded", "failed"} \/ faults > 0)

\* A running preview does not stay for ever, whatever became of its pull request: it may
\* have been created after the close (CreatePreviewForPR waits for GitHub), or its
\* teardown may have failed, been lost with its claim, or lost its last report.  The
\* sweep enqueues one teardown after the other until one of them ends it.
PreviewsExpire ==
    \A d \in DeploymentIds :
        (IsPreview(d) /\ status[d] = "running")
            ~> (status[d] # "running" \/ \A t \in TeardownIds : Existing(t))

\* Caddy routes what Docker runs: one route for each key that has a public container
\* up.  A server that runs no public container is not covered: there
\* syncCustomRoutes returns without an apply.
Converged(s) ==
    ListManagedRoutes(s) # {} => caddy[s] \in SyncedRoutes(ListManagedRoutes(s))

\* Once deploys, teardowns and faults cease, routeSyncLoop brings every Caddy to what
\* Docker runs, whatever stale listings the other loops applied before.
RoutesConverge == \A s \in Servers : <>[]Converged(s)

-----------------------------------------------------------------------------
(* What the documentation says and the code does not do *)

\* deploy.go: "A public service must answer on its published host port before we
\* route to it."
RoutedAfterHealthCheck == \A s \in Servers : caddy[s] \subseteq released
=============================================================================
