------------------------- MODULE DeployEngineProofs -------------------------
(***************************************************************************)
(* Proofs about the deploy engine (module DeployEngine), for any number of *)
(* servers, deployments and faults: its type invariant; that agents and    *)
(* faults take no step that the open-world control plane of module         *)
(* Deployments does not allow, so that its theorems hold of the engine;    *)
(* and that a deployment runs once, that every removal of a container is   *)
(* justified, and that a production service once released never goes dark. *)
(* The last three rest on EngineInv, whose step is proved not action by    *)
(* action but from what an action may do to the rows, to the loops and to  *)
(* the containers.                                                         *)
(***************************************************************************)
EXTENDS DeployEngine, DeploymentsProofs

\* A loop that is not idle holds a job of its table.
LEMMA JobsInHand ==
  ASSUME EngineTypeOK, NEW s \in Servers
  PROVE  /\ dl[s].pc # "idle" => Job(s) \in DeploymentIds
         /\ tl[s].pc # "idle" => tl[s].t \in TeardownIds
         /\ log[s] # NoDeployment => log[s] \in DeploymentIds
  BY DEF EngineTypeOK, AgentTypeOK, Job

\* A report of the deploy loop is a step of the gateway, or is lost.
LEMMA ReportRefines ==
  ASSUME EngineTypeOK, NEW s \in Servers, dl[s].pc # "idle",
         NEW st \in AgentStatus, NEW p \in BOOLEAN, NEW u \in BOOLEAN,
         Report(s, st, p, u)
  PROVE  [Next]_vars
<1>1. Job(s) \in DeploymentIds
  BY JobsInHand
<1> QED
  BY <1>1 DEF Report, Next, Gateway

\* So is one of the teardown loop.
LEMMA TeardownReportRefines ==
  ASSUME EngineTypeOK, NEW s \in Servers, tl[s].pc # "idle",
         NEW st \in AgentTeardownStatus, TeardownReport(s, st)
  PROVE  [Next]_vars
<1>1. tl[s].t \in TeardownIds
  BY JobsInHand
<1> QED
  BY <1>1 DEF TeardownReport, Next, Gateway

\* Each step of the deploy loop is a step of the control plane or leaves it alone.
LEMMA DeployLoopRefines ==
  ASSUME EngineTypeOK, NEW s \in Servers, DeployLoop(s)
  PROVE  [Next]_vars
<1> USE DEF AgentStatus
<1>1. CASE PollDeployment(s)
  BY <1>1 DEF PollDeployment, Next, Gateway
<1>2. CASE TokenFailure(s)
  <2>1. Job(s) \in DeploymentIds
    BY <1>2, JobsInHand DEF TokenFailure
  <2> QED
    BY <1>2, <2>1 DEF TokenFailure, Next, Gateway
<1>3. CASE Fetch(s) \/ Build(s) \/ Start(s) \/ PrepareFails(s)
  BY <1>3, ReportRefines DEF Fetch, Build, Start, PrepareFails
<1>4. CASE HealthCheck(s) \/ Healthy(s) \/ Unhealthy(s)
  BY <1>4, ReportRefines DEF HealthCheck, Healthy, Unhealthy
<1>5. CASE ReportFailed(s)
  <2>1. dl[s].url \in BOOLEAN
    BY DEF EngineTypeOK, AgentTypeOK
  <2> QED
    BY <1>5, <2>1, ReportRefines DEF ReportFailed
<1>6. CASE ReportRunning(s)
  <2>1. dl[s].url \in BOOLEAN /\ Public(Job(s)) \in BOOLEAN
    BY DEF EngineTypeOK, AgentTypeOK, Public
  <2>2. dl[s].pc # "idle" /\ Report(s, "running", Public(Job(s)), dl[s].url)
    BY <1>6 DEF ReportRunning
  <2> QED
    BY <2>1, <2>2, ReportRefines
<1>7. CASE \/ PollError(s) \/ Run(s) \/ RunFails(s) \/ ListRoutes(s) \/ ApplyRoutes(s)
           \/ RoutingFails(s) \/ Cleanup(s) \/ ListPrevious(s) \/ ListPreviousFails(s) \/ RemovePrevious(s)
           \/ DeploySyncList(s) \/ DeploySyncApply(s)
  BY <1>7 DEF PollError, Run, RunFails, ListRoutes, ApplyRoutes, RoutingFails, Cleanup,
              ListPrevious, ListPreviousFails, RemovePrevious, DeploySyncList, DeploySyncApply
<1> QED
  BY <1>1, <1>2, <1>3, <1>4, <1>5, <1>6, <1>7 DEF DeployLoop

\* And each step of the teardown loop.
LEMMA TeardownLoopRefines ==
  ASSUME EngineTypeOK, NEW s \in Servers, TeardownLoop(s)
  PROVE  [Next]_vars
<1> USE DEF AgentTeardownStatus
<1>1. CASE PollTeardownJob(s)
  BY <1>1 DEF PollTeardownJob, Next, Gateway
<1>2. CASE ReportStopping(s) \/ ReportRemoving(s)
  BY <1>2, TeardownReportRefines DEF ReportStopping, ReportRemoving
<1>3. CASE ReportTeardownEnd(s)
  BY <1>3, TeardownReportRefines DEF ReportTeardownEnd
<1>4. CASE \/ FindByService(s) \/ RemoveByService(s) \/ TeardownList(s)
           \/ TeardownApply(s) \/ TeardownFails(s)
  BY <1>4 DEF FindByService, RemoveByService, TeardownList, TeardownApply,
              TeardownFails
<1> QED
  BY <1>1, <1>2, <1>3, <1>4 DEF TeardownLoop

\* Every step of the engine is a step of the control plane or leaves it alone.
LEMMA StepRefines ==
  ASSUME EngineTypeOK, [EngineNext]_engineVars
  PROVE  [Next]_vars
<1>1. CASE ControlPlane
  BY <1>1 DEF ControlPlane, Next
<1>2. ASSUME NEW s \in Servers, LogLoop(s) PROVE [Next]_vars
  <2>1. CASE LogTail(s)
    BY <2>1 DEF LogTail
  <2>2. CASE LogReport(s)
    <3>1. log[s] \in DeploymentIds
      BY <2>2, JobsInHand DEF LogReport
    <3> QED
      BY <2>2, <3>1 DEF LogReport, Next, Gateway, AgentStatus
  <2> QED
    BY <1>2, <2>1, <2>2 DEF LogLoop
<1>3. ASSUME NEW s \in Servers, SyncLoop(s) \/ Crash(s) PROVE [Next]_vars
  BY <1>3 DEF SyncLoop, SyncList, SyncApply, Crash
<1>4. CASE UNCHANGED engineVars
  BY <1>4 DEF engineVars
<1> QED
  BY <1>1, <1>2, <1>3, <1>4, DeployLoopRefines, TeardownLoopRefines DEF EngineNext, Agent

-----------------------------------------------------------------------------
(* The type invariant of the engine *)

\* A fault stays within the budget.
LEMMA FaultBudget ==
  ASSUME faults \in 0 .. MaxFaults, Fault \/ NoFault
  PROVE  faults' \in 0 .. MaxFaults
  BY EngineAssumption DEF Fault, NoFault

\* Every report keeps the budget.
LEMMA ReportBudget ==
  ASSUME NEW s, NEW st, NEW p, NEW u,
         Report(s, st, p, u) \/ TeardownReport(s, st)
  PROVE  Fault \/ NoFault
  BY DEF Report, TeardownReport

\* What the listings return are sets of deployments.
LEMMA ListingTypes ==
  ASSUME NEW s, NEW k
  PROVE  /\ Labelled(s, k) \subseteq DeploymentIds
         /\ ListManagedRunning(s) \subseteq DeploymentIds
         /\ ListManagedRoutes(s) \subseteq DeploymentIds
  BY DEF Labelled, ListManagedRunning, ListManagedRoutes

\* The parts of AgentTypeOK that only one loop can disturb.
DeployRecord == [pc : DeployPC, d : DeploymentIds \cup {NoDeployment},
                 found : SUBSET DeploymentIds, url : BOOLEAN]
TeardownRecord == [pc : TeardownPC, t : TeardownIds \cup {NoJob},
                   found : SUBSET DeploymentIds]

DeployLoopOK ==
    /\ dl \in [Servers -> DeployRecord]
    /\ \A s \in Servers : dl[s].pc = "idle" <=> dl[s].d = NoDeployment

TeardownLoopOK ==
    /\ tl \in [Servers -> TeardownRecord]
    /\ \A s \in Servers : tl[s].pc = "idle" <=> tl[s].t = NoJob

\* Replacing the deploy loop's record by a well-formed one.
LEMMA DeployRecordStep ==
  ASSUME DeployLoopOK, NEW s \in Servers, NEW r \in DeployRecord,
         r.pc = "idle" <=> r.d = NoDeployment,
         dl' = [dl EXCEPT ![s] = r]
  PROVE  DeployLoopOK'
  BY DEF DeployLoopOK

\* Moving a busy deploy loop on, with a new listing or without.
LEMMA DeployMove ==
  ASSUME DeployLoopOK, NEW s \in Servers, dl[s].pc # "idle",
         NEW pc \in DeployPC \ {"idle"}, NEW F \in SUBSET DeploymentIds,
         NEW u \in BOOLEAN,
         \/ dl' = [dl EXCEPT ![s].pc = pc]
         \/ dl' = [dl EXCEPT ![s].found = F]
         \/ dl' = [dl EXCEPT ![s].pc = pc, ![s].found = F]
         \/ dl' = [dl EXCEPT ![s].pc = pc, ![s].url = u]
  PROVE  DeployLoopOK'
<1>0. dl[s] \in DeployRecord /\ dl[s].d # NoDeployment
  BY DEF DeployLoopOK
<1>1. CASE dl' = [dl EXCEPT ![s].pc = pc]
  BY <1>0, <1>1 DEF DeployLoopOK, DeployRecord
<1>2. CASE dl' = [dl EXCEPT ![s].found = F]
  BY <1>0, <1>2 DEF DeployLoopOK, DeployRecord
<1>3. CASE dl' = [dl EXCEPT ![s].pc = pc, ![s].found = F]
  BY <1>0, <1>3 DEF DeployLoopOK, DeployRecord
<1>4. CASE dl' = [dl EXCEPT ![s].pc = pc, ![s].url = u]
  BY <1>0, <1>4 DEF DeployLoopOK, DeployRecord
<1> QED
  BY <1>1, <1>2, <1>3, <1>4

\* The loop goes back to polling.
LEMMA DeployIdle ==
  ASSUME DeployLoopOK, NEW s \in Servers, dl' = [dl EXCEPT ![s] = IdleDeploy]
  PROVE  DeployLoopOK'
<1>1. /\ IdleDeploy \in DeployRecord
      /\ IdleDeploy.pc = "idle" <=> IdleDeploy.d = NoDeployment
  BY DEF IdleDeploy, DeployRecord, DeployPC, NoDeployment
<1> QED
  BY <1>1 DEF DeployLoopOK

\* Each step of the deploy loop keeps its own record well formed.
LEMMA DeployLoopKeepsRecord ==
  ASSUME DeployLoopOK, NEW s \in Servers, DeployLoop(s)
  PROVE  DeployLoopOK'
<1>1. CASE PollDeployment(s)
  <2>1. PICK d \in DeploymentIds : dl' = [dl EXCEPT ![s].pc = "polled", ![s].d = d]
    BY <1>1 DEF PollDeployment
  <2>2. d # NoDeployment
    BY ConstantsAssumption
  <2> DEFINE r == [dl[s] EXCEPT !.pc = "polled", !.d = d]
  <2>3. dl \in [Servers -> DeployRecord] /\ dl[s] \in DeployRecord
    BY DEF DeployLoopOK
  <2>4. r \in DeployRecord /\ r.pc = "polled" /\ r.d = d
    BY <2>3 DEF DeployRecord, DeployPC
  <2>5. dl' = [dl EXCEPT ![s] = r]
    BY <2>1, <2>3
  <2> HIDE DEF r
  <2>6. r.pc = "idle" <=> r.d = NoDeployment
    BY <2>2, <2>4
  <2> QED
    BY <2>4, <2>5, <2>6, DeployRecordStep
<1>2. CASE \/ PollError(s) \/ TokenFailure(s) \/ PrepareFails(s) \/ Cleanup(s)
           \/ DeploySyncApply(s)
  BY <1>2, DeployIdle
     DEF PollError, TokenFailure, PrepareFails, Cleanup, DeploySyncApply, Finish
<1>3. CASE \/ Fetch(s) \/ Build(s) \/ Start(s) \/ Run(s) \/ RunFails(s)
           \/ HealthCheck(s) \/ Unhealthy(s) \/ ReportFailed(s) \/ ListPreviousFails(s)
           \/ ReportRunning(s)
  <2>1. dl[s].pc # "idle" /\ \E pc \in DeployPC \ {"idle"} : dl' = [dl EXCEPT ![s].pc = pc]
    BY <1>3 DEF Fetch, Build, Start, Run, RunFails, HealthCheck, Unhealthy, ReportFailed,
                ListPreviousFails, ReportRunning, GoTo, DeployPC
  <2> QED
    BY <2>1, DeployMove
<1>4. CASE Healthy(s)
  <2>1. dl[s].pc # "idle" /\ dl' = [dl EXCEPT ![s].pc = "list", ![s].url = TRUE]
    BY <1>4 DEF Healthy
  <2> QED
    BY <2>1, DeployMove DEF DeployPC
<1>5. CASE ListRoutes(s) \/ ApplyRoutes(s) \/ RoutingFails(s) \/ ListPrevious(s)
  <2>1. /\ dl[s].pc # "idle"
        /\ \E pc \in DeployPC \ {"idle"}, F \in SUBSET DeploymentIds :
               dl' = [dl EXCEPT ![s].pc = pc, ![s].found = F]
    BY <1>5, ListingTypes DEF ListRoutes, ApplyRoutes, RoutingFails, ListPrevious, DeployPC
  <2> QED
    BY <2>1, DeployMove
<1>6. CASE RemovePrevious(s)
  <2>1. PICK e \in dl[s].found :
            \/ dl' = [dl EXCEPT ![s].found = @ \ {e}]
            \/ dl' = [dl EXCEPT ![s].pc = "running", ![s].found = {}]
    BY <1>6 DEF RemovePrevious
  <2>2. dl[s].pc # "idle" /\ dl[s].found \ {e} \in SUBSET DeploymentIds
    BY <1>6 DEF RemovePrevious, DeployLoopOK, DeployRecord
  <2>3. "running" \in DeployPC \ {"idle"} /\ {} \in SUBSET DeploymentIds
    BY DEF DeployPC
  <2>4. CASE dl' = [dl EXCEPT ![s].found = @ \ {e}]
    BY <2>2, <2>3, <2>4, DeployMove
  <2>5. CASE dl' = [dl EXCEPT ![s].pc = "running", ![s].found = {}]
    BY <2>2, <2>3, <2>5, DeployMove
  <2> QED
    BY <2>1, <2>4, <2>5
<1>7. CASE DeploySyncList(s)
  <2>1. CASE Finish(s)
    BY <2>1, DeployIdle DEF Finish
  <2>2. CASE dl' = [dl EXCEPT ![s].pc = "resync", ![s].found = ListManagedRoutes(s)]
    BY <1>7, <2>2, ListingTypes, DeployMove DEF DeploySyncList, DeployPC
  <2> QED
    BY <1>7, <2>1, <2>2 DEF DeploySyncList
<1> QED
  BY <1>1, <1>2, <1>3, <1>4, <1>5, <1>6, <1>7 DEF DeployLoop

\* The same for the teardown loop.
LEMMA TeardownMove ==
  ASSUME TeardownLoopOK, NEW s \in Servers, tl[s].pc # "idle",
         NEW pc \in TeardownPC \ {"idle"}, NEW F \in SUBSET DeploymentIds,
         \/ tl' = [tl EXCEPT ![s].pc = pc]
         \/ tl' = [tl EXCEPT ![s].found = F]
         \/ tl' = [tl EXCEPT ![s].pc = pc, ![s].found = F]
  PROVE  TeardownLoopOK'
<1>0. tl[s] \in TeardownRecord /\ tl[s].t # NoJob
  BY DEF TeardownLoopOK
<1>1. CASE tl' = [tl EXCEPT ![s].pc = pc]
  BY <1>0, <1>1 DEF TeardownLoopOK, TeardownRecord
<1>2. CASE tl' = [tl EXCEPT ![s].found = F]
  BY <1>0, <1>2 DEF TeardownLoopOK, TeardownRecord
<1>3. CASE tl' = [tl EXCEPT ![s].pc = pc, ![s].found = F]
  BY <1>0, <1>3 DEF TeardownLoopOK, TeardownRecord
<1> QED
  BY <1>1, <1>2, <1>3

LEMMA TeardownIdle ==
  ASSUME TeardownLoopOK, NEW s \in Servers, tl' = [tl EXCEPT ![s] = IdleTeardown]
  PROVE  TeardownLoopOK'
<1>1. /\ IdleTeardown \in TeardownRecord
      /\ IdleTeardown.pc = "idle" <=> IdleTeardown.t = NoJob
  BY DEF IdleTeardown, TeardownRecord, TeardownPC, NoJob
<1> QED
  BY <1>1 DEF TeardownLoopOK

LEMMA TeardownLoopKeepsRecord ==
  ASSUME TeardownLoopOK, NEW s \in Servers, TeardownLoop(s)
  PROVE  TeardownLoopOK'
<1>1. CASE PollTeardownJob(s)
  <2>1. PICK t \in TeardownIds :
            tl' = [tl EXCEPT ![s].pc = "stop", ![s].t = t] \/ UNCHANGED tl
    BY <1>1 DEF PollTeardownJob
  <2>2. t # NoJob
    BY EngineAssumption
  <2>3. CASE tl' = [tl EXCEPT ![s].pc = "stop", ![s].t = t]
    BY <2>2, <2>3 DEF TeardownLoopOK, TeardownRecord, TeardownPC
  <2>4. CASE UNCHANGED tl
    BY <2>4 DEF TeardownLoopOK
  <2> QED
    BY <2>1, <2>3, <2>4
<1>2. CASE ReportStopping(s) \/ ReportRemoving(s)
  <2>1. /\ tl[s].pc # "idle"
        /\ \E pc \in TeardownPC \ {"idle"} : tl' = [tl EXCEPT ![s].pc = pc]
    BY <1>2 DEF ReportStopping, ReportRemoving, TeardownGoTo, TeardownPC
  <2> QED
    BY <2>1, TeardownMove
<1>3. CASE \/ FindByService(s) \/ TeardownList(s) \/ TeardownApply(s)
           \/ TeardownFails(s)
  <2>1. /\ tl[s].pc # "idle"
        /\ \E pc \in TeardownPC \ {"idle"}, F \in SUBSET DeploymentIds :
               tl' = [tl EXCEPT ![s].pc = pc, ![s].found = F]
    BY <1>3, ListingTypes
       DEF FindByService, TeardownList, TeardownApply, TeardownFails, TeardownPC
  <2> QED
    BY <2>1, TeardownMove
<1>4. CASE RemoveByService(s)
  <2>1. PICK e \in tl[s].found :
            \/ tl' = [tl EXCEPT ![s].found = @ \ {e}]
            \/ tl' = [tl EXCEPT ![s].pc = "fail", ![s].found = {}]
    BY <1>4 DEF RemoveByService
  <2>2. tl[s].pc # "idle" /\ tl[s].found \ {e} \in SUBSET DeploymentIds
    BY <1>4 DEF RemoveByService, TeardownLoopOK, TeardownRecord
  <2>3. "fail" \in TeardownPC \ {"idle"} /\ {} \in SUBSET DeploymentIds
    BY DEF TeardownPC
  <2>4. CASE tl' = [tl EXCEPT ![s].found = @ \ {e}]
    BY <2>2, <2>3, <2>4, TeardownMove
  <2>5. CASE tl' = [tl EXCEPT ![s].pc = "fail", ![s].found = {}]
    BY <2>2, <2>3, <2>5, TeardownMove
  <2> QED
    BY <2>1, <2>4, <2>5
<1>5. CASE ReportTeardownEnd(s)
  BY <1>5, TeardownIdle DEF ReportTeardownEnd
<1> QED
  BY <1>1, <1>2, <1>3, <1>4, <1>5 DEF TeardownLoop

\* What the loops share: the containers, Caddy, the released set and the budget.
SharedOK ==
    /\ docker \in [DeploymentIds -> ContainerState]
    /\ caddy \in [Servers -> SUBSET DeploymentIds]
    /\ released \in SUBSET DeploymentIds
    /\ faults \in 0 .. MaxFaults

\* EngineTypeOK is the conjunction of the parts.
LEMMA AgentParts ==
  AgentTypeOK <=> /\ SharedOK /\ DeployLoopOK /\ TeardownLoopOK
                  /\ sl \in [Servers -> [pc : {"idle", "apply"},
                                         found : SUBSET DeploymentIds]]
                  /\ log \in [Servers -> DeploymentIds \cup {NoDeployment}]
  BY DEF AgentTypeOK, SharedOK, DeployLoopOK, TeardownLoopOK, DeployRecord,
         TeardownRecord, Job

\* A step of the deploy loop keeps the shared state well typed.
LEMMA DeployLoopKeepsShared ==
  ASSUME EngineTypeOK, NEW s \in Servers, DeployLoop(s)
  PROVE  SharedOK'
<1>0. SharedOK
  BY AgentParts DEF EngineTypeOK
<1>1. Fault \/ NoFault
  BY ReportBudget
     DEF DeployLoop, PollDeployment, PollError, TokenFailure, Fetch, Build, Start,
            PrepareFails, Run, RunFails, HealthCheck, Healthy, Unhealthy, ListRoutes,
            ApplyRoutes, RoutingFails, ReportFailed, Cleanup, ListPrevious,
            ListPreviousFails, RemovePrevious, ReportRunning, DeploySyncList,
            DeploySyncApply, ApplySynced, Remove, RemoveError
<1>2. faults' \in 0 .. MaxFaults
  BY <1>0, <1>1, FaultBudget DEF SharedOK
<1>3. CASE Run(s) \/ RunFails(s)
  <2>1. Job(s) \in DeploymentIds
    BY <1>3, JobsInHand DEF Run, RunFails
  <2>2. docker[Job(s)] \in ContainerState
    BY <1>0, <2>1 DEF SharedOK
  <2> QED
    BY <1>0, <1>2, <1>3, <2>1, <2>2 DEF SharedOK, Run, RunFails, ContainerState
<1>4. CASE ApplyRoutes(s)
  <2>1. Job(s) \in DeploymentIds /\ dl[s].found \subseteq DeploymentIds
    BY <1>4, JobsInHand DEF ApplyRoutes, EngineTypeOK, AgentTypeOK
  <2>2. NormalizeRoutes(RoutesForDeployment(dl[s].found, Job(s))) \subseteq DeploymentIds
    BY <2>1 DEF NormalizeRoutes, RoutesForDeployment
  <2> QED
    BY <1>0, <1>2, <1>4, <2>1, <2>2 DEF SharedOK, ApplyRoutes
<1>5. CASE Cleanup(s) \/ RemovePrevious(s)
  BY <1>0, <1>2, <1>5
     DEF SharedOK, Cleanup, RemovePrevious, Remove, RemoveError, ContainerState
<1>6. CASE DeploySyncApply(s)
  <2>1. dl[s].found \subseteq DeploymentIds
    BY DEF EngineTypeOK, AgentTypeOK
  <2> QED
    BY <1>0, <1>2, <1>6, <2>1 DEF SharedOK, DeploySyncApply, ApplySynced, SyncedRoutes
<1>7. CASE UNCHANGED <<docker, caddy, released>>
  BY <1>0, <1>2, <1>7 DEF SharedOK
<1> QED
  BY <1>3, <1>4, <1>5, <1>6, <1>7
     DEF DeployLoop, PollDeployment, PollError, TokenFailure, Fetch, Build, Start,
         PrepareFails, HealthCheck, Healthy, Unhealthy, ListRoutes, RoutingFails,
         ReportFailed, ListPrevious, ListPreviousFails, ReportRunning, DeploySyncList

\* So does one of the teardown loop.
LEMMA TeardownLoopKeepsShared ==
  ASSUME EngineTypeOK, NEW s \in Servers, TeardownLoop(s)
  PROVE  SharedOK'
<1>0. SharedOK
  BY AgentParts DEF EngineTypeOK
<1>1. Fault \/ NoFault
  BY ReportBudget
     DEF TeardownLoop, PollTeardownJob, ReportStopping, FindByService, RemoveByService,
         ReportRemoving, TeardownList, TeardownApply, TeardownFails,
         ReportTeardownEnd, TeardownReport, Remove, RemoveError
<1>2. faults' \in 0 .. MaxFaults
  BY <1>0, <1>1, FaultBudget DEF SharedOK
<1>3. CASE RemoveByService(s)
  BY <1>0, <1>2, <1>3 DEF SharedOK, RemoveByService, Remove, RemoveError, ContainerState
<1>4. CASE TeardownApply(s)
  <2>1. NormalizeRoutes(tl[s].found) \subseteq DeploymentIds
    BY DEF EngineTypeOK, AgentTypeOK, NormalizeRoutes
  <2> QED
    BY <1>0, <1>2, <1>4, <2>1 DEF SharedOK, TeardownApply
<1>5. CASE UNCHANGED <<docker, caddy, released>>
  BY <1>0, <1>2, <1>5 DEF SharedOK
<1> QED
  BY <1>3, <1>4, <1>5
     DEF TeardownLoop, PollTeardownJob, ReportStopping, FindByService, ReportRemoving,
         TeardownList, TeardownFails, ReportTeardownEnd

\* EngineTypeOK is inductive: the tables by TypeStep, through the refinement, and the
\* agents' state part by part.
LEMMA EngineTypeStep ==
  ASSUME EngineTypeOK, [EngineNext]_engineVars
  PROVE  EngineTypeOK'
<1>0. TypeOK /\ AgentTypeOK
  BY DEF EngineTypeOK
<1>1. TypeOK'
  BY <1>0, StepRefines, TypeStep
<1>2. ASSUME UNCHANGED <<agentVars, faults>> PROVE AgentTypeOK'
  BY <1>0, <1>2 DEF AgentTypeOK, agentVars, Job
<1>3. ASSUME NEW s \in Servers, DeployLoop(s) PROVE AgentTypeOK'
  <2>1. UNCHANGED <<sl, tl, log>>
    BY <1>3
       DEF DeployLoop, PollDeployment, PollError, TokenFailure, Fetch, Build, Start,
              PrepareFails, Run, RunFails, HealthCheck, Healthy, Unhealthy, ListRoutes,
              ApplyRoutes, RoutingFails, ReportFailed, Cleanup, ListPrevious,
              ListPreviousFails, RemovePrevious, ReportRunning, DeploySyncList,
              DeploySyncApply
  <2>2. SharedOK' /\ DeployLoopOK'
    BY <1>0, <1>3, AgentParts, DeployLoopKeepsRecord, DeployLoopKeepsShared
  <2> QED
    BY <1>0, <2>1, <2>2, AgentParts
       DEF AgentTypeOK, SharedOK, DeployLoopOK, DeployRecord, Job
<1>4. ASSUME NEW s \in Servers, TeardownLoop(s) PROVE AgentTypeOK'
  <2>1. UNCHANGED <<dl, sl, log>>
    BY <1>4
       DEF TeardownLoop, PollTeardownJob, ReportStopping, FindByService, RemoveByService,
           ReportRemoving, TeardownList, TeardownApply, TeardownFails,
           ReportTeardownEnd
  <2>2. SharedOK' /\ TeardownLoopOK'
    BY <1>0, <1>4, AgentParts, TeardownLoopKeepsRecord, TeardownLoopKeepsShared
  <2> QED
    BY <1>0, <2>1, <2>2 DEF AgentTypeOK, SharedOK, TeardownLoopOK, TeardownRecord, Job
<1>5. ASSUME NEW s \in Servers, SyncLoop(s) PROVE AgentTypeOK'
  <2>1. CASE SyncList(s)
    BY <1>0, <2>1, ListingTypes DEF SyncList, AgentTypeOK, Job, NoFault
  <2>2. CASE SyncApply(s)
    <3>1. sl[s].found \subseteq DeploymentIds
      BY <1>0 DEF AgentTypeOK
    <3>2. caddy' \in [Servers -> SUBSET DeploymentIds]
      BY <1>0, <2>2, <3>1 DEF SyncApply, ApplySynced, SyncedRoutes, AgentTypeOK
    <3>3. faults' \in 0 .. MaxFaults
      BY <1>0, <2>2, FaultBudget DEF SyncApply, ApplySynced, AgentTypeOK
    <3>4. sl' \in [Servers -> [pc : {"idle", "apply"}, found : SUBSET DeploymentIds]]
      BY <1>0, <2>2 DEF SyncApply, IdleSync, AgentTypeOK
    <3> QED
      BY <1>0, <2>2, <3>2, <3>3, <3>4 DEF SyncApply, AgentTypeOK, Job
  <2> QED
    BY <1>5, <2>1, <2>2 DEF SyncLoop
<1>6. ASSUME NEW s \in Servers, LogLoop(s) PROVE AgentTypeOK'
  <2>1. UNCHANGED <<docker, caddy, released, dl, sl, tl>> /\ (Fault \/ NoFault)
    BY <1>6 DEF LogLoop, LogTail, LogReport
  <2>2. faults' \in 0 .. MaxFaults
    BY <1>0, <2>1, FaultBudget DEF AgentTypeOK
  <2>3. log' \in [Servers -> DeploymentIds \cup {NoDeployment}]
    <3>1. \E d \in DeploymentIds \cup {NoDeployment} : log' = [log EXCEPT ![s] = d]
      BY <1>0, <1>6, ListingTypes DEF LogLoop, LogTail, LogReport
    <3>2. log \in [Servers -> DeploymentIds \cup {NoDeployment}]
      BY <1>0 DEF AgentTypeOK
    <3> QED
      BY <3>1, <3>2
  <2> QED
    BY <1>0, <2>1, <2>2, <2>3 DEF AgentTypeOK, Job
<1>7. ASSUME NEW s \in Servers, Crash(s) PROVE AgentTypeOK'
  <2>1. DeployLoopOK' /\ TeardownLoopOK'
    BY <1>0, <1>7, AgentParts, DeployIdle, TeardownIdle DEF Crash
  <2>2. faults' \in 0 .. MaxFaults
    BY <1>0, <1>7, FaultBudget DEF Crash, AgentTypeOK
  <2>3. /\ sl' \in [Servers -> [pc : {"idle", "apply"}, found : SUBSET DeploymentIds]]
        /\ log' \in [Servers -> DeploymentIds \cup {NoDeployment}]
    BY <1>0, <1>7 DEF Crash, IdleSync, AgentTypeOK
  <2> QED
    BY <1>0, <1>7, <2>1, <2>2, <2>3
       DEF Crash, AgentTypeOK, DeployLoopOK, TeardownLoopOK, DeployRecord, TeardownRecord, Job
<1>8. AgentTypeOK'
  BY <1>2, <1>3, <1>4, <1>5, <1>6, <1>7 DEF EngineNext, ControlPlane, Agent, engineVars
<1> QED
  BY <1>1, <1>8 DEF EngineTypeOK

\* The initial state of the engine is well typed.
LEMMA EngineTypeInit == EngineInit => EngineTypeOK
<1> SUFFICES ASSUME EngineInit PROVE EngineTypeOK
  OBVIOUS
<1>1. TypeOK
  BY TypeInit DEF EngineInit
<1>2. AgentTypeOK
  BY ConstantsAssumption, EngineAssumption
     DEF EngineInit, AgentTypeOK, ContainerState, IdleDeploy, IdleSync, IdleTeardown, DeployPC,
         TeardownPC, Job, NoDeployment, NoJob
<1> QED
  BY <1>1, <1>2 DEF EngineTypeOK

-----------------------------------------------------------------------------
(* Theorems *)

\* The tables and the state of every agent stay well typed; in particular a loop
\* holds a job exactly while it is not idle, so that no report is sent for no job.
THEOREM EngineTypeCorrect == EngineSpec => []EngineTypeOK
<1>1. EngineTypeOK /\ [EngineNext]_engineVars => EngineTypeOK'
  BY EngineTypeStep
<1> QED
  BY <1>1, EngineTypeInit, PTL DEF EngineSpec

\* The engine implements the control plane of module Deployments: whatever the agents
\* do, lose, repeat or forget in a crash, the tables only ever take steps that the
\* gateway allows an arbitrary agent.
THEOREM EngineImplementsControlPlane == EngineSpec => Spec
<1>1. EngineInit => Init
  BY DEF EngineInit
<1>2. EngineTypeOK /\ [EngineNext]_engineVars => [Next]_vars
  BY StepRefines
<1> QED
  BY <1>1, <1>2, EngineTypeCorrect, PTL DEF EngineSpec, Spec

\* So what is proved of the control plane holds of the engine.
THEOREM EngineIsolated ==
  EngineSpec => [](TenantIsolation /\ KeyDiscipline /\ URLTracksProduction)
                /\ PreviewIsolation
  BY EngineImplementsControlPlane, TenantsIsolated, KeysDisciplined,
     ServiceURLTracksProduction, PreviewsIsolated, PTL

-----------------------------------------------------------------------------
(* A deployment is claimed once, in the order of the table, and the agent    *)
(* starts, switches to and removes containers accordingly.                   *)

\* Where a job stands: before its container is started, before the traffic switch,
\* and between the two.
BeforeRun == {"polled", "fetching", "building", "start"}
BeforeSwitch == BeforeRun \cup {"check", "probe", "list", "apply", "failing", "cleanup"}
Serving == {"check", "probe", "list", "apply", "replace", "remove"}

\* A container that has been stopped or removed.
Down == {"stopped", "gone"}

\* created_at tells the rows apart and is below the clock.
Dated ==
    /\ \A d \in DeploymentIds : Inserted(d) => row[d].at < clock
    /\ \A d, e \in DeploymentIds :
           Inserted(d) /\ Inserted(e) /\ row[d].at = row[e].at => d = e

\* A loop holds jobs that it claimed, and containers exist for claimed jobs only.
Claimed ==
    /\ \A s \in Servers : dl[s].pc # "idle" =>
           status[Job(s)] \notin {"none", "queued"} /\ row[Job(s)].srv = s
    /\ \A d \in DeploymentIds : docker[d] # "none" => status[d] \notin {"none", "queued"}
    /\ \A s \in Servers : tl[s].pc # "idle" => Existing(tl[s].t)

\* What was claimed is older than what is queued on the same server, and the
\* containers of a server are older than the job in hand.
InOrder ==
    /\ \A d, e \in DeploymentIds :
           docker[e] # "none" /\ status[d] = "queued" /\ row[d].srv = row[e].srv =>
               row[e].at < row[d].at
    /\ \A s \in Servers, d \in DeploymentIds :
           dl[s].pc # "idle" /\ status[d] = "queued" /\ row[d].srv = s =>
               row[Job(s)].at < row[d].at
    /\ \A s \in Servers, e \in DeploymentIds :
           dl[s].pc # "idle" /\ docker[e] # "none" /\ row[e].srv = s /\ e # Job(s) =>
               row[e].at < row[Job(s)].at

\* Where the job in hand stands: not started before Run, not released before the
\* traffic switch, up from then on unless a teardown takes the preview away.
InHand ==
    \A s \in Servers :
        /\ dl[s].pc \in BeforeRun => docker[Job(s)] = "none"
        /\ dl[s].pc \in BeforeSwitch => Job(s) \notin released
        /\ dl[s].pc \in {"replace", "remove"} => Job(s) \in released
        /\ dl[s].pc \in Serving => \/ docker[Job(s)] = "up"
                                   \/ docker[Job(s)] \in Down /\ IsPreview(Job(s))

\* What the loops are about to remove: containers of the job's key on its server.
Listed ==
    \A s \in Servers :
        /\ dl[s].pc = "remove" => \A e \in dl[s].found :
               /\ e # Job(s) /\ docker[e] # "none"
               /\ row[e].srv = s /\ row[e].key = row[Job(s)].key
        /\ tl[s].pc = "remove" => \A e \in tl[s].found :
               /\ docker[e] # "none"
               /\ row[e].srv = s /\ row[e].key = trow[tl[s].t].key

ReleasedRan == \A d \in released : docker[d] # "none"

EngineInv ==
    /\ EngineTypeOK /\ Isolation /\ Dated /\ Claimed /\ InOrder
    /\ InHand /\ Listed /\ ReleasedRan

-----------------------------------------------------------------------------
(* What a step may do to the rows, the loops and the containers.  The        *)
(* invariants need only this, and none of the actions.                       *)

\* Rows are inserted one at a time with the clock's value, and only an insert makes
\* one queued.
Recorded ==
    /\ clock' \in Nat /\ clock <= clock'
    /\ \A d \in DeploymentIds :
           status[d] \notin {"none", "queued"} => status'[d] \notin {"none", "queued"}
    /\ \A d \in DeploymentIds : ~Inserted(d) /\ Inserted(d)' =>
           row'[d].at = clock /\ clock' = clock + 1
    /\ \A d, e \in DeploymentIds :
           ~Inserted(d) /\ Inserted(d)' /\ ~Inserted(e) /\ Inserted(e)' => d = e

LEMMA InsertRecorded ==
  ASSUME TypeOK, NEW d \in DeploymentIds, NEW svc, NEW srv, NEW kind, NEW key, NEW from,
         InsertDeployment(d, svc, srv, kind, key, from)
  PROVE  Recorded
<1>1. clock \in Nat /\ clock' = clock + 1
  BY DEF TypeOK, InsertDeployment
<1>2. \A e \in DeploymentIds : status'[e] = IF e = d THEN "queued" ELSE status[e]
  BY DEF TypeOK, InsertDeployment
<1>3. row'[d].at = clock /\ status[d] = "none"
  BY DEF TypeOK, InsertDeployment, Inserted
<1> QED
  BY <1>1, <1>2, <1>3 DEF Recorded, Inserted

LEMMA RowsRecorded ==
  ASSUME TypeOK, [Next]_vars
  PROVE  Recorded
<1>0. clock \in Nat /\ status \in [DeploymentIds -> Status \cup {"none"}]
  BY DEF TypeOK
<1>1. ASSUME NEW d \in DeploymentIds, NEW svc, NEW srv, NEW kind, NEW key, NEW from,
             InsertDeployment(d, svc, srv, kind, key, from)
      PROVE  Recorded
  BY <1>1, InsertRecorded
<1>2. ASSUME status' = status, clock' = clock \/ clock' = clock + 1 PROVE Recorded
  BY <1>0, <1>2 DEF Recorded, Inserted
<1>3. ASSUME clock' = clock,
             \A d \in DeploymentIds : \/ status'[d] = status[d]
                                      \/ /\ status[d] # "none"
                                         /\ status'[d] \notin {"none", "queued"}
      PROVE  Recorded
  BY <1>0, <1>3 DEF Recorded, Inserted
<1>4. CASE \/ \E svc \in Services, srv \in Servers, d \in DeploymentIds :
                  CreateForService(svc, srv, d)
           \/ \E svc \in Services, srv \in Servers, ref \in Refs, d \in DeploymentIds :
                  CreatePreview(svc, srv, ref, d)
           \/ \E svc \in Services, pr \in PullRequests, d \in DeploymentIds :
                  CreatePreviewForPR(svc, pr, d)
           \/ \E target, d \in DeploymentIds : RollbackToDeployment(target, d)
  BY <1>1, <1>4, Zenon DEF CreateForService, BuildAndInsert, CreatePreview, CreatePreviewForPR,
                    RollbackToDeployment, InsertProduction, InsertPreview
<1>5. CASE \/ \E d \in DeploymentIds, t \in TeardownIds : TeardownPreview(d, t)
           \/ \E svc \in Services, pr \in PullRequests, t \in TeardownIds :
                  TeardownPreviewForPR(svc, pr, t)
           \/ \E d \in DeploymentIds, t \in TeardownIds : SweepEnqueue(d, t)
  <2>1. PICK t \in TeardownIds, d \in DeploymentIds : InsertTeardownJob(t, d)
    BY <1>5, Zenon DEF TeardownPreview, TeardownPreviewForPR, SweepEnqueue
  <2>2. status' = status /\ clock' = clock + 1
    BY <2>1 DEF InsertTeardownJob, depVars
  <2> QED
    BY <1>2, <2>2
<1>6. CASE SweepStart \/ \E d \in DeploymentIds : SweepSkip(d)
  BY <1>2, <1>6 DEF SweepStart, SweepSkip, depVars
<1>7. CASE \E srv \in Servers, d \in DeploymentIds : ClaimNextDeployment(srv, d)
  BY <1>0, <1>3, <1>7 DEF ClaimNextDeployment, Queued
<1>8. CASE \E d \in DeploymentIds : FailDeployment(d)
  BY <1>0, <1>3, <1>8 DEF FailDeployment, UpdateDeploymentStatus
<1>9. ASSUME NEW srv \in Servers, NEW d \in DeploymentIds, NEW s \in AgentStatus,
             NEW p \in BOOLEAN, NEW u \in BOOLEAN, ReportDeployment(srv, d, s, p, u)
      PROVE  Recorded
  <2>1. s \notin {"none", "queued"} /\ status[d] # "none" /\ clock' = clock
    BY <1>9 DEF AgentStatus, ReportDeployment, Inserted
  <2>2. \A e \in DeploymentIds : status'[e] \in {status[e], s, "superseded"}
    BY <1>0, <1>9 DEF ReportDeployment, UpdateDeploymentStatus
  <2>3. \A e \in DeploymentIds : status[e] = "none" => status'[e] = status[e]
    BY <1>0, <1>9, <2>1 DEF ReportDeployment, UpdateDeploymentStatus, Supersedes
  <2> QED
    BY <1>3, <2>1, <2>2, <2>3
<1>10. CASE \E srv \in Servers, t \in TeardownIds : ClaimNextTeardown(srv, t)
  BY <1>2, <1>10 DEF ClaimNextTeardown, depVars
<1>11. ASSUME NEW srv \in Servers, NEW t \in TeardownIds, NEW s \in AgentTeardownStatus,
              ReportTeardownJob(srv, t, s)
       PROVE  Recorded
  BY <1>3, <1>11 DEF ReportTeardownJob, TornDownBy, Inserted
<1>12. CASE UNCHANGED vars
  BY <1>2, <1>12 DEF vars
<1> QED
  BY <1>4, <1>5, <1>6, <1>7, <1>8, <1>9, <1>10, <1>11, <1>12
     DEF Next, Request, Sweep, Gateway

\* A step of the deploy loop, as far as the containers, the released set and the
\* loop's own record go.
SameContainers == docker' = docker /\ released' = released
SetContainer(d, c) == docker' = [docker EXCEPT ![d] = c]
TakeDown(d) == Present(d) /\ \E c \in Down : SetContainer(d, c)

DeployMoved(s) ==
    \/ \* the claim
       /\ dl[s].pc = "idle" /\ dl'[s].pc = "polled" /\ dl'[s].d \in DeploymentIds
       /\ ClaimNextDeployment(s, dl'[s].d) /\ SameContainers
    \/ \* the end, or the cleanup of a failed deploy
       dl'[s].pc = "idle" /\ SameContainers
    \/ /\ dl[s].pc = "cleanup" /\ dl'[s].pc = "idle" /\ released' = released
       /\ TakeDown(Job(s))
    \/ /\ dl[s].pc # "idle" /\ dl'[s].d = dl[s].d
       /\ \/ \* nothing but the program counter and the listing
             /\ SameContainers
             /\ \/ dl[s].pc \in BeforeRun /\ dl'[s].pc \in BeforeRun
                \/ dl[s].pc \in {"check", "probe", "list"} /\ dl'[s].pc \in {"probe", "list", "apply"}
                \/ dl[s].pc \in BeforeSwitch /\ dl'[s].pc \in {"failing", "cleanup"}
                \/ /\ dl[s].pc = "replace" /\ dl'[s].pc = "remove"
                   /\ dl'[s].found = Labelled(s, row[Job(s)].key) \ {Job(s)}
                \/ dl'[s].pc \in {"running", "sync", "resync"}
          \/ \* run, complete or not
             /\ dl[s].pc = "start"
             /\ \/ /\ dl'[s].pc = "failing" /\ released' = released
                   /\ \E c \in {"none", "stopped", "up"} : SetContainer(Job(s), c)
                \/ /\ SetContainer(Job(s), "up")
                   /\ \/ dl'[s].pc = "check" /\ released' = released
                      \/ dl'[s].pc = "replace" /\ released' = released \cup {Job(s)}
          \/ \* the traffic switch
             /\ dl[s].pc = "apply" /\ dl'[s].pc = "replace"
             /\ docker' = docker /\ released' = released \cup {Job(s)}
          \/ \* the removal of a previous container
             /\ dl[s].pc = "remove" /\ released' = released
             /\ \/ dl'[s].pc = "remove" /\ dl'[s].found \subseteq dl[s].found
                \/ dl'[s].pc = "running"
             /\ \E e \in dl[s].found : TakeDown(e)

\* The fields of a loop's record after a move.
LEMMA DeployFields ==
  ASSUME EngineTypeOK, NEW s \in Servers, NEW pc, NEW d, NEW F, NEW u
  PROVE  /\ dl' = [dl EXCEPT ![s].pc = pc] =>
               dl'[s].pc = pc /\ dl'[s].d = dl[s].d /\ dl'[s].found = dl[s].found
         /\ dl' = [dl EXCEPT ![s].pc = pc, ![s].d = d] => dl'[s].pc = pc /\ dl'[s].d = d
         /\ dl' = [dl EXCEPT ![s].pc = pc, ![s].found = F] =>
               dl'[s].pc = pc /\ dl'[s].d = dl[s].d /\ dl'[s].found = F
         /\ dl' = [dl EXCEPT ![s].pc = pc, ![s].url = u] => dl'[s].pc = pc /\ dl'[s].d = dl[s].d
         /\ dl' = [dl EXCEPT ![s].found = F] =>
               dl'[s].pc = dl[s].pc /\ dl'[s].d = dl[s].d /\ dl'[s].found = F
         /\ dl' = [dl EXCEPT ![s] = IdleDeploy] => dl'[s].pc = "idle"
<1>1. dl \in [Servers -> [pc : DeployPC, d : DeploymentIds \cup {NoDeployment},
                          found : SUBSET DeploymentIds, url : BOOLEAN]]
  BY DEF EngineTypeOK, AgentTypeOK
<1>2. dl' = [dl EXCEPT ![s].pc = pc] =>
          dl'[s].pc = pc /\ dl'[s].d = dl[s].d /\ dl'[s].found = dl[s].found
  BY <1>1
<1>3. dl' = [dl EXCEPT ![s].pc = pc, ![s].d = d] => dl'[s].pc = pc /\ dl'[s].d = d
  BY <1>1
<1>4. dl' = [dl EXCEPT ![s].pc = pc, ![s].found = F] =>
          dl'[s].pc = pc /\ dl'[s].d = dl[s].d /\ dl'[s].found = F
  BY <1>1
<1>5. dl' = [dl EXCEPT ![s].pc = pc, ![s].url = u] => dl'[s].pc = pc /\ dl'[s].d = dl[s].d
  BY <1>1
<1>6. dl' = [dl EXCEPT ![s].found = F] =>
          dl'[s].pc = dl[s].pc /\ dl'[s].d = dl[s].d /\ dl'[s].found = F
  BY <1>1
<1>7. dl' = [dl EXCEPT ![s] = IdleDeploy] => dl'[s].pc = "idle"
  BY <1>1 DEF IdleDeploy
<1> QED
  BY <1>2, <1>3, <1>4, <1>5, <1>6, <1>7

\* A removal takes the container down; one that fails may still have stopped it.
LEMMA RemovesOrNot ==
  ASSUME EngineTypeOK, NEW d
  PROVE  /\ Remove(d) => TakeDown(d)
         /\ RemoveError(d) => docker' = docker \/ TakeDown(d)
<1>1. docker \in [DeploymentIds -> ContainerState]
  BY DEF EngineTypeOK, AgentTypeOK
<1>2. Remove(d) => TakeDown(d)
  BY DEF Remove, TakeDown, SetContainer, Down
<1>3. docker' = [docker EXCEPT ![d] = docker[d]] => docker' = docker
  BY <1>1
<1>4. RemoveError(d) => docker' = docker \/ TakeDown(d)
  BY <1>3 DEF RemoveError, TakeDown, SetContainer, Down
<1> QED
  BY <1>2, <1>4

\* Every action of the deploy loop is such a step.
LEMMA DeployLoopMoves ==
  ASSUME EngineTypeOK, InHand, NEW s \in Servers, DeployLoop(s)
  PROVE  DeployMoved(s)
<1>1. ASSUME SameContainers, Finish(s) PROVE DeployMoved(s)
  BY <1>1, DeployFields DEF Finish, DeployMoved
<1>2. CASE PollDeployment(s)
  <2>1. PICK d \in DeploymentIds : /\ ClaimNextDeployment(s, d)
                                   /\ dl' = [dl EXCEPT ![s].pc = "polled", ![s].d = d]
    BY <1>2 DEF PollDeployment
  <2>2. dl[s].pc = "idle" /\ SameContainers
    BY <1>2 DEF PollDeployment, SameContainers
  <2>3. dl'[s].pc = "polled" /\ dl'[s].d = d
    BY <2>1, DeployFields
  <2> QED
    BY <2>1, <2>2, <2>3 DEF DeployMoved
<1>3. CASE PollError(s) \/ TokenFailure(s) \/ PrepareFails(s) \/ DeploySyncApply(s)
  BY <1>1, <1>3 DEF PollError, TokenFailure, PrepareFails, DeploySyncApply, SameContainers
<1>4. ASSUME NEW pc, GoTo(s, pc) PROVE dl'[s].pc = pc /\ dl'[s].d = dl[s].d
  BY <1>4, DeployFields DEF GoTo
<1>5. CASE Fetch(s) \/ Build(s) \/ Start(s)
  <2>1. /\ SameContainers /\ dl[s].pc \in BeforeRun
        /\ \E pc \in BeforeRun : GoTo(s, pc)
    BY <1>5 DEF Fetch, Build, Start, BeforeRun, SameContainers
  <2>2. dl[s].pc # "idle"
    BY <2>1 DEF BeforeRun
  <2> QED
    BY <1>4, <2>1, <2>2 DEF DeployMoved
<1>6. CASE HealthCheck(s)
  <2>1. SameContainers /\ dl[s].pc = "check" /\ GoTo(s, "probe")
    BY <1>6 DEF HealthCheck, SameContainers
  <2> QED
    BY <1>4, <2>1 DEF DeployMoved
<1>7. CASE Healthy(s)
  <2>1. SameContainers /\ dl[s].pc = "probe" /\ dl' = [dl EXCEPT ![s].pc = "list", ![s].url = TRUE]
    BY <1>7 DEF Healthy, SameContainers
  <2>2. dl'[s].pc = "list" /\ dl'[s].d = dl[s].d
    BY <2>1, DeployFields
  <2> QED
    BY <2>1, <2>2 DEF DeployMoved
<1>8. CASE Unhealthy(s) \/ ReportFailed(s)
  <2>1. SameContainers /\ dl[s].pc \in {"probe", "failing"} /\ GoTo(s, "cleanup")
    BY <1>8 DEF Unhealthy, ReportFailed, SameContainers
  <2> QED
    BY <1>4, <2>1 DEF DeployMoved, BeforeSwitch
<1>9. CASE ListRoutes(s)
  <2>1. /\ SameContainers /\ dl[s].pc = "list"
        /\ dl' = [dl EXCEPT ![s].pc = "apply", ![s].found = ListManagedRoutes(s)]
    BY <1>9 DEF ListRoutes, SameContainers
  <2>2. dl'[s].pc = "apply" /\ dl'[s].d = dl[s].d
    BY <2>1, DeployFields
  <2> QED
    BY <2>1, <2>2 DEF DeployMoved
<1>10. CASE RoutingFails(s)
  <2>1. /\ SameContainers /\ dl[s].pc \in {"list", "apply"}
        /\ dl' = [dl EXCEPT ![s].pc = "failing", ![s].found = {}]
    BY <1>10 DEF RoutingFails, SameContainers
  <2>2. dl'[s].pc = "failing" /\ dl'[s].d = dl[s].d
    BY <2>1, DeployFields
  <2> QED
    BY <2>1, <2>2 DEF DeployMoved, BeforeSwitch
<1>11. CASE ListPrevious(s)
  <2>1. /\ SameContainers /\ dl[s].pc = "replace"
        /\ dl' = [dl EXCEPT ![s].pc = "remove",
                            ![s].found = Labelled(s, row[Job(s)].key) \ {Job(s)}]
    BY <1>11 DEF ListPrevious, SameContainers
  <2>2. /\ dl'[s].pc = "remove" /\ dl'[s].d = dl[s].d
        /\ dl'[s].found = Labelled(s, row[Job(s)].key) \ {Job(s)}
    BY <2>1, DeployFields
  <2> QED
    BY <2>1, <2>2 DEF DeployMoved
<1>12. CASE ListPreviousFails(s) \/ ReportRunning(s)
  <2>1. /\ SameContainers /\ dl[s].pc # "idle"
        /\ \E pc \in {"running", "sync"} : GoTo(s, pc)
    BY <1>12 DEF ListPreviousFails, ReportRunning, SameContainers
  <2> QED
    BY <1>4, <2>1 DEF DeployMoved
<1>13. CASE DeploySyncList(s)
  <2>1. SameContainers /\ dl[s].pc = "sync"
    BY <1>13 DEF DeploySyncList, SameContainers
  <2>2. CASE dl' = [dl EXCEPT ![s].pc = "resync", ![s].found = ListManagedRoutes(s)]
    <3>1. dl'[s].pc = "resync" /\ dl'[s].d = dl[s].d
      BY <2>2, DeployFields
    <3> QED
      BY <2>1, <3>1 DEF DeployMoved
  <2> QED
    BY <1>1, <1>13, <2>1, <2>2 DEF DeploySyncList
<1>14. CASE Run(s)
  <2>1. /\ dl[s].pc = "start" /\ SetContainer(Job(s), "up")
        /\ \/ GoTo(s, "check") /\ released' = released
           \/ GoTo(s, "replace") /\ released' = released \cup {Job(s)}
    BY <1>14 DEF Run, SetContainer
  <2> QED
    BY <1>4, <2>1 DEF DeployMoved
<1>15. CASE RunFails(s)
  <2>1. dl[s].pc = "start" /\ GoTo(s, "failing") /\ released' = released
    BY <1>15 DEF RunFails
  <2>2. docker[Job(s)] = "none"
    BY <2>1 DEF InHand, BeforeRun
  <2>3. \E c \in {"none", "stopped", "up"} : SetContainer(Job(s), c)
    BY <1>15, <2>2 DEF RunFails, SetContainer
  <2> QED
    BY <1>4, <2>1, <2>3 DEF DeployMoved
<1>16. CASE ApplyRoutes(s)
  <2>1. /\ dl[s].pc = "apply" /\ docker' = docker /\ released' = released \cup {Job(s)}
        /\ dl' = [dl EXCEPT ![s].pc = "replace", ![s].found = {}]
    BY <1>16 DEF ApplyRoutes
  <2>2. dl'[s].pc = "replace" /\ dl'[s].d = dl[s].d
    BY <2>1, DeployFields
  <2> QED
    BY <2>1, <2>2 DEF DeployMoved
<1>17. CASE Cleanup(s)
  <2>1. dl[s].pc = "cleanup" /\ Finish(s) /\ released' = released
    BY <1>17 DEF Cleanup
  <2>2. docker' = docker \/ TakeDown(Job(s))
    BY <1>17, RemovesOrNot DEF Cleanup
  <2> QED
    BY <2>1, <2>2, DeployFields DEF DeployMoved, Finish, SameContainers
<1>18. CASE RemovePrevious(s)
  <2>1. dl[s].pc = "remove" /\ released' = released
    BY <1>18 DEF RemovePrevious
  <2>2. PICK e \in dl[s].found :
             \/ Remove(e) /\ dl' = [dl EXCEPT ![s].found = @ \ {e}]
             \/ RemoveError(e) /\ dl' = [dl EXCEPT ![s].pc = "running", ![s].found = {}]
    BY <1>18 DEF RemovePrevious
  <2>3. CASE Remove(e) /\ dl' = [dl EXCEPT ![s].found = @ \ {e}]
    <3>1. TakeDown(e)
      BY <2>3, RemovesOrNot
    <3>2. /\ dl'[s].pc = dl[s].pc /\ dl'[s].d = dl[s].d
          /\ dl'[s].found = dl[s].found \ {e}
      BY <2>3, DeployFields
    <3> QED
      BY <2>1, <3>1, <3>2 DEF DeployMoved
  <2>4. CASE RemoveError(e) /\ dl' = [dl EXCEPT ![s].pc = "running", ![s].found = {}]
    <3>1. dl'[s].pc = "running" /\ dl'[s].d = dl[s].d
      BY <2>4, DeployFields
    <3>2. docker' = docker \/ TakeDown(e)
      BY <2>4, RemovesOrNot
    <3> QED
      BY <2>1, <3>1, <3>2 DEF DeployMoved, SameContainers
  <2> QED
    BY <2>2, <2>3, <2>4
<1> QED
  BY <1>2, <1>3, <1>5, <1>6, <1>7, <1>8, <1>9, <1>10, <1>11, <1>12, <1>13, <1>14, <1>15,
     <1>16, <1>17, <1>18 DEF DeployLoop

\* A step of the teardown loop, as far as containers and its own record go.
TeardownMoved(s) ==
    /\ released' = released
    /\ \/ \* the claim, the end, or a move that removes nothing
          /\ docker' = docker
          /\ \/ tl'[s] = tl[s] \/ tl'[s].pc = "idle"
             \/ /\ tl[s].pc = "idle" /\ tl'[s].pc = "stop"
                /\ tl'[s].t \in TeardownIds /\ Existing(tl'[s].t)
             \/ /\ tl[s].pc # "idle" /\ tl'[s].t = tl[s].t
                /\ \/ tl'[s].pc \notin {"idle", "remove"}
                   \/ tl'[s].pc = "remove" /\ tl'[s].found = Labelled(s, trow[tl[s].t].key)
       \/ \* the removal of a container
          /\ tl[s].pc = "remove" /\ tl'[s].t = tl[s].t
          /\ \/ tl'[s].pc = "remove" /\ tl'[s].found \subseteq tl[s].found
             \/ tl'[s].pc = "fail"
          /\ \E e \in tl[s].found : TakeDown(e)

LEMMA TeardownFields ==
  ASSUME EngineTypeOK, NEW s \in Servers, NEW pc, NEW t, NEW F
  PROVE  /\ tl' = [tl EXCEPT ![s].pc = pc] => tl'[s].pc = pc /\ tl'[s].t = tl[s].t
         /\ tl' = [tl EXCEPT ![s].pc = pc, ![s].t = t] => tl'[s].pc = pc /\ tl'[s].t = t
         /\ tl' = [tl EXCEPT ![s].pc = pc, ![s].found = F] =>
               tl'[s].pc = pc /\ tl'[s].t = tl[s].t /\ tl'[s].found = F
         /\ tl' = [tl EXCEPT ![s].found = F] =>
               tl'[s].pc = tl[s].pc /\ tl'[s].t = tl[s].t /\ tl'[s].found = F
         /\ tl' = [tl EXCEPT ![s] = IdleTeardown] => tl'[s].pc = "idle"
<1>1. tl \in [Servers -> [pc : TeardownPC, t : TeardownIds \cup {NoJob},
                          found : SUBSET DeploymentIds]]
  BY DEF EngineTypeOK, AgentTypeOK
<1>2. tl' = [tl EXCEPT ![s].pc = pc] => tl'[s].pc = pc /\ tl'[s].t = tl[s].t
  BY <1>1
<1>3. tl' = [tl EXCEPT ![s].pc = pc, ![s].t = t] => tl'[s].pc = pc /\ tl'[s].t = t
  BY <1>1
<1>4. tl' = [tl EXCEPT ![s].pc = pc, ![s].found = F] =>
          tl'[s].pc = pc /\ tl'[s].t = tl[s].t /\ tl'[s].found = F
  BY <1>1
<1>5. tl' = [tl EXCEPT ![s].found = F] =>
          tl'[s].pc = tl[s].pc /\ tl'[s].t = tl[s].t /\ tl'[s].found = F
  BY <1>1
<1>6. tl' = [tl EXCEPT ![s] = IdleTeardown] => tl'[s].pc = "idle"
  BY <1>1 DEF IdleTeardown
<1> QED
  BY <1>2, <1>3, <1>4, <1>5, <1>6

\* Every action of the teardown loop is such a step.
LEMMA TeardownLoopMoves ==
  ASSUME EngineTypeOK, NEW s \in Servers, TeardownLoop(s)
  PROVE  TeardownMoved(s)
<1>1. CASE PollTeardownJob(s)
  <2>1. PICK t \in TeardownIds :
             /\ ClaimNextTeardown(s, t)
             /\ tl' = [tl EXCEPT ![s].pc = "stop", ![s].t = t] \/ UNCHANGED tl
    BY <1>1 DEF PollTeardownJob
  <2>2. Existing(t)
    BY <2>1 DEF ClaimNextTeardown, QueuedTeardowns, Existing
  <2>3. docker' = docker /\ released' = released /\ tl[s].pc = "idle"
    BY <1>1 DEF PollTeardownJob
  <2>4. CASE tl' = [tl EXCEPT ![s].pc = "stop", ![s].t = t]
    <3>1. tl'[s].pc = "stop" /\ tl'[s].t = t
      BY <2>4, TeardownFields
    <3> QED
      BY <2>2, <2>3, <3>1 DEF TeardownMoved
  <2> QED
    BY <2>1, <2>3, <2>4 DEF TeardownMoved
<1>2. CASE ReportStopping(s) \/ ReportRemoving(s)
  <2>1. PICK pc \in {"find", "list"} :
            /\ docker' = docker /\ released' = released /\ tl[s].pc # "idle"
            /\ tl' = [tl EXCEPT ![s].pc = pc]
    BY <1>2 DEF ReportStopping, ReportRemoving, TeardownGoTo
  <2>2. tl'[s].t = tl[s].t /\ tl'[s].pc = pc
    BY <2>1, TeardownFields
  <2> QED
    BY <2>1, <2>2 DEF TeardownMoved
<1>3. CASE FindByService(s)
  <2>1. /\ docker' = docker /\ released' = released /\ tl[s].pc # "idle"
        /\ tl' = [tl EXCEPT ![s].pc = "remove", ![s].found = Labelled(s, trow[tl[s].t].key)]
    BY <1>3 DEF FindByService
  <2>2. /\ tl'[s].t = tl[s].t /\ tl'[s].pc = "remove"
        /\ tl'[s].found = Labelled(s, trow[tl[s].t].key)
    BY <2>1 DEF EngineTypeOK, AgentTypeOK
  <2> QED
    BY <2>1, <2>2 DEF TeardownMoved
<1>4. CASE TeardownList(s) \/ TeardownApply(s) \/ TeardownFails(s)
  <2>1. PICK pc \in {"apply", "succeed", "fail"}, F \in SUBSET DeploymentIds :
            /\ docker' = docker /\ released' = released /\ tl[s].pc # "idle"
            /\ tl' = [tl EXCEPT ![s].pc = pc, ![s].found = F]
    BY <1>4, ListingTypes DEF TeardownList, TeardownApply, TeardownFails
  <2>2. tl'[s].t = tl[s].t /\ tl'[s].pc = pc
    BY <2>1, TeardownFields
  <2> QED
    BY <2>1, <2>2 DEF TeardownMoved
<1>5. CASE RemoveByService(s)
  <2>1. tl[s].pc = "remove" /\ released' = released
    BY <1>5 DEF RemoveByService
  <2>2. PICK e \in tl[s].found :
             \/ Remove(e) /\ tl' = [tl EXCEPT ![s].found = @ \ {e}]
             \/ RemoveError(e) /\ tl' = [tl EXCEPT ![s].pc = "fail", ![s].found = {}]
    BY <1>5 DEF RemoveByService
  <2>3. CASE Remove(e) /\ tl' = [tl EXCEPT ![s].found = @ \ {e}]
    <3>1. TakeDown(e)
      BY <2>3, RemovesOrNot
    <3>2. tl'[s].pc = tl[s].pc /\ tl'[s].t = tl[s].t /\ tl'[s].found = tl[s].found \ {e}
      BY <2>3, TeardownFields
    <3> QED
      BY <2>1, <3>1, <3>2 DEF TeardownMoved
  <2>4. CASE RemoveError(e) /\ tl' = [tl EXCEPT ![s].pc = "fail", ![s].found = {}]
    <3>1. tl'[s].pc = "fail" /\ tl'[s].t = tl[s].t
      BY <2>4, TeardownFields
    <3>2. docker' = docker \/ TakeDown(e)
      BY <2>4, RemovesOrNot
    <3> QED
      BY <2>1, <3>1, <3>2 DEF TeardownMoved
  <2> QED
    BY <2>2, <2>3, <2>4
<1>6. CASE ReportTeardownEnd(s)
  <2>1. /\ docker' = docker /\ released' = released
        /\ tl' = [tl EXCEPT ![s] = IdleTeardown]
    BY <1>6 DEF ReportTeardownEnd
  <2>2. tl'[s].pc = "idle"
    BY <2>1, TeardownFields
  <2> QED
    BY <2>1, <2>2 DEF TeardownMoved
<1> QED
  BY <1>1, <1>2, <1>3, <1>4, <1>5, <1>6 DEF TeardownLoop

\* The loops of the other servers stay where they are.
LEMMA DeployElsewhere ==
  ASSUME EngineTypeOK, NEW s \in Servers, DeployLoop(s), NEW r \in Servers, r # s
  PROVE  dl'[r] = dl[r]
<1>0. dl \in [Servers -> [pc : DeployPC, d : DeploymentIds \cup {NoDeployment},
                          found : SUBSET DeploymentIds, url : BOOLEAN]]
  BY DEF EngineTypeOK, AgentTypeOK
<1>1. CASE Finish(s)
  BY <1>0, <1>1 DEF Finish
<1>2. ASSUME NEW pc, GoTo(s, pc) PROVE dl'[r] = dl[r]
  BY <1>0, <1>2 DEF GoTo
<1>3. CASE \/ PollError(s) \/ TokenFailure(s) \/ PrepareFails(s) \/ Cleanup(s)
           \/ DeploySyncApply(s)
  BY <1>1, <1>3, Zenon DEF PollError, TokenFailure, PrepareFails, Cleanup, DeploySyncApply
<1>4. CASE \/ Fetch(s) \/ Build(s) \/ Start(s) \/ Run(s) \/ RunFails(s) \/ HealthCheck(s)
           \/ Unhealthy(s) \/ ReportFailed(s) \/ ListPreviousFails(s) \/ ReportRunning(s)
  BY <1>2, <1>4, Zenon DEF Fetch, Build, Start, Run, RunFails, HealthCheck, Unhealthy,
                           ReportFailed, ListPreviousFails, ReportRunning
<1>5. CASE PollDeployment(s) \/ Healthy(s) \/ ListRoutes(s) \/ ApplyRoutes(s)
  BY <1>0, <1>5 DEF PollDeployment, Healthy, ListRoutes, ApplyRoutes
<1>6. CASE RoutingFails(s) \/ ListPrevious(s) \/ RemovePrevious(s)
  BY <1>0, <1>6 DEF RoutingFails, ListPrevious, RemovePrevious
<1>7. CASE DeploySyncList(s)
  BY <1>0, <1>1, <1>7 DEF DeploySyncList
<1> QED
  BY <1>3, <1>4, <1>5, <1>6, <1>7 DEF DeployLoop

LEMMA TeardownElsewhere ==
  ASSUME EngineTypeOK, NEW s \in Servers, TeardownLoop(s), NEW r \in Servers, r # s
  PROVE  tl'[r] = tl[r]
<1>0. tl \in [Servers -> [pc : TeardownPC, t : TeardownIds \cup {NoJob},
                          found : SUBSET DeploymentIds]]
  BY DEF EngineTypeOK, AgentTypeOK
<1>1. CASE PollTeardownJob(s) \/ ReportStopping(s) \/ ReportRemoving(s)
  BY <1>0, <1>1 DEF PollTeardownJob, ReportStopping, ReportRemoving, TeardownGoTo
<1>2. CASE FindByService(s) \/ RemoveByService(s) \/ TeardownList(s)
  BY <1>0, <1>2 DEF FindByService, RemoveByService, TeardownList
<1>3. CASE TeardownApply(s) \/ TeardownFails(s) \/ ReportTeardownEnd(s)
  BY <1>0, <1>3 DEF TeardownApply, TeardownFails, ReportTeardownEnd
<1> QED
  BY <1>1, <1>2, <1>3 DEF TeardownLoop

\* A step of the engine moves at most one of these loops, or resets those of one agent.
LEMMA EngineMoves ==
  ASSUME EngineTypeOK, InHand, [EngineNext]_engineVars
  PROVE  \/ \E s \in Servers :
               /\ DeployMoved(s) /\ tl' = tl
               /\ \A r \in Servers : r # s => dl'[r] = dl[r]
         \/ \E s \in Servers :
               /\ TeardownMoved(s) /\ dl' = dl
               /\ \A r \in Servers : r # s => tl'[r] = tl[r]
         \/ /\ SameContainers
            /\ \A s \in Servers : dl'[s] = dl[s] \/ dl'[s].pc = "idle"
            /\ \A s \in Servers : tl'[s] = tl[s] \/ tl'[s].pc = "idle"
<1>1. ASSUME NEW s \in Servers, DeployLoop(s)
      PROVE  /\ DeployMoved(s) /\ tl' = tl
             /\ \A r \in Servers : r # s => dl'[r] = dl[r]
  <2>1. tl' = tl
    BY <1>1, Zenon
       DEF DeployLoop, PollDeployment, PollError, TokenFailure, Fetch, Build, Start,
              PrepareFails, Run, RunFails, HealthCheck, Healthy, Unhealthy, ListRoutes,
              ApplyRoutes, RoutingFails, ReportFailed, Cleanup, ListPrevious,
              ListPreviousFails, RemovePrevious, ReportRunning, DeploySyncList,
              DeploySyncApply
  <2> QED
    BY <1>1, <2>1, DeployLoopMoves, DeployElsewhere
<1>2. ASSUME NEW s \in Servers, TeardownLoop(s)
      PROVE  /\ TeardownMoved(s) /\ dl' = dl
             /\ \A r \in Servers : r # s => tl'[r] = tl[r]
  <2>1. dl' = dl
    BY <1>2, Zenon
       DEF TeardownLoop, PollTeardownJob, ReportStopping, FindByService, RemoveByService,
           ReportRemoving, TeardownList, TeardownApply, TeardownFails, ReportTeardownEnd
  <2> QED
    BY <1>2, <2>1, TeardownLoopMoves, TeardownElsewhere
<1>3. ASSUME NEW s \in Servers, SyncLoop(s) \/ LogLoop(s)
      PROVE  SameContainers /\ dl' = dl /\ tl' = tl
  BY <1>3 DEF SyncLoop, SyncList, SyncApply, LogLoop, LogTail, LogReport, SameContainers
<1>4. ASSUME NEW s \in Servers, Crash(s)
      PROVE  /\ SameContainers
             /\ \A r \in Servers : dl'[r] = dl[r] \/ dl'[r].pc = "idle"
             /\ \A r \in Servers : tl'[r] = tl[r] \/ tl'[r].pc = "idle"
  BY <1>4 DEF Crash, SameContainers, EngineTypeOK, AgentTypeOK, IdleDeploy, IdleTeardown
<1>5. ASSUME ControlPlane \/ UNCHANGED engineVars
      PROVE  SameContainers /\ dl' = dl /\ tl' = tl
  BY <1>5 DEF ControlPlane, engineVars, agentVars, SameContainers
<1> QED
  BY <1>1, <1>2, <1>3, <1>4, <1>5 DEF EngineNext, Agent

\* Why a container may be removed in this step.
Removing(d) ==
    \/ \E s \in Servers : dl[s].pc = "cleanup" /\ Job(s) = d /\ dl'[s].pc = "idle"
    \/ \E s \in Servers : dl[s].pc = "remove" /\ d \in dl[s].found
    \/ \E s \in Servers : tl[s].pc = "remove" /\ d \in tl[s].found

\* A container changes when its own deploy starts it, or when it is removed; and in
\* one step no other changes with it.
LEMMA ContainersMove ==
  ASSUME EngineTypeOK, InHand, [EngineNext]_engineVars, NEW d \in DeploymentIds
  PROVE  /\ \/ docker'[d] = docker[d]
            \/ \E s \in Servers :
                   /\ dl[s].pc = "start" /\ Job(s) = d
                   /\ dl'[s].pc \in {"failing", "check", "replace"} /\ dl'[s].d = dl[s].d
                   /\ dl'[s].pc \in {"check", "replace"} => docker'[d] = "up"
            \/ Present(d) /\ docker'[d] \in Down /\ Removing(d)
         /\ docker'[d] # docker[d] =>
                \A e \in DeploymentIds : e # d => docker'[e] = docker[e]
<1>0. docker \in [DeploymentIds -> ContainerState]
  BY DEF EngineTypeOK, AgentTypeOK
<1>1. ASSUME NEW e, NEW c, SetContainer(e, c)
      PROVE  /\ d = e => docker'[d] = c
             /\ d # e => docker'[d] = docker[d]
             /\ docker'[d] # docker[d] => \A f \in DeploymentIds : f # d => docker'[f] = docker[f]
  BY <1>0, <1>1 DEF SetContainer
<1>2. CASE docker' = docker
  BY <1>2
<1>3. ASSUME NEW s \in Servers, DeployMoved(s), docker' # docker
      PROVE  \/ /\ dl[s].pc = "start" /\ dl'[s].d = dl[s].d
                /\ \/ dl'[s].pc = "failing" /\ \E c : SetContainer(Job(s), c)
                   \/ dl'[s].pc \in {"check", "replace"} /\ SetContainer(Job(s), "up")
             \/ /\ dl[s].pc = "cleanup" /\ dl'[s].pc = "idle"
                /\ TakeDown(Job(s))
             \/ /\ dl[s].pc = "remove"
                /\ \E e \in dl[s].found : TakeDown(e)
  BY <1>3, Zenon DEF DeployMoved, SameContainers
<1>4. ASSUME NEW s \in Servers, TeardownMoved(s), docker' # docker
      PROVE  /\ tl[s].pc = "remove"
             /\ \E e \in tl[s].found : TakeDown(e)
  BY <1>4, Zenon DEF TeardownMoved
<1>5. CASE \E s \in Servers : DeployMoved(s) /\ docker' # docker
  <2>1. PICK s \in Servers : DeployMoved(s) /\ docker' # docker
    BY <1>5
  <2>2. CASE /\ dl[s].pc = "start" /\ dl'[s].d = dl[s].d
             /\ \/ dl'[s].pc = "failing" /\ \E c : SetContainer(Job(s), c)
                \/ dl'[s].pc \in {"check", "replace"} /\ SetContainer(Job(s), "up")
    BY <1>1, <2>2
  <2>3. CASE /\ dl[s].pc = "cleanup" /\ dl'[s].pc = "idle"
             /\ TakeDown(Job(s))
    BY <1>1, <2>3 DEF Removing, TakeDown
  <2>4. CASE /\ dl[s].pc = "remove"
             /\ \E e \in dl[s].found : TakeDown(e)
    BY <1>1, <2>4 DEF Removing, TakeDown
  <2> QED
    BY <1>3, <2>1, <2>2, <2>3, <2>4
<1>6. CASE \E s \in Servers : TeardownMoved(s) /\ docker' # docker
  <2>1. PICK s \in Servers : TeardownMoved(s) /\ docker' # docker
    BY <1>6
  <2>2. PICK e \in tl[s].found : TakeDown(e)
    BY <1>4, <2>1
  <2>3. tl[s].pc = "remove"
    BY <1>4, <2>1
  <2> QED
    BY <1>1, <2>2, <2>3 DEF Removing, TakeDown
<1> QED
  BY <1>2, <1>5, <1>6, EngineMoves DEF SameContainers

\* A deployment is released when its container starts or its route is applied.
LEMMA ReleasesMove ==
  ASSUME EngineTypeOK, InHand, [EngineNext]_engineVars
  PROVE  /\ released \subseteq released'
         /\ \A d \in released' \ released : \E s \in Servers :
                /\ Job(s) = d /\ dl'[s].pc = "replace"
                /\ \/ dl[s].pc = "start"
                   \/ dl[s].pc = "apply" /\ docker' = docker
<1>1. ASSUME NEW s \in Servers, DeployMoved(s)
      PROVE  \/ released' = released
             \/ /\ released' = released \cup {Job(s)} /\ dl'[s].pc = "replace"
                /\ dl[s].pc = "start" \/ (dl[s].pc = "apply" /\ docker' = docker)
  BY <1>1, Zenon DEF DeployMoved, SameContainers
<1>2. ASSUME NEW s \in Servers, TeardownMoved(s) PROVE released' = released
  BY <1>2 DEF TeardownMoved
<1> QED
  BY <1>1, <1>2, EngineMoves DEF SameContainers

\* What becomes of a deploy loop's record.
LEMMA LoopsMove ==
  ASSUME EngineTypeOK, InHand, [EngineNext]_engineVars, NEW s \in Servers, dl'[s].pc # "idle"
  PROVE  \/ dl'[s] = dl[s]
         \/ /\ dl[s].pc = "idle" /\ dl'[s].pc = "polled" /\ dl'[s].d \in DeploymentIds
            /\ ClaimNextDeployment(s, dl'[s].d) /\ SameContainers
         \/ /\ dl[s].pc # "idle" /\ dl'[s].d = dl[s].d
            /\ \/ dl[s].pc \in BeforeRun /\ dl'[s].pc \in BeforeRun
               \/ /\ dl[s].pc = "start" /\ docker'[Job(s)] = "up"
                  /\ dl'[s].pc = "check" \/ (dl'[s].pc = "replace" /\ Job(s) \in released')
               \/ /\ dl[s].pc \in {"check", "probe", "list"}
                  /\ dl'[s].pc \in {"probe", "list", "apply"}
               \/ dl[s].pc \in BeforeSwitch /\ dl'[s].pc \in {"failing", "cleanup"}
               \/ dl[s].pc = "apply" /\ dl'[s].pc = "replace" /\ Job(s) \in released'
               \/ /\ dl[s].pc = "replace" /\ dl'[s].pc = "remove"
                  /\ dl'[s].found = Labelled(s, row[Job(s)].key) \ {Job(s)}
               \/ /\ dl[s].pc = "remove" /\ dl'[s].pc = "remove"
                  /\ dl'[s].found \subseteq dl[s].found
               \/ dl'[s].pc \in {"running", "sync", "resync"}
<1>1. "start" \in BeforeSwitch
  BY DEF BeforeSwitch, BeforeRun
<1>2. dl'[s] = dl[s] \/ DeployMoved(s)
  BY EngineMoves, Zenon
<1>3. dl[s].pc # "idle" /\ SetContainer(Job(s), "up") => docker'[Job(s)] = "up"
  BY JobsInHand DEF SetContainer, EngineTypeOK, AgentTypeOK
<1>4. released' = released \cup {Job(s)} => Job(s) \in released'
  OBVIOUS
<1> QED
  BY <1>1, <1>2, <1>3, <1>4, Zenon DEF DeployMoved

\* What becomes of a teardown loop's record.
LEMMA TeardownsMove ==
  ASSUME EngineTypeOK, InHand, [EngineNext]_engineVars, NEW s \in Servers, tl'[s].pc # "idle"
  PROVE  \/ tl'[s] = tl[s]
         \/ /\ tl[s].pc = "idle" /\ tl'[s].pc = "stop"
            /\ tl'[s].t \in TeardownIds /\ tstatus[tl'[s].t] # "none"
         \/ /\ tl[s].pc # "idle" /\ tl'[s].t = tl[s].t
            /\ \/ tl'[s].pc # "remove"
               \/ tl'[s].found = Labelled(s, trow[tl[s].t].key)
               \/ tl[s].pc = "remove" /\ tl'[s].found \subseteq tl[s].found
<1>1. tl'[s] = tl[s] \/ TeardownMoved(s)
  BY EngineMoves, Zenon
<1>2. CASE tl'[s] = tl[s]
  BY <1>2
<1>3. CASE TeardownMoved(s)
  BY <1>3 DEF TeardownMoved, Existing
<1> QED
  BY <1>1, <1>2, <1>3

-----------------------------------------------------------------------------
(* The invariants, part by part *)

\* What is known of the tables before and after a step.
LEMMA TablesStep ==
  ASSUME EngineTypeOK, Isolation, [EngineNext]_engineVars
  PROVE  EngineTypeOK' /\ Isolation' /\ Kept /\ Recorded
<1>1. EngineTypeOK' /\ [Next]_vars
  BY EngineTypeStep, StepRefines
<1>2. TypeOK /\ TypeOK'
  BY <1>1 DEF EngineTypeOK
<1> QED
  BY <1>1, <1>2, IsolationStep, RowsKept, RowsRecorded

\* The clock only moves on, and dates one row at a time.
LEMMA DatedStep ==
  ASSUME EngineTypeOK, Isolation, Dated, [EngineNext]_engineVars
  PROVE  Dated'
<1>1. Kept /\ Recorded /\ clock \in Nat
  BY TablesStep DEF EngineTypeOK, TypeOK
<1>2. \A d \in DeploymentIds : Inserted(d) => row[d].at \in Nat
  BY DEF EngineTypeOK, TypeOK, Row
<1>3. ASSUME NEW d \in DeploymentIds, Inserted(d)' PROVE row'[d].at < clock'
  BY <1>1, <1>2, <1>3 DEF Kept, Recorded, Dated
<1>4. ASSUME NEW d \in DeploymentIds, NEW e \in DeploymentIds, Inserted(d)', Inserted(e)',
             row'[d].at = row'[e].at
      PROVE  d = e
  <2>1. CASE Inserted(d) /\ Inserted(e)
    BY <1>1, <1>4, <2>1 DEF Kept, Dated
  <2>2. CASE Inserted(d) /\ ~Inserted(e)
    <3>1. row'[e].at = clock /\ row'[d].at = row[d].at /\ row[d].at < clock /\ row[d].at \in Nat
      BY <1>1, <1>2, <1>4, <2>2 DEF Kept, Recorded, Dated
    <3>2. row[d].at = clock
      BY <1>4, <3>1
    <3> QED
      BY <1>1, <3>1, <3>2
  <2>3. CASE ~Inserted(d) /\ Inserted(e)
    <3>1. row'[d].at = clock /\ row'[e].at = row[e].at /\ row[e].at < clock /\ row[e].at \in Nat
      BY <1>1, <1>2, <1>4, <2>3 DEF Kept, Recorded, Dated
    <3>2. row[e].at = clock
      BY <1>4, <3>1
    <3> QED
      BY <1>1, <3>1, <3>2
  <2>4. CASE ~Inserted(d) /\ ~Inserted(e)
    BY <1>1, <1>4, <2>4 DEF Recorded
  <2> QED
    BY <2>1, <2>2, <2>3, <2>4
<1> QED
  BY <1>3, <1>4 DEF Dated

\* The claim turns the row to assigned and leaves the others alone.
LEMMA ClaimTakes ==
  ASSUME TypeOK, NEW s, NEW d \in DeploymentIds, ClaimNextDeployment(s, d)
  PROVE  /\ status[d] = "queued" /\ status'[d] = "assigned" /\ row' = row /\ row[d].srv = s
         /\ \A e \in DeploymentIds : e # d => status'[e] = status[e]
         /\ \A e \in DeploymentIds : status[e] = "queued" /\ row[e].srv = s => row[d].at <= row[e].at
  BY DEF ClaimNextDeployment, Queued, TypeOK

\* Jobs in hand and containers are of claimed rows.
LEMMA ClaimedStep ==
  ASSUME EngineTypeOK, Isolation, Claimed, InHand, [EngineNext]_engineVars
  PROVE  Claimed'
<1>1. Kept /\ Recorded /\ EngineTypeOK' /\ TypeOK
  BY TablesStep DEF EngineTypeOK
<1>2. ASSUME NEW s \in Servers, dl[s].pc # "idle"
      PROVE  /\ dl[s].d \in DeploymentIds
             /\ status'[dl[s].d] \notin {"none", "queued"} /\ row'[dl[s].d].srv = s
  <2>1. dl[s].d \in DeploymentIds
    BY <1>2, JobsInHand DEF Job
  <2>2. status[dl[s].d] \notin {"none", "queued"} /\ row[dl[s].d].srv = s
    BY <1>2 DEF Claimed, Job
  <2> QED
    BY <1>1, <2>1, <2>2 DEF Kept, Recorded, Inserted
<1>3. ASSUME NEW s \in Servers, dl'[s].pc # "idle"
      PROVE  status'[dl'[s].d] \notin {"none", "queued"} /\ row'[dl'[s].d].srv = s
  <2>1. CASE dl'[s].d = dl[s].d /\ dl[s].pc # "idle"
    BY <1>2, <2>1
  <2>2. CASE dl'[s].d \in DeploymentIds /\ ClaimNextDeployment(s, dl'[s].d)
    BY <1>1, <2>2, ClaimTakes
  <2> QED
    BY <1>3, <2>1, <2>2, LoopsMove
<1>4. ASSUME NEW d \in DeploymentIds, docker'[d] # "none"
      PROVE  status'[d] \notin {"none", "queued"}
  <2>1. CASE docker[d] # "none"
    BY <1>1, <2>1 DEF Claimed, Recorded
  <2>2. ASSUME NEW s \in Servers, dl[s].pc = "start", Job(s) = d
        PROVE  status'[d] \notin {"none", "queued"}
    BY <1>2, <2>2 DEF Job
  <2> QED
    BY <1>4, <2>1, <2>2, ContainersMove DEF Present, Down
<1>5. ASSUME NEW s \in Servers, tl'[s].pc # "idle" PROVE tstatus'[tl'[s].t] # "none"
  <2>1. tl'[s].t \in TeardownIds /\ tstatus[tl'[s].t] # "none"
    BY <1>5, TeardownsMove, JobsInHand DEF Claimed, Existing
  <2> QED
    BY <1>1, <2>1 DEF Kept, Existing
<1> QED
  BY <1>3, <1>4, <1>5 DEF Claimed, Job, Existing

\* What the order of the rows rests on: who has a container after the step, who is
\* queued then, and which job a loop holds then.
LEMMA HasRun ==
  ASSUME EngineInv, [EngineNext]_engineVars, NEW e \in DeploymentIds, docker'[e] # "none"
  PROVE  /\ status[e] \notin {"none", "queued"} /\ row'[e] = row[e]
         /\ \/ docker[e] # "none"
            \/ \E s \in Servers : /\ dl[s].pc = "start" /\ Job(s) = e /\ row[e].srv = s
                                  /\ dl'[s].pc # "idle" /\ dl'[s].d = e
<1>1. Kept /\ Claimed /\ EngineTypeOK /\ InHand
  BY TablesStep DEF EngineInv
<1>2. ASSUME docker[e] = "none"
      PROVE  \E s \in Servers : /\ dl[s].pc = "start" /\ Job(s) = e /\ row[e].srv = s
                                /\ dl'[s].pc # "idle" /\ dl'[s].d = e
  <2>1. PICK s \in Servers : /\ dl[s].pc = "start" /\ Job(s) = e
                             /\ dl'[s].pc \in {"failing", "check", "replace"}
                             /\ dl'[s].d = dl[s].d
    BY <1>1, <1>2, ContainersMove DEF Present, Down
  <2> QED
    BY <1>1, <2>1 DEF Claimed, Job
<1>3. status[e] \notin {"none", "queued"}
  BY <1>1, <1>2 DEF Claimed
<1> QED
  BY <1>1, <1>2, <1>3 DEF Kept, Inserted

LEMMA StillQueued ==
  ASSUME EngineInv, [EngineNext]_engineVars, NEW d \in DeploymentIds, status'[d] = "queued"
  PROVE  \/ status[d] = "queued" /\ row'[d] = row[d]
         \/ ~Inserted(d) /\ row'[d].at = clock
<1>1. Kept /\ Recorded
  BY TablesStep DEF EngineInv
<1>2. CASE status[d] = "queued"
  BY <1>1, <1>2 DEF Kept, Inserted
<1>3. CASE status[d] = "none"
  BY <1>1, <1>3 DEF Recorded, Inserted
<1> QED
  BY <1>1, <1>2, <1>3 DEF Recorded

LEMMA HeldJob ==
  ASSUME EngineInv, [EngineNext]_engineVars, NEW s \in Servers, dl'[s].pc # "idle"
  PROVE  /\ dl'[s].d \in DeploymentIds /\ Inserted(dl'[s].d) /\ row'[dl'[s].d] = row[dl'[s].d]
         /\ \/ dl[s].pc # "idle" /\ dl'[s].d = dl[s].d
            \/ ClaimNextDeployment(s, dl'[s].d) /\ SameContainers
<1>1. Kept /\ Claimed /\ EngineTypeOK /\ InHand /\ TypeOK
  BY TablesStep DEF EngineInv, EngineTypeOK
<1>2. \/ dl[s].pc # "idle" /\ dl'[s].d = dl[s].d
      \/ dl'[s].d \in DeploymentIds /\ ClaimNextDeployment(s, dl'[s].d) /\ SameContainers
  BY <1>1, LoopsMove
<1>3. CASE dl[s].pc # "idle" /\ dl'[s].d = dl[s].d
  <2>1. dl[s].d \in DeploymentIds /\ Inserted(dl[s].d)
    BY <1>1, <1>3, JobsInHand DEF Claimed, Inserted, Job
  <2> QED
    BY <1>1, <1>3, <2>1 DEF Kept
<1>4. CASE dl'[s].d \in DeploymentIds /\ ClaimNextDeployment(s, dl'[s].d) /\ SameContainers
  BY <1>1, <1>4, ClaimTakes DEF Inserted
<1> QED
  BY <1>2, <1>3, <1>4

\* The claim takes the oldest, and a new row is younger than all: what runs stays
\* older than what waits.
LEMMA InOrderStep ==
  ASSUME EngineInv, [EngineNext]_engineVars
  PROVE  InOrder'
<1>1. /\ Dated /\ Claimed /\ InOrder /\ TypeOK /\ clock \in Nat
      /\ \A d \in DeploymentIds : Inserted(d) => row[d].at \in Nat
  BY DEF EngineInv, EngineTypeOK, TypeOK, Row
<1>2. ASSUME NEW d \in DeploymentIds, NEW e \in DeploymentIds, docker'[e] # "none",
             status'[d] = "queued", row'[d].srv = row'[e].srv
      PROVE  row'[e].at < row'[d].at
  <2>1. /\ status[e] \notin {"none", "queued"} /\ row'[e] = row[e] /\ row[e].at < clock
        /\ \/ docker[e] # "none"
           \/ \E s \in Servers : dl[s].pc = "start" /\ Job(s) = e /\ row[e].srv = s
    BY <1>1, <1>2, HasRun DEF Dated, Inserted
  <2>2. CASE status[d] = "queued" /\ row'[d] = row[d]
    BY <1>1, <1>2, <2>1, <2>2 DEF InOrder
  <2>3. CASE ~Inserted(d) /\ row'[d].at = clock
    BY <2>1, <2>3
  <2> QED
    BY <1>2, <2>2, <2>3, StillQueued
<1>3. ASSUME NEW s \in Servers, NEW d \in DeploymentIds, dl'[s].pc # "idle",
             status'[d] = "queued", row'[d].srv = s
      PROVE  row'[dl'[s].d].at < row'[d].at
  <2> DEFINE j == dl'[s].d
  <2>1. j \in DeploymentIds /\ Inserted(j) /\ row'[j] = row[j] /\ row[j].at < clock
    BY <1>1, <1>3, HeldJob DEF Dated
  <2>2. CASE ~Inserted(d) /\ row'[d].at = clock
    BY <2>1, <2>2
  <2>3. CASE status[d] = "queued" /\ row'[d] = row[d]
    <3>1. CASE dl[s].pc # "idle" /\ dl'[s].d = dl[s].d
      BY <1>1, <1>3, <2>1, <2>3, <3>1 DEF InOrder, Job
    <3>2. CASE ClaimNextDeployment(s, j)
      <4>1. j # d /\ row[j].at <= row[d].at
        BY <1>1, <1>3, <2>1, <2>3, <3>2, ClaimTakes
      <4>2. row[j].at # row[d].at /\ row[j].at \in Nat /\ row[d].at \in Nat
        BY <1>1, <2>1, <2>3, <4>1 DEF Dated, Inserted
      <4> QED
        BY <2>1, <2>3, <4>1, <4>2
    <3> QED
      BY <1>3, <3>1, <3>2, HeldJob
  <2> QED
    BY <1>3, <2>2, <2>3, StillQueued
<1>4. ASSUME NEW s \in Servers, NEW e \in DeploymentIds, dl'[s].pc # "idle",
             docker'[e] # "none", row'[e].srv = s, e # dl'[s].d
      PROVE  row'[e].at < row'[dl'[s].d].at
  <2>1. /\ row'[e] = row[e]
        /\ \/ docker[e] # "none"
           \/ \E r \in Servers : dl'[r].d = e /\ row[e].srv = r
    BY <1>4, HasRun
  <2>2. docker[e] # "none"
    BY <1>4, <2>1
  <2>3. CASE dl[s].pc # "idle" /\ dl'[s].d = dl[s].d
    BY <1>1, <1>4, <2>1, <2>2, <2>3, HeldJob DEF InOrder, Job
  <2>4. CASE ClaimNextDeployment(s, dl'[s].d)
    <3>1. /\ dl'[s].d \in DeploymentIds /\ row'[dl'[s].d] = row[dl'[s].d]
          /\ status[dl'[s].d] = "queued" /\ row[dl'[s].d].srv = s
      BY <1>1, <1>4, <2>4, HeldJob, ClaimTakes
    <3> QED
      BY <1>1, <1>4, <2>1, <2>2, <3>1 DEF InOrder
  <2> QED
    BY <1>4, <2>3, <2>4, HeldJob
<1> QED
  BY <1>2, <1>3, <1>4 DEF InOrder, Job

\* A teardown removes previews: its job's key is a preview's.
LEMMA TeardownsTakePreviews ==
  ASSUME EngineInv, NEW s \in Servers, tl[s].pc = "remove", NEW e \in tl[s].found
  PROVE  /\ e \in DeploymentIds /\ IsPreview(e)
         /\ row[e].srv = s /\ row[e].key = trow[tl[s].t].key
<1>1. EngineTypeOK /\ Isolation /\ Claimed /\ Listed
  BY DEF EngineInv
<1> DEFINE t == tl[s].t
<1>2. e \in DeploymentIds
  BY <1>1 DEF EngineTypeOK, AgentTypeOK
<1>3. docker[e] # "none" /\ row[e].srv = s /\ row[e].key = trow[t].key
  BY <1>1 DEF Listed
<1>4. t \in TeardownIds /\ Existing(t) /\ Inserted(e)
  BY <1>1, <1>2, <1>3, JobsInHand DEF Claimed, Inserted
<1>5. trow[t].dep \in DeploymentIds /\ JobOK(t)
  BY <1>1, <1>4 DEF Isolation, TypeOK, TeardownRow
<1>6. IsPreview(trow[t].dep) /\ row[trow[t].dep].key = row[e].key
  BY <1>3, <1>5 DEF JobOK
<1>7. Inserted(trow[t].dep) /\ row[trow[t].dep].kind = "preview"
  BY <1>6 DEF IsPreview
<1>8. row[trow[t].dep].kind = row[e].kind
  BY <1>1, <1>2, <1>4, <1>5, <1>6, <1>7, SameKeySameKind
<1>9. IsPreview(e)
  BY <1>4, <1>7, <1>8 DEF IsPreview
<1> QED
  BY <1>2, <1>3, <1>9

\* Why a container goes: a failed deploy before the switch, a newer release of the
\* same key, or a teardown of the preview.
LEMMA RemovalLemma ==
  ASSUME EngineInv, [EngineNext]_engineVars, NEW e \in DeploymentIds,
         TakenDown(e)
  PROVE  LET s == row[e].srv IN
         \/ dl[s].pc = "cleanup" /\ Job(s) = e /\ e \notin released
         \/ \E d \in released \ {e} :
                /\ SameRoute(d, e) /\ row[e].at < row[d].at
                /\ docker[d] = "up" \/ IsPreview(d)
         \/ IsPreview(e) /\ tl[s].pc = "remove" /\ trow[tl[s].t].key = row[e].key
<1>1. EngineTypeOK /\ Isolation /\ Claimed /\ InOrder /\ InHand /\ Listed
  BY DEF EngineInv
<1>2. docker[e] # "none" /\ Inserted(e)
  BY <1>1 DEF TakenDown, Present, Claimed, Inserted
<1>3. CASE \E s \in Servers : dl[s].pc = "cleanup" /\ Job(s) = e
  <2>1. PICK s \in Servers : dl[s].pc = "cleanup" /\ Job(s) = e
    BY <1>3
  <2> QED
    BY <1>1, <2>1 DEF Claimed, InHand, BeforeSwitch
<1>4. CASE \E s \in Servers : dl[s].pc = "remove" /\ e \in dl[s].found
  <2>1. PICK s \in Servers : dl[s].pc = "remove" /\ e \in dl[s].found
    BY <1>4
  <2>2. Job(s) \in DeploymentIds /\ row[Job(s)].srv = s
    BY <1>1, <2>1, JobsInHand DEF Claimed
  <2>3. e # Job(s) /\ row[e].srv = s /\ row[e].key = row[Job(s)].key
    BY <1>1, <2>1 DEF Listed
  <2>4. Job(s) \in released /\ (docker[Job(s)] = "up" \/ IsPreview(Job(s)))
    BY <1>1, <2>1 DEF InHand, Serving, Down
  <2>5. row[e].at < row[Job(s)].at
    BY <1>1, <1>2, <2>1, <2>3 DEF InOrder
  <2> QED
    BY <2>2, <2>3, <2>4, <2>5 DEF SameRoute
<1>5. CASE \E s \in Servers : tl[s].pc = "remove" /\ e \in tl[s].found
  <2>1. PICK s \in Servers : tl[s].pc = "remove" /\ e \in tl[s].found
    BY <1>5
  <2> QED
    BY <2>1, TeardownsTakePreviews
<1>6. Removing(e)
  <2>1. ASSUME NEW s \in Servers, dl[s].pc = "start", Job(s) = e PROVE FALSE
    BY <1>1, <1>2, <2>1 DEF InHand, BeforeRun
  <2> QED
    BY <1>1, <2>1, ContainersMove DEF TakenDown
<1> QED
  BY <1>3, <1>4, <1>5, <1>6 DEF Removing

\* A container and a release of a deployment that has one: neither is ever forgotten.
LEMMA StaysRun ==
  ASSUME EngineInv, [EngineNext]_engineVars, NEW e \in DeploymentIds, docker[e] # "none"
  PROVE  docker'[e] # "none" /\ Inserted(e) /\ row'[e] = row[e]
<1>1. EngineTypeOK /\ InHand /\ Claimed /\ Kept
  BY TablesStep DEF EngineInv
<1>2. ASSUME NEW s \in Servers, dl[s].pc = "start", Job(s) = e PROVE FALSE
  BY <1>1, <1>2 DEF InHand, BeforeRun
<1>3. docker'[e] # "none"
  BY <1>1, <1>2, ContainersMove DEF Present, Down
<1> QED
  BY <1>1, <1>3 DEF Claimed, Inserted, Kept

\* What another loop, or the job's own, may do to the container and the release of a
\* job that stays in hand.
LEMMA JobContainer ==
  ASSUME EngineInv, [EngineNext]_engineVars, NEW s \in Servers,
         dl[s].pc # "idle", dl'[s].pc # "idle", dl'[s].d = dl[s].d
  PROVE  /\ \/ docker'[Job(s)] = docker[Job(s)]
            \/ dl[s].pc = "start" /\ dl'[s].pc \in {"failing", "check", "replace"}
            \/ Present(Job(s)) /\ docker'[Job(s)] \in Down /\ IsPreview(Job(s))
         /\ Job(s) \in released => Job(s) \in released'
         /\ Job(s) \in released' /\ dl'[s].pc # "replace" => Job(s) \in released
<1>1. EngineTypeOK /\ InHand /\ Claimed /\ Listed /\ Job(s) \in DeploymentIds
  BY JobsInHand DEF EngineInv
<1>2. row[Job(s)].srv = s
  BY <1>1 DEF Claimed
<1>3. ASSUME NEW r \in Servers, dl[r].pc # "idle", Job(r) = Job(s) PROVE r = s
  BY <1>1, <1>2, <1>3 DEF Claimed
<1>4. ASSUME Removing(Job(s)) PROVE IsPreview(Job(s))
  <2>1. ASSUME NEW r \in Servers, dl[r].pc = "cleanup", Job(r) = Job(s), dl'[r].pc = "idle"
        PROVE  FALSE
    BY <1>3, <2>1
  <2>2. ASSUME NEW r \in Servers, dl[r].pc = "remove", Job(s) \in dl[r].found PROVE FALSE
    <3>1. row[Job(s)].srv = r /\ Job(s) # Job(r)
      BY <1>1, <2>2 DEF Listed
    <3> QED
      BY <1>2, <3>1
  <2>3. ASSUME NEW r \in Servers, tl[r].pc = "remove", Job(s) \in tl[r].found
        PROVE  IsPreview(Job(s))
    BY <2>3, TeardownsTakePreviews
  <2> QED
    BY <1>4, <2>1, <2>2, <2>3 DEF Removing
<1>5. \/ docker'[Job(s)] = docker[Job(s)]
      \/ dl[s].pc = "start" /\ dl'[s].pc \in {"failing", "check", "replace"}
      \/ Present(Job(s)) /\ docker'[Job(s)] \in Down /\ IsPreview(Job(s))
  <2>1. ASSUME NEW r \in Servers, dl[r].pc = "start", Job(r) = Job(s),
               dl'[r].pc \in {"failing", "check", "replace"}
        PROVE  dl[s].pc = "start" /\ dl'[s].pc \in {"failing", "check", "replace"}
    BY <1>3, <2>1
  <2> QED
    BY <1>1, <1>4, <2>1, ContainersMove
<1>6. Job(s) \in released => Job(s) \in released'
  BY <1>1, ReleasesMove
<1>7. ASSUME Job(s) \in released', Job(s) \notin released PROVE dl'[s].pc = "replace"
  <2>1. PICK r \in Servers : /\ Job(r) = Job(s) /\ dl'[r].pc = "replace"
                             /\ dl[r].pc \in {"start", "apply"}
    BY <1>1, <1>7, ReleasesMove
  <2> QED
    BY <1>3, <2>1
<1> QED
  BY <1>5, <1>6, <1>7

\* The job in hand goes from claimed to started to released, one after the other.
LEMMA InHandStep ==
  ASSUME EngineInv, [EngineNext]_engineVars
  PROVE  InHand'
<1>1. EngineTypeOK /\ TypeOK /\ InHand /\ Claimed /\ ReleasedRan /\ Kept
  BY TablesStep DEF EngineInv, EngineTypeOK
<1>2. SUFFICES ASSUME NEW s \in Servers, dl'[s].pc # "idle"
      PROVE  /\ dl'[s].pc \in BeforeRun => docker'[dl'[s].d] = "none"
             /\ dl'[s].pc \in BeforeSwitch => dl'[s].d \notin released'
             /\ dl'[s].pc \in {"replace", "remove"} => dl'[s].d \in released'
             /\ dl'[s].pc \in Serving =>
                    \/ docker'[dl'[s].d] = "up"
                    \/ docker'[dl'[s].d] \in Down /\ IsPreview(dl[s].d)
                       /\ dl[s].pc # "idle" /\ dl'[s].d = dl[s].d
  <2>1. ASSUME NEW s \in Servers, dl[s].pc # "idle", dl'[s].d = dl[s].d, IsPreview(dl[s].d)
        PROVE  IsPreview(Job(s))'
    BY <1>1, <2>1, JobsInHand DEF Kept, IsPreview, Job
  <2> QED
    BY <1>2, <2>1 DEF InHand, Job, BeforeRun, BeforeSwitch, Serving
<1>3. CASE ClaimNextDeployment(s, dl'[s].d) /\ SameContainers /\ dl'[s].pc = "polled"
           /\ dl'[s].d \in DeploymentIds
  <2>1. docker[dl'[s].d] = "none"
    BY <1>1, <1>3, ClaimTakes DEF Claimed
  <2> QED
    BY <1>1, <1>3, <2>1 DEF SameContainers, ReleasedRan, Serving
<1>4. CASE dl[s].pc # "idle" /\ dl'[s].d = dl[s].d
  <2> DEFINE j == dl[s].d
  <2>1. /\ \/ docker'[j] = docker[j]
           \/ dl[s].pc = "start" /\ dl'[s].pc \in {"failing", "check", "replace"}
           \/ Present(j) /\ docker'[j] \in Down /\ IsPreview(j)
        /\ j \in released => j \in released'
        /\ j \in released' /\ dl'[s].pc # "replace" => j \in released
    BY <1>2, <1>4, JobContainer DEF Job
  <2>2. /\ dl[s].pc \in BeforeRun => docker[j] = "none"
        /\ dl[s].pc \in BeforeSwitch => j \notin released
        /\ dl[s].pc \in {"replace", "remove"} => j \in released
        /\ dl[s].pc \in Serving => docker[j] = "up" \/ (docker[j] \in Down /\ IsPreview(j))
    BY <1>1 DEF InHand, Job
  <2>3. \/ dl'[s].pc = dl[s].pc
        \/ dl[s].pc \in BeforeRun /\ dl'[s].pc \in BeforeRun
        \/ /\ dl[s].pc = "start" /\ docker'[j] = "up"
           /\ dl'[s].pc = "check" \/ (dl'[s].pc = "replace" /\ j \in released')
        \/ dl[s].pc \in {"check", "probe", "list"} /\ dl'[s].pc \in {"probe", "list", "apply"}
        \/ dl[s].pc \in BeforeSwitch /\ dl'[s].pc \in {"failing", "cleanup"}
        \/ dl[s].pc = "apply" /\ dl'[s].pc = "replace" /\ j \in released'
        \/ dl[s].pc = "replace" /\ dl'[s].pc = "remove"
        \/ dl'[s].pc \in {"running", "sync", "resync"}
    BY <1>1, <1>2, <1>4, LoopsMove DEF Job
  <2>4. dl'[s].pc \in BeforeRun => docker'[j] = "none"
    BY <2>1, <2>2, <2>3 DEF BeforeRun, BeforeSwitch, Present, Down
  <2>5. dl'[s].pc \in BeforeSwitch => j \notin released'
    BY <2>1, <2>2, <2>3 DEF BeforeRun, BeforeSwitch
  <2>6. dl'[s].pc \in {"replace", "remove"} => j \in released'
    BY <2>1, <2>2, <2>3 DEF BeforeRun, BeforeSwitch
  <2>7. dl'[s].pc \in Serving =>
            docker'[j] = "up" \/ (docker'[j] \in Down /\ IsPreview(j))
    BY <2>1, <2>2, <2>3 DEF BeforeRun, BeforeSwitch, Serving, Present, Down
  <2> QED
    BY <1>4, <2>4, <2>5, <2>6, <2>7
<1> QED
  BY <1>1, <1>2, <1>3, <1>4, LoopsMove

\* A listing stays true of what it lists: rows never change, and a container that is
\* gone has existed.
LEMMA ListedStep ==
  ASSUME EngineInv, [EngineNext]_engineVars
  PROVE  Listed'
<1>1. EngineTypeOK /\ InHand /\ Claimed /\ Listed /\ Kept
  BY TablesStep DEF EngineInv
<1>2. ASSUME NEW s \in Servers, dl'[s].pc = "remove", NEW e \in dl'[s].found
      PROVE  /\ e # dl'[s].d /\ docker'[e] # "none"
             /\ row'[e].srv = s /\ row'[e].key = row'[dl'[s].d].key
  <2>1. dl[s].pc # "idle" /\ dl'[s].d = dl[s].d
        /\ \/ dl'[s].found = Labelled(s, row[Job(s)].key) \ {Job(s)}
           \/ dl[s].pc = "remove" /\ dl'[s].found \subseteq dl[s].found
    BY <1>1, <1>2, LoopsMove DEF BeforeRun
  <2>2. row'[Job(s)] = row[Job(s)]
    BY <1>2, <2>1, HeldJob DEF Job
  <2>3. /\ e \in DeploymentIds /\ e # Job(s) /\ docker[e] # "none"
        /\ row[e].srv = s /\ row[e].key = row[Job(s)].key
    BY <1>1, <1>2, <2>1 DEF Listed, Labelled, Present, EngineTypeOK, AgentTypeOK
  <2> QED
    BY <2>1, <2>2, <2>3, StaysRun DEF Job
<1>3. ASSUME NEW s \in Servers, tl'[s].pc = "remove", NEW e \in tl'[s].found
      PROVE  docker'[e] # "none" /\ row'[e].srv = s /\ row'[e].key = trow'[tl'[s].t].key
  <2>1. /\ tl[s].pc # "idle" /\ tl'[s].t = tl[s].t
        /\ \/ tl'[s].found = Labelled(s, trow[tl[s].t].key)
           \/ tl[s].pc = "remove" /\ tl'[s].found \subseteq tl[s].found
    BY <1>1, <1>3, TeardownsMove
  <2>2. trow'[tl[s].t] = trow[tl[s].t]
    BY <1>1, <2>1, JobsInHand DEF Claimed, Kept
  <2>3. /\ e \in DeploymentIds /\ docker[e] # "none"
        /\ row[e].srv = s /\ row[e].key = trow[tl[s].t].key
    <3>1. CASE e \in Labelled(s, trow[tl[s].t].key)
      BY <3>1 DEF Labelled, Present
    <3>2. CASE tl[s].pc = "remove" /\ e \in tl[s].found
      BY <1>1, <3>2 DEF Listed, EngineTypeOK, AgentTypeOK
    <3> QED
      BY <1>3, <2>1, <3>1, <3>2
  <2> QED
    BY <2>1, <2>2, <2>3, StaysRun
<1> QED
  BY <1>2, <1>3 DEF Listed, Job

\* What is released has been run: the switch comes after the start.
LEMMA ReleasedRanStep ==
  ASSUME EngineInv, [EngineNext]_engineVars
  PROVE  ReleasedRan'
<1>1. EngineTypeOK /\ InHand /\ Claimed /\ ReleasedRan /\ released' \subseteq DeploymentIds
  BY TablesStep DEF EngineInv, EngineTypeOK, AgentTypeOK
<1>2. SUFFICES ASSUME NEW d \in released', d \in DeploymentIds PROVE docker'[d] # "none"
  BY <1>1 DEF ReleasedRan
<1>3. CASE d \in released
  BY <1>1, <1>2, <1>3, StaysRun DEF ReleasedRan
<1>4. CASE d \notin released
  <2>1. PICK s \in Servers : /\ Job(s) = d /\ dl'[s].pc = "replace"
                             /\ dl[s].pc = "start" \/ (dl[s].pc = "apply" /\ docker' = docker)
    BY <1>1, <1>2, <1>4, ReleasesMove
  <2>2. CASE dl[s].pc = "start"
    BY <1>1, <2>1, <2>2, LoopsMove DEF BeforeRun
  <2>3. CASE dl[s].pc = "apply" /\ docker' = docker
    BY <1>1, <2>1, <2>3 DEF InHand, Serving, Down
  <2> QED
    BY <2>1, <2>2, <2>3
<1> QED
  BY <1>3, <1>4

\* The inductive invariant of the engine.
LEMMA EngineInvInit == EngineInit => EngineInv
<1> SUFFICES ASSUME EngineInit PROVE EngineInv
  OBVIOUS
<1>1. EngineTypeOK /\ TypeOK
  BY EngineTypeInit DEF EngineTypeOK
<1>2. Isolation
  BY <1>1 DEF EngineInit, Init, Isolation, Inserted, Existing
<1>3. \A d \in DeploymentIds : status[d] = "none" /\ docker[d] = "none"
  BY DEF EngineInit, Init
<1>4. released = {} /\ \A s \in Servers : dl[s].pc = "idle" /\ tl[s].pc = "idle"
  BY DEF EngineInit, IdleDeploy, IdleTeardown
<1>5. Dated /\ Claimed /\ InOrder
  BY <1>3, <1>4 DEF Dated, Claimed, InOrder, Inserted
<1>6. InHand /\ Listed /\ ReleasedRan
  BY <1>4 DEF InHand, Listed, ReleasedRan, BeforeRun, BeforeSwitch, Serving
<1> QED
  BY <1>1, <1>2, <1>5, <1>6 DEF EngineInv

LEMMA EngineInvStep ==
  ASSUME EngineInv, [EngineNext]_engineVars
  PROVE  EngineInv'
<1>1. EngineTypeOK /\ Isolation /\ Dated /\ Claimed /\ InHand
  BY DEF EngineInv
<1>2. EngineTypeOK' /\ Isolation' /\ Dated' /\ Claimed'
  BY <1>1, TablesStep, DatedStep, ClaimedStep
<1>3. InOrder' /\ InHand' /\ Listed' /\ ReleasedRan'
  BY InOrderStep, InHandStep, ListedStep, ReleasedRanStep
<1> QED
  BY <1>2, <1>3 DEF EngineInv

LEMMA EngineInvariant == EngineSpec => []EngineInv
<1>1. EngineInv /\ [EngineNext]_engineVars => EngineInv'
  BY EngineInvStep
<1> QED
  BY EngineInvInit, <1>1, PTL DEF EngineSpec

-----------------------------------------------------------------------------
(* What the engine promises *)

\* The deploy loop starts a container only for a deployment that never had one, on
\* any number of servers and through any losses and crashes: ClaimNextDeployment
\* hands a row out once, and executeDeployment runs it once.
THEOREM DeploymentsRunOnce == EngineSpec => []RunOnce
<1>1. EngineInv => RunOnce
  BY DEF EngineInv, InHand, RunOnce, BeforeRun
<1> QED
  BY EngineInvariant, <1>1, PTL

\* No step removes a container but a cleanup of a deploy that failed before the
\* traffic switch, a replacement by a newer release of the same key and server, or a
\* teardown of a preview of that key, although the lists that replacePreviousExcept
\* and removeByService work through are stale by then.
THEOREM RemovalsJustified == EngineSpec => RemovalJustified
<1>1. EngineInv /\ [EngineNext]_engineVars => [RemovalStep]_engineVars
  <2> SUFFICES ASSUME EngineInv, [EngineNext]_engineVars PROVE RemovalStep
    OBVIOUS
  <2> QED
    BY RemovalLemma DEF RemovalStep
<1> QED
  BY EngineInvariant, <1>1, PTL DEF EngineSpec, RemovalJustified

\* A released container that is up may go only when another one takes its place.
LEMMA NeverDarkStep ==
  ASSUME EngineInv, NeverDark, [EngineNext]_engineVars
  PROVE  NeverDark'
<1>1. /\ EngineTypeOK /\ Isolation /\ InHand /\ Claimed /\ ReleasedRan
      /\ released \subseteq DeploymentIds /\ released' \subseteq DeploymentIds
  BY TablesStep DEF EngineInv, EngineTypeOK, AgentTypeOK
<1>2. \A d \in released : d \in DeploymentIds /\ Inserted(d) /\ row'[d] = row[d] /\ d \in released'
  BY <1>1, StaysRun, ReleasesMove DEF ReleasedRan
<1>3. SUFFICES ASSUME NEW d \in released', IsProduction(d)'
      PROVE  \E e \in released' : SameRoute(d, e)' /\ docker'[e] = "up"
  BY DEF NeverDark
<1>4. CASE d \in released
  <2>1. IsProduction(d)
    BY <1>2, <1>3, <1>4 DEF IsProduction
  <2>2. PICK e \in released : SameRoute(d, e) /\ docker[e] = "up"
    BY <1>4, <2>1 DEF NeverDark
  <2>3. ASSUME NEW g \in released, SameRoute(d, g), docker'[g] = "up"
        PROVE  \E x \in released' : SameRoute(d, x)' /\ docker'[x] = "up"
    BY <1>2, <1>4, <2>3 DEF SameRoute
  <2>4. \A g \in released : SameRoute(d, g) => ~IsPreview(g)
    BY <1>1, <1>2, <1>4, <2>1, SameKeySameKind DEF SameRoute, IsPreview, IsProduction
  <2>5. CASE docker'[e] = "up"
    BY <2>2, <2>3, <2>5
  <2>6. CASE docker'[e] # "up"
    <3>1. ASSUME NEW s \in Servers, dl[s].pc = "start", Job(s) = e PROVE FALSE
      BY <1>1, <2>2, <3>1 DEF InHand, BeforeRun
    <3>2. TakenDown(e)
      BY <1>1, <1>2, <2>2, <2>6, <3>1, ContainersMove DEF TakenDown, Down
    <3>3. PICK g \in released \ {e} : SameRoute(g, e) /\ (docker[g] = "up" \/ IsPreview(g))
      BY <1>2, <2>2, <2>4, <3>2, RemovalLemma
    <3>4. SameRoute(d, g)
      BY <2>2, <3>3 DEF SameRoute
    <3>5. docker'[g] = docker[g]
      BY <1>1, <1>2, <2>2, <2>6, <3>3, ContainersMove
    <3> QED
      BY <2>3, <2>4, <3>3, <3>4, <3>5
  <2> QED
    BY <2>5, <2>6
<1>5. CASE d \notin released
  <2>1. PICK s \in Servers : /\ Job(s) = d /\ dl'[s].pc = "replace"
                             /\ dl[s].pc = "start" \/ (dl[s].pc = "apply" /\ docker' = docker)
    BY <1>1, <1>3, <1>5, ReleasesMove
  <2>2. CASE dl[s].pc = "start"
    BY <1>1, <1>3, <2>1, <2>2, LoopsMove DEF BeforeRun, SameRoute
  <2>3. CASE dl[s].pc = "apply" /\ docker' = docker
    <3>1. row'[d] = row[d] /\ Inserted(d) /\ (docker[d] = "up" \/ IsPreview(d))
      BY <1>1, <1>3, <2>1, <2>3, StaysRun DEF InHand, Serving, Down
    <3> QED
      BY <1>3, <2>3, <3>1 DEF IsProduction, IsPreview, SameRoute
  <2> QED
    BY <2>1, <2>2, <2>3
<1> QED
  BY <1>4, <1>5

\* A production service that has been released on a server has a released container
\* up there ever after, whatever deploys, rollbacks, failures, teardowns and crashes
\* come: the old container goes only after the new one has been switched to, and a
\* deploy that fails takes down only itself.
THEOREM ProductionNeverDark == EngineSpec => []NeverDark
<1>1. EngineInit => NeverDark
  BY DEF EngineInit, NeverDark
<1>2. EngineInv /\ NeverDark /\ [EngineNext]_engineVars => NeverDark'
  BY NeverDarkStep
<1> QED
  BY EngineInvariant, <1>1, <1>2, PTL DEF EngineSpec
=============================================================================
