--------------------------- MODULE DomainsProofs ---------------------------
(***************************************************************************)
(* Theorems about module Domains, for any number of services, hostnames,   *)
(* deploys and faults.                                                     *)
(***************************************************************************)
EXTENDS Domains, TLAPS

-----------------------------------------------------------------------------
(* Types *)

LEMMA IdleType == Idle \in LoopState
BY DEF Idle, LoopState

\* Two kinds of loop steps: to a state given as a whole, and to one with a new
\* program counter.
LEMMA LoopTypes ==
  ASSUME TypeOK, NEW l \in Loops, NEW r \in LoopState, loop' = [loop EXCEPT ![l] = r]
  PROVE  loop' \in [Loops -> LoopState]
BY DEF TypeOK

LEMMA PlainSites ==
  ASSUME NEW S \in SUBSET Services
  PROVE  Plain(S) \in SUBSET Site
BY DEF Plain, Site

LEMMA DesiredSites ==
  ASSUME TypeOK, NEW l \in Loops
  PROVE  Desired(l) \in SUBSET Site
<1>1. loop[l].seen \in SUBSET Services /\ loop[l].over \in SUBSET Site
  BY DEF TypeOK, LoopState
<1> QED
  BY <1>1, PlainSites DEF Desired

LEMMA AppliedType ==
  ASSUME TypeOK, NEW l \in Loops, NEW ok \in BOOLEAN
  PROVE  Applied(l, ok) \in LoopState
<1>1. loop[l] \in LoopState
  BY DEF TypeOK
<1> QED
  BY <1>1 DEF Applied, LoopState

LEMMA InitialTypes == Init => TypeOK
<1> SUFFICES ASSUME Init PROVE TypeOK
  OBVIOUS
<1>1. /\ private \in [Services -> BOOLEAN] /\ url \in [Services -> BOOLEAN]
      /\ domain \in [Services \X Hostnames -> DomainStatus \cup {"none"}]
      /\ check \in [Services \X Hostnames -> {"none", "blocked", "pending_dns", "verified"}]
  BY DEF Init
<1>2. running \in SUBSET Services /\ file \in SUBSET Site /\ loaded \in SUBSET Site
  BY DomainsAssumption, PlainSites DEF Init
<1>3. loop \in [Loops -> LoopState] /\ proved \in SUBSET (Services \X Hostnames)
  BY IdleType DEF Init
<1>4. deploys \in 0 .. MaxDeploys /\ faults \in 0 .. MaxFaults
  BY DomainsAssumption DEF Init
<1> QED
  BY <1>1, <1>2, <1>3, <1>4 DEF TypeOK

LEMMA FaultType ==
  ASSUME TypeOK, Fault
  PROVE  faults' \in 0 .. MaxFaults
BY DomainsAssumption DEF TypeOK, Fault

LEMMA DeploysType ==
  ASSUME TypeOK, deploys < MaxDeploys, deploys' = deploys + 1
  PROVE  deploys' \in 0 .. MaxDeploys
BY DomainsAssumption DEF TypeOK

\* The control plane's handlers.
LEMMA ControlTypes ==
  ASSUME TypeOK, NEW s \in Services,
         \/ UpdateVisibility(s)
         \/ \E h \in Hostnames : CreateDomain(s, h) \/ VerifyDomain(s, h)
                                 \/ UpdateVerification(s, h) \/ DeleteDomain(s, h)
  PROVE  TypeOK'
<1>1. CASE UpdateVisibility(s)
  <2>1. private' \in [Services -> BOOLEAN]
    BY <1>1 DEF UpdateVisibility, UpdateServiceVisibility, TypeOK
  <2> QED
    BY <1>1, <2>1 DEF UpdateVisibility, TypeOK, hostVars
<1>2. ASSUME NEW h \in Hostnames, CreateDomain(s, h) PROVE TypeOK'
  <2>1. InitialStatus(s) \in DomainStatus
    BY DEF InitialStatus, DomainStatus
  <2>2. domain' \in [Services \X Hostnames -> DomainStatus \cup {"none"}]
    BY <1>2, <2>1 DEF CreateDomain, InsertDomain, TypeOK
  <2> QED
    BY <1>2, <2>2 DEF CreateDomain, TypeOK, hostVars
<1>3. ASSUME NEW h \in Hostnames, VerifyDomain(s, h) PROVE TypeOK'
  <2>1. PICK answer \in Answers(s) :
          /\ check' = [check EXCEPT ![<<s, h>>] = answer]
          /\ proved' = IF answer = "verified" THEN proved \cup {<<s, h>>} ELSE proved
    BY <1>3 DEF VerifyDomain
  <2>2. answer \in {"blocked", "pending_dns", "verified"}
    BY DEF Answers, LookUp
  <2>3. check' \in [Services \X Hostnames -> {"none", "blocked", "pending_dns", "verified"}]
    BY <2>1, <2>2 DEF TypeOK
  <2>4. proved' \in SUBSET (Services \X Hostnames)
    BY <2>1 DEF TypeOK
  <2> QED
    BY <1>3, <2>3, <2>4 DEF VerifyDomain, TypeOK, hostVars
<1>4. ASSUME NEW h \in Hostnames, UpdateVerification(s, h) PROVE TypeOK'
  <2>1. check[<<s, h>>] \in DomainStatus
    BY <1>4 DEF UpdateVerification, TypeOK, DomainStatus
  <2>2. /\ domain' \in [Services \X Hostnames -> DomainStatus \cup {"none"}]
        /\ check' \in [Services \X Hostnames -> {"none", "blocked", "pending_dns", "verified"}]
    BY <1>4, <2>1 DEF UpdateVerification, TypeOK
  <2> QED
    BY <1>4, <2>2 DEF UpdateVerification, TypeOK, hostVars
<1>5. ASSUME NEW h \in Hostnames, DeleteDomain(s, h) PROVE TypeOK'
  <2>1. /\ domain' \in [Services \X Hostnames -> DomainStatus \cup {"none"}]
        /\ check' \in [Services \X Hostnames -> {"none", "blocked", "pending_dns", "verified"}]
    BY <1>5 DEF DeleteDomain, DeleteDomainRow, TypeOK
  <2> QED
    BY <1>5, <2>1 DEF DeleteDomain, TypeOK, hostVars
<1> QED
  BY <1>1, <1>2, <1>3, <1>4, <1>5

\* The deploys.
LEMMA DeployTypes ==
  ASSUME TypeOK,
         \/ \E s \in Services : StartDeploy(s) \/ StartPrivateDeploy(s)
         \/ DeployDone \/ DeployFailed
  PROVE  TypeOK'
<1>1. [Idle EXCEPT !.pc = "list"] \in LoopState
  BY DEF Idle, LoopState
<1>2. ASSUME NEW s \in Services, StartDeploy(s) PROVE TypeOK'
  <2>1. running' \in SUBSET Services
    BY <1>2 DEF StartDeploy, TypeOK
  <2>2. [Idle EXCEPT !.pc = "read", !.for = "deploy", !.svc = s,
                     !.new = s \notin running, !.seen = running'] \in LoopState
    BY <2>1 DEF Idle, LoopState
  <2>3. loop' \in [Loops -> LoopState]
    BY <1>2, <2>2, LoopTypes DEF StartDeploy, Loops
  <2>4. deploys' \in 0 .. MaxDeploys
    BY <1>2, DeploysType DEF StartDeploy
  <2> QED
    BY <1>2, <2>1, <2>3, <2>4 DEF StartDeploy, TypeOK, controlVars
<1>3. ASSUME NEW s \in Services, StartPrivateDeploy(s) PROVE TypeOK'
  <2>1. loop' \in [Loops -> LoopState]
    BY <1>1, <1>3, LoopTypes DEF StartPrivateDeploy, Loops
  <2>2. deploys' \in 0 .. MaxDeploys
    BY <1>3, DeploysType DEF StartPrivateDeploy
  <2> QED
    BY <1>3, <2>1, <2>2 DEF StartPrivateDeploy, TypeOK, controlVars
<1>4. CASE DeployDone
  <2>1. loop' \in [Loops -> LoopState]
    BY <1>1, <1>4, LoopTypes DEF DeployDone, Loops
  <2>2. url' \in [Services -> BOOLEAN]
    BY <1>4 DEF DeployDone, UpdateServiceRouteURL, TypeOK
  <2>3. faults' \in 0 .. MaxFaults
    BY <1>4, FaultType DEF DeployDone, TypeOK
  <2> QED
    BY <1>4, <2>1, <2>2, <2>3 DEF DeployDone, TypeOK
<1>5. CASE DeployFailed
  <2>1. loop' \in [Loops -> LoopState]
    BY <1>5, IdleType, LoopTypes DEF DeployFailed, Loops
  <2>2. running' \in SUBSET Services
    BY <1>5 DEF DeployFailed, TypeOK
  <2> QED
    BY <1>5, <2>1, <2>2 DEF DeployFailed, TypeOK, controlVars
<1> QED
  BY <1>2, <1>3, <1>4, <1>5

\* The steps of syncCustomRoutes and of an apply.
LEMMA SyncTypes ==
  ASSUME TypeOK, NEW l \in Loops, SyncCustomRoutes(l)
  PROVE  TypeOK'
<1>0. loop[l] \in LoopState
  BY DEF TypeOK
<1>1. CASE ListManagedRoutes(l)
  <2>1. [loop[l] EXCEPT !.pc = "ask", !.seen = running] \in LoopState
    BY <1>0 DEF LoopState, TypeOK
  <2>2. loop' \in [Loops -> LoopState]
    <3> DEFINE r == IF running = {} THEN Idle ELSE [loop[l] EXCEPT !.pc = "ask", !.seen = running]
    <3>1. r \in LoopState
      BY <2>1, IdleType
    <3>2. loop' = [loop EXCEPT ![l] = r]
      BY <1>1 DEF ListManagedRoutes, TypeOK
    <3> HIDE DEF r
    <3> QED
      BY <3>1, <3>2, LoopTypes
  <2> QED
    BY <1>1, <2>2 DEF ListManagedRoutes, TypeOK, controlVars
<1>2. CASE SyncRoutes(l)
  <2>1. VerifiedDomainsForServices(loop[l].seen) \in SUBSET Site
    BY <1>0 DEF VerifiedDomainsForServices, Site, LoopState
  <2>2. loop' \in [Loops -> LoopState]
    <3> DEFINE V == VerifiedDomainsForServices(loop[l].seen)
    <3>1. [loop[l] EXCEPT !.pc = "read", !.over = V] \in LoopState
      BY <1>0, <2>1 DEF LoopState
    <3>2. \/ loop' = [loop EXCEPT ![l] = [loop[l] EXCEPT !.pc = "read", !.over = V]]
          \/ loop' = [loop EXCEPT ![l] = Idle]
      BY <1>2 DEF SyncRoutes, TypeOK
    <3> QED
      BY <3>1, <3>2, IdleType DEF TypeOK
  <2>3. faults' \in 0 .. MaxFaults
    BY <1>2, FaultType DEF SyncRoutes, TypeOK
  <2> QED
    BY <1>2, <2>2, <2>3 DEF SyncRoutes, TypeOK, controlVars
<1>3. CASE ReportRouteSync(l)
  <2>1. loop' \in [Loops -> LoopState]
    BY <1>3, IdleType, LoopTypes DEF ReportRouteSync
  <2>2. domain' \in [Services \X Hostnames -> DomainStatus \cup {"none"}]
    BY <1>3 DEF ReportRouteSync, MarkDomainsRouteSync, TypeOK, DomainStatus
  <2>3. faults' \in 0 .. MaxFaults
    BY <1>3, FaultType DEF ReportRouteSync, TypeOK
  <2> QED
    BY <1>3, <2>1, <2>2, <2>3 DEF ReportRouteSync, TypeOK
<1>4. ASSUME ApplyFails(l) PROVE loop' \in [Loops -> LoopState]
  BY <1>4, AppliedType, LoopTypes DEF ApplyFails
<1>5. CASE ReadExistingConfig(l)
  <2>1. [loop[l] EXCEPT !.pc = "rename", !.old = file] \in LoopState
    BY <1>0 DEF TypeOK, LoopState
  <2>2. \/ loop' = [loop EXCEPT ![l] = [loop[l] EXCEPT !.pc = "rename", !.old = file]]
        \/ ApplyFails(l)
    BY <1>5 DEF ReadExistingConfig, TypeOK
  <2>3. loop' \in [Loops -> LoopState]
    BY <1>4, <2>1, <2>2, LoopTypes
  <2> QED
    BY <1>5, <2>3 DEF ReadExistingConfig, TypeOK, controlVars
<1>6. CASE Activate(l)
  <2>1. loop' \in [Loops -> LoopState]
    <3>1. [loop[l] EXCEPT !.pc = "reload"] \in LoopState
      BY <1>0 DEF LoopState
    <3>2. loop' = [loop EXCEPT ![l] = [loop[l] EXCEPT !.pc = "reload"]] \/ ApplyFails(l)
      BY <1>6 DEF Activate, TypeOK
    <3> QED
      BY <1>4, <3>1, <3>2, LoopTypes
  <2>2. faults' \in 0 .. MaxFaults
    BY <1>6, FaultType DEF Activate, TypeOK
  <2>3. file' \in SUBSET Site
    BY <1>6, DesiredSites DEF Activate, TypeOK
  <2> QED
    BY <1>6, <2>1, <2>2, <2>3 DEF Activate, TypeOK, controlVars
<1>7. CASE Reload(l)
  <2>1. loop' \in [Loops -> LoopState]
    BY <1>7, AppliedType, LoopTypes DEF Reload
  <2> QED
    BY <1>7, <2>1 DEF Reload, TypeOK, controlVars
<1>8. CASE ReloadFails(l)
  <2>1. file' \in SUBSET Site
    BY <1>0, <1>8 DEF ReloadFails, LoopState
  <2> QED
    BY <1>4, <1>8, <2>1, FaultType DEF ReloadFails, TypeOK, controlVars
<1> QED
  BY <1>1, <1>2, <1>3, <1>5, <1>6, <1>7, <1>8 DEF SyncCustomRoutes

LEMMA StepTypes ==
  ASSUME TypeOK, [Next]_vars
  PROVE  TypeOK'
<1>1. CASE UNCHANGED vars
  BY <1>1 DEF vars, controlVars, hostVars, TypeOK
<1>2. CASE CaddyDies
  BY <1>2, FaultType DEF CaddyDies, TypeOK, controlVars
<1>3. "sync" \in Loops /\ "deploy" \in Loops
  BY DEF Loops
<1> QED
  BY <1>1, <1>2, <1>3, ControlTypes, DeployTypes, SyncTypes DEF Next, User, SyncLoop, DeployLoop

\* Every reachable state is well typed: the configurations that the two loops carry are
\* made of sites of this server's services, and a domain has a status its table allows.
THEOREM DomainsTypeCorrect == Spec => []TypeOK
BY InitialTypes, StepTypes, PTL DEF Spec

-----------------------------------------------------------------------------
(* Routed hostnames *)

\* A configuration whose hostnames were all seen to point at their services.
Legit(config) == \A site \in config : site[2] = Generated \/ site \in proved

\* Beyond the file and what Caddy runs: the rows that a report may make active again,
\* the answers in flight, the overrides a loop was given and the file it may restore.
ProvedInv ==
    /\ \A d \in Services \X Hostnames :
           domain[d] \in {"verified", "active", "failed"} \/ check[d] = "verified" => d \in proved
    /\ \A l \in Loops : loop[l].over \subseteq proved /\ Legit(loop[l].old)
    /\ Legit(file) /\ Legit(loaded)

LEMMA PlainLegit ==
  ASSUME NEW S
  PROVE  Legit(Plain(S))
BY DEF Legit, Plain

LEMMA DesiredLegit ==
  ASSUME ProvedInv, NEW l \in Loops
  PROVE  Legit(Desired(l))
<1>1. Legit(Plain(loop[l].seen))
  BY PlainLegit
<1> QED
  BY <1>1 DEF ProvedInv, Legit, Desired

\* Steps of the agent: the rows stay, and each loop carries what it carried, what is in
\* the file, or nothing.
LEMMA AgentKeepsProved ==
  ASSUME ProvedInv, UNCHANGED <<domain, check, proved>>, Legit(file'), Legit(loaded'),
         NEW l \in Loops, \A m \in Loops : m # l => loop'[m] = loop[m],
         loop'[l].over \subseteq proved, Legit(loop'[l].old)
  PROVE  ProvedInv'
BY DEF ProvedInv, Legit

LEMMA ControlKeepsProved ==
  ASSUME TypeOK, ProvedInv, NEW s \in Services,
         \/ UpdateVisibility(s)
         \/ \E h \in Hostnames : CreateDomain(s, h) \/ VerifyDomain(s, h)
                                 \/ UpdateVerification(s, h) \/ DeleteDomain(s, h)
  PROVE  ProvedInv'
<1>1. ASSUME proved \subseteq proved', UNCHANGED <<file, loaded, loop>>,
             \A d \in Services \X Hostnames :
                 domain'[d] \in {"verified", "active", "failed"} \/ check'[d] = "verified"
                     => d \in proved'
      PROVE  ProvedInv'
  BY <1>1 DEF ProvedInv, Legit
<1>2. CASE UpdateVisibility(s)
  BY <1>1, <1>2 DEF UpdateVisibility, hostVars, ProvedInv
<1>3. ASSUME NEW h \in Hostnames, CreateDomain(s, h) PROVE ProvedInv'
  <2>1. InitialStatus(s) \notin {"verified", "active", "failed"}
    BY DEF InitialStatus
  <2>2. domain' = [domain EXCEPT ![<<s, h>>] = InitialStatus(s)] /\ UNCHANGED <<check, proved>>
    BY <1>3 DEF CreateDomain, InsertDomain
  <2>3. \A d \in Services \X Hostnames :
            domain'[d] \in {"verified", "active", "failed"} => domain'[d] = domain[d]
    BY <2>1, <2>2 DEF TypeOK
  <2> QED
    BY <1>1, <1>3, <2>2, <2>3 DEF CreateDomain, hostVars, ProvedInv
<1>4. ASSUME NEW h \in Hostnames, VerifyDomain(s, h) PROVE ProvedInv'
  <2>1. PICK answer \in Answers(s) :
          /\ check' = [check EXCEPT ![<<s, h>>] = answer]
          /\ proved' = IF answer = "verified" THEN proved \cup {<<s, h>>} ELSE proved
    BY <1>4 DEF VerifyDomain
  <2>2. \A d \in Services \X Hostnames : check'[d] = "verified" =>
            check'[d] = check[d] \/ (d = <<s, h>> /\ answer = "verified")
    BY <2>1 DEF TypeOK
  <2> QED
    BY <1>1, <1>4, <2>1, <2>2 DEF VerifyDomain, hostVars, ProvedInv
<1>5. ASSUME NEW h \in Hostnames, UpdateVerification(s, h) PROVE ProvedInv'
  <2>1. \A d \in Services \X Hostnames :
            /\ check'[d] = "verified" => check'[d] = check[d]
            /\ domain'[d] = domain[d] \/ domain'[d] = check[d]
    BY <1>5 DEF UpdateVerification, TypeOK
  <2>2. \A d \in Services \X Hostnames : check[d] \notin {"active", "failed"}
    BY DEF TypeOK
  <2> QED
    BY <1>1, <1>5, <2>1, <2>2 DEF UpdateVerification, hostVars, ProvedInv
<1>6. ASSUME NEW h \in Hostnames, DeleteDomain(s, h) PROVE ProvedInv'
  <2>1. \A d \in Services \X Hostnames :
            /\ check'[d] = "verified" => check'[d] = check[d]
            /\ domain'[d] = domain[d] \/ domain'[d] = "none"
    BY <1>6 DEF DeleteDomain, DeleteDomainRow, TypeOK
  <2> QED
    BY <1>1, <1>6, <2>1 DEF DeleteDomain, hostVars, ProvedInv
<1> QED
  BY <1>2, <1>3, <1>4, <1>5, <1>6

LEMMA DeployKeepsProved ==
  ASSUME TypeOK, ProvedInv,
         \/ \E s \in Services : StartDeploy(s) \/ StartPrivateDeploy(s)
         \/ DeployDone \/ DeployFailed
  PROVE  ProvedInv'
<1>1. PICK r : loop' = [loop EXCEPT !["deploy"] = r] /\ r.over = {} /\ r.old = {}
  <2> DEFINE Fresh(r) == loop' = [loop EXCEPT !["deploy"] = r] /\ r.over = {} /\ r.old = {}
  <2>1. CASE DeployFailed
    <3>1. Fresh(Idle)
      BY <2>1 DEF DeployFailed, Idle
    <3> QED  BY <3>1
  <2>2. ASSUME NEW s, StartPrivateDeploy(s) \/ DeployDone PROVE \E r : Fresh(r)
    <3>1. Fresh([Idle EXCEPT !.pc = "list"])
      BY <2>2 DEF StartPrivateDeploy, DeployDone, Idle
    <3> QED  BY <3>1
  <2>3. ASSUME NEW s \in Services, StartDeploy(s) PROVE \E r : Fresh(r)
    <3>1. Fresh([Idle EXCEPT !.pc = "read", !.for = "deploy", !.svc = s,
                             !.new = s \notin running, !.seen = running'])
      BY <2>3 DEF StartDeploy, Idle
    <3> QED  BY <3>1
  <2> QED
    BY <2>1, <2>2, <2>3
<1>2. UNCHANGED <<domain, check, proved, file, loaded>>
  BY DEF StartDeploy, StartPrivateDeploy, DeployDone, DeployFailed, controlVars
<1>3. "deploy" \in Loops /\ loop'["deploy"] = r
      /\ \A m \in Loops : m # "deploy" => loop'[m] = loop[m]
  BY <1>1 DEF TypeOK, Loops
<1>4. Legit({})
  BY DEF Legit
<1> QED
  BY <1>1, <1>2, <1>3, <1>4, AgentKeepsProved DEF ProvedInv

LEMMA SyncKeepsProved ==
  ASSUME TypeOK, ProvedInv, NEW l \in Loops, SyncCustomRoutes(l)
  PROVE  ProvedInv'
<1>0. /\ loop[l] \in LoopState /\ loop[l].over \subseteq proved /\ Legit(loop[l].old)
      /\ Legit(file) /\ Legit(loaded)
  BY DEF TypeOK, ProvedInv
<1>1. Idle.over \subseteq proved /\ Legit(Idle.old)
  BY DEF Idle, Legit
<1>2. ASSUME NEW r, loop' = [loop EXCEPT ![l] = r], r.over \subseteq proved, Legit(r.old),
             UNCHANGED <<domain, check, proved>>, Legit(file'), Legit(loaded')
      PROVE  ProvedInv'
  <2>1. loop'[l] = r /\ \A m \in Loops : m # l => loop'[m] = loop[m]
    BY <1>2 DEF TypeOK
  <2> QED
    BY <1>2, <2>1, AgentKeepsProved
<1>3. ASSUME NEW ok \in BOOLEAN
      PROVE  Applied(l, ok).over \subseteq proved /\ Legit(Applied(l, ok).old)
  BY <1>0 DEF Applied, LoopState, Legit
<1>4. CASE ListManagedRoutes(l)
  <2> DEFINE r == IF running = {} THEN Idle ELSE [loop[l] EXCEPT !.pc = "ask", !.seen = running]
  <2>1. loop' = [loop EXCEPT ![l] = r] /\ UNCHANGED <<domain, check, proved, file, loaded>>
    BY <1>4 DEF ListManagedRoutes, TypeOK, controlVars
  <2>2. r.over \subseteq proved /\ Legit(r.old)
    BY <1>0, <1>1 DEF LoopState
  <2> HIDE DEF r
  <2> QED
    BY <1>0, <1>2, <2>1, <2>2
<1>5. CASE SyncRoutes(l)
  <2> DEFINE V == VerifiedDomainsForServices(loop[l].seen)
             r == [loop[l] EXCEPT !.pc = "read", !.over = V]
  <2>1. /\ loop' = [loop EXCEPT ![l] = r] \/ loop' = [loop EXCEPT ![l] = Idle]
        /\ UNCHANGED <<domain, check, proved, file, loaded>>
    BY <1>5 DEF SyncRoutes, TypeOK, controlVars
  <2>2. loop[l].seen \subseteq Services
    BY <1>0 DEF LoopState
  <2>3. V \subseteq proved
    BY <2>2 DEF VerifiedDomainsForServices, ProvedInv
  <2>4. r.over \subseteq proved /\ Legit(r.old)
    BY <1>0, <2>3 DEF LoopState
  <2> HIDE DEF r
  <2> QED
    BY <1>0, <1>1, <1>2, <2>1, <2>4
<1>6. CASE ReportRouteSync(l)
  <2>1. /\ loop' = [loop EXCEPT ![l] = Idle]
        /\ UNCHANGED <<check, proved, file, loaded>>
    BY <1>6 DEF ReportRouteSync
  <2>2. \A d \in Services \X Hostnames :
            domain'[d] = domain[d] \/ domain[d] \in {"verified", "active", "failed"}
    BY <1>6 DEF ReportRouteSync, MarkDomainsRouteSync, Reportable
  <2>3. loop'[l] = Idle /\ \A m \in Loops : m # l => loop'[m] = loop[m]
    BY <2>1 DEF TypeOK
  <2>4. \A d \in Services \X Hostnames :
            domain'[d] \in {"verified", "active", "failed"} \/ check'[d] = "verified"
                => d \in proved
    BY <2>1, <2>2 DEF ProvedInv
  <2> QED
    BY <1>1, <2>1, <2>3, <2>4 DEF ProvedInv, Legit
<1>7. ASSUME ApplyFails(l), UNCHANGED <<domain, check, proved>>, Legit(file'), Legit(loaded')
      PROVE  ProvedInv'
  BY <1>2, <1>3, <1>7 DEF ApplyFails
<1>8. CASE ReadExistingConfig(l)
  <2> DEFINE r == [loop[l] EXCEPT !.pc = "rename", !.old = file]
  <2>1. /\ loop' = [loop EXCEPT ![l] = r] \/ ApplyFails(l)
        /\ UNCHANGED <<domain, check, proved, file, loaded>>
    BY <1>8 DEF ReadExistingConfig, TypeOK, controlVars
  <2>2. r.over \subseteq proved /\ Legit(r.old)
    BY <1>0 DEF LoopState
  <2> HIDE DEF r
  <2> QED
    BY <1>0, <1>2, <1>7, <2>1, <2>2
<1>9. CASE Activate(l)
  <2> DEFINE r == [loop[l] EXCEPT !.pc = "reload"]
  <2>1. /\ loop' = [loop EXCEPT ![l] = r] \/ ApplyFails(l)
        /\ file' = Desired(l) \/ file' = file
        /\ UNCHANGED <<domain, check, proved, loaded>>
    BY <1>9 DEF Activate, TypeOK, controlVars
  <2>2. r.over \subseteq proved /\ Legit(r.old)
    BY <1>0 DEF LoopState
  <2>3. Legit(file') /\ Legit(loaded')
    BY <1>0, <2>1, DesiredLegit
  <2> HIDE DEF r
  <2> QED
    BY <1>2, <1>7, <2>1, <2>2, <2>3
<1>10. CASE Reload(l)
  BY <1>0, <1>2, <1>3, <1>10 DEF Reload, controlVars
<1>11. CASE ReloadFails(l)
  BY <1>0, <1>7, <1>11 DEF ReloadFails, controlVars
<1> QED
  BY <1>4, <1>5, <1>6, <1>8, <1>9, <1>10, <1>11 DEF SyncCustomRoutes

LEMMA ProvedStep ==
  ASSUME TypeOK, ProvedInv, [Next]_vars
  PROVE  ProvedInv'
<1>1. CASE UNCHANGED vars
  BY <1>1 DEF vars, controlVars, hostVars, ProvedInv, Legit
<1>2. CASE CaddyDies
  BY <1>2 DEF CaddyDies, ProvedInv, Legit, controlVars
<1>3. "sync" \in Loops /\ "deploy" \in Loops
  BY DEF Loops
<1> QED
  BY <1>1, <1>2, <1>3, ControlKeepsProved, DeployKeepsProved, SyncKeepsProved
     DEF Next, User, SyncLoop, DeployLoop

\* Neither the Caddyfile nor the configuration Caddy runs ever routes a hostname to a
\* service its DNS was not seen to point at, whatever the two loops' applies overwrite
\* or restore of one another's (SyncRoutes, MarkDomainsRouteSync, apply).
THEOREM OnlyProvedRouted == Spec => []OnlyProved
<1>1. Init => ProvedInv
  BY PlainLegit DEF Init, ProvedInv, Legit, Idle
<1>2. ProvedInv => OnlyProved
  BY DEF ProvedInv, Legit, OnlyProved
<1> QED
  BY <1>1, <1>2, InitialTypes, StepTypes, ProvedStep, PTL DEF Spec

=============================================================================
