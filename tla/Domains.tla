------------------------------ MODULE Domains ------------------------------
(***************************************************************************)
(* Custom domains of the services on one server: internal/domains in the   *)
(* control plane, SyncRoutes and ReportRouteSync, and the agent's side of  *)
(* them: syncCustomRoutes, run by two loops, and the Caddy manager they    *)
(* share without a lock.                                                   *)
(*                                                                         *)
(* A user attaches a hostname, points its DNS at the service's generated   *)
(* host and asks for a check.  The agent asks which hostnames to route,    *)
(* writes the Caddyfile, reloads Caddy and reports which became active.    *)
(* Every deploy writes a Caddyfile without any custom hostname first.      *)
(*                                                                         *)
(* An apply is three steps here (read the old file; validate and rename;   *)
(* reload, and restore the old file on failure), because another loop's    *)
(* apply may come between any two of them.                                 *)
(*                                                                         *)
(* The teardown loop's apply of plain routes, which touches the shared     *)
(* file as a deploy's does, and the death of the agent between the steps   *)
(* of an apply are left out.                                               *)
(***************************************************************************)
EXTENDS Naturals

CONSTANTS
    Services,    \* the services of one workspace that are deployed to the server
    InService,   \* those that run and are routed at the start
    Hostnames,   \* normalised hostnames
    MaxDeploys,  \* bound on deploys
    MaxFaults    \* bound on failed commands, lost calls and deaths of Caddy

Loops == {"deploy", "sync"}
Nobody == "nobody"
Generated == "generated-host"

ASSUME DomainsAssumption ==
    /\ InService \subseteq Services
    /\ Nobody \notin Services /\ Generated \notin Hostnames
    /\ MaxDeploys \in Nat /\ MaxFaults \in Nat

VARIABLES
    private,    \* services.visibility
    url,        \* services.route_url is set: never cleared
    domain,     \* domains.status for a service and a hostname, "none" without a row
    check,      \* the answer a VerifyDomain in flight is about to write
    running,    \* services with a public container on the server
    file,       \* the Caddyfile
    loaded,     \* the configuration that Caddy runs
    loop,       \* the deploy loop and the route-sync loop of the agent
    proved,     \* history: the hostnames that were seen to point at a service
    deploys, faults

controlVars == <<private, url, domain, check, proved>>
hostVars == <<running, file, loaded, loop>>
vars == <<controlVars, hostVars, deploys, faults>>

-----------------------------------------------------------------------------

DomainStatus == {"blocked", "pending_dns", "verified", "active", "failed"}

\* A configuration is the set of its sites: a service under its generated host or
\* under a hostname.
Site == Services \X (Hostnames \cup {Generated})
Plain(S) == {<<s, Generated>> : s \in S}

\* A loop: where it is, whether it works for syncCustomRoutes or for a deploy's own
\* apply, the service it deploys, what listManagedRoutes saw, the overrides it was
\* given, the configuration to apply, the old file that apply read and its outcome.
LoopState == [pc : {"idle", "list", "ask", "read", "rename", "reload", "applied"},
              for : {"sync", "deploy"}, svc : Services \cup {Nobody}, new : BOOLEAN,
              seen : SUBSET Services, over : SUBSET Site, old : SUBSET Site, ok : BOOLEAN]
Idle == [pc |-> "idle", for |-> "sync", svc |-> Nobody, new |-> FALSE,
         seen |-> {}, over |-> {}, old |-> {}, ok |-> TRUE]

TypeOK ==
    /\ private \in [Services -> BOOLEAN] /\ url \in [Services -> BOOLEAN]
    /\ domain \in [Services \X Hostnames -> DomainStatus \cup {"none"}]
    /\ check \in [Services \X Hostnames -> {"none", "blocked", "pending_dns", "verified"}]
    /\ running \in SUBSET Services
    /\ file \in SUBSET Site /\ loaded \in SUBSET Site
    /\ loop \in [Loops -> LoopState]
    /\ proved \in SUBSET (Services \X Hostnames)
    /\ deploys \in 0 .. MaxDeploys /\ faults \in 0 .. MaxFaults

Init ==
    /\ private = [s \in Services |-> FALSE] /\ url = [s \in Services |-> s \in InService]
    /\ domain = [d \in Services \X Hostnames |-> "none"]
    /\ check = [d \in Services \X Hostnames |-> "none"]
    /\ running = InService /\ file = Plain(InService) /\ loaded = Plain(InService)
    /\ loop = [l \in Loops |-> Idle]
    /\ proved = {}
    /\ deploys = 0 /\ faults = 0

Fault == faults < MaxFaults /\ faults' = faults + 1

-----------------------------------------------------------------------------
(* internal/domains *)

\* ServiceRoute: the service is public and has a generated host.
Routable(s) == ~private[s] /\ url[s]

\* Mutant: a status that the table's CHECK does not allow.
MutantInitialStatus(s) == IF Routable(s) THEN "unverified" ELSE "blocked"

InitialStatus(s) == IF Routable(s) THEN "pending_dns" ELSE "blocked"

\* UNIQUE (workspace_id, hostname).
Unattached(h) == \A t \in Services : domain[<<t, h>>] = "none"

InsertDomain(s, h, st) == Unattached(h) /\ domain' = [domain EXCEPT ![<<s, h>>] = st]

CreateDomain(s, h) ==
    /\ InsertDomain(s, h, InitialStatus(s))
    /\ UNCHANGED <<private, url, check, proved, hostVars, deploys, faults>>

\* The DNS lookups of the hostname and of the generated host: whether one points at the
\* other is up to the hostname's owner.
LookUp == {"verified", "pending_dns"}

\* verify.
Answers(s) == IF Routable(s) THEN LookUp ELSE {"blocked"}

\* VerifyDomain up to its transaction.
VerifyDomain(s, h) ==
    /\ domain[<<s, h>>] # "none" /\ check[<<s, h>>] = "none"
    /\ \E answer \in Answers(s) :
           /\ check' = [check EXCEPT ![<<s, h>>] = answer]
           /\ proved' = IF answer = "verified" THEN proved \cup {<<s, h>>} ELSE proved
    /\ UNCHANGED <<private, url, domain, hostVars, deploys, faults>>

\* Its transaction: UpdateDomainVerification writes the answer over any status.
UpdateVerification(s, h) ==
    /\ check[<<s, h>>] # "none"
    /\ domain' = [domain EXCEPT ![<<s, h>>] = check[<<s, h>>]]
    /\ check' = [check EXCEPT ![<<s, h>>] = "none"]
    /\ UNCHANGED <<private, url, proved, hostVars, deploys, faults>>

DeleteDomainRow(s, h) == domain' = [domain EXCEPT ![<<s, h>>] = "none"]

\* DeleteDomain: a verification in flight finds no row.
DeleteDomain(s, h) ==
    /\ domain[<<s, h>>] # "none"
    /\ DeleteDomainRow(s, h)
    /\ check' = [check EXCEPT ![<<s, h>>] = "none"]
    /\ UNCHANGED <<private, url, proved, hostVars, deploys, faults>>

UpdateServiceVisibility(s) == private' = [private EXCEPT ![s] = ~@]

\* UpdateVisibility of the service: what runs stays as it is until the next deploy.
UpdateVisibility(s) ==
    /\ UpdateServiceVisibility(s)
    /\ UNCHANGED <<url, domain, check, proved, hostVars, deploys, faults>>

-----------------------------------------------------------------------------
(* The agent: a deploy's own routes *)

\* executeDeployment has a healthy container of a public service: it is listed from
\* now on, and the plain routes of every service are applied.
StartDeploy(s) ==
    /\ loop["deploy"].pc = "idle" /\ ~private[s]
    /\ deploys < MaxDeploys
    /\ deploys' = deploys + 1
    /\ running' = running \cup {s}
    /\ loop' = [loop EXCEPT !["deploy"] =
                  [Idle EXCEPT !.pc = "read", !.for = "deploy", !.svc = s,
                               !.new = s \notin running, !.seen = running']]
    /\ UNCHANGED <<controlVars, file, loaded, faults>>

\* The deploy of a service that is private by now: no health check, no route; the
\* previous container is removed and the routes are synced.
StartPrivateDeploy(s) ==
    /\ loop["deploy"].pc = "idle" /\ private[s]
    /\ deploys < MaxDeploys
    /\ deploys' = deploys + 1
    /\ running' = running \ {s}
    /\ loop' = [loop EXCEPT !["deploy"] = [Idle EXCEPT !.pc = "list"]]
    /\ UNCHANGED <<controlVars, file, loaded, faults>>

UpdateServiceRouteURL(s) == url' = [url EXCEPT ![s] = TRUE]

\* The report of status running, with the route's URL (or it is lost); then
\* syncCustomRoutes.
DeployDone ==
    /\ loop["deploy"].pc = "applied" /\ loop["deploy"].for = "deploy" /\ loop["deploy"].ok
    /\ \/ UpdateServiceRouteURL(loop["deploy"].svc) /\ UNCHANGED faults
       \/ Fault /\ UNCHANGED url
    /\ loop' = [loop EXCEPT !["deploy"] = [Idle EXCEPT !.pc = "list"]]
    /\ UNCHANGED <<private, domain, check, proved, running, file, loaded, deploys>>

\* cleanupFailedContainer; a previous container of the service goes on running.
DeployFailed ==
    /\ loop["deploy"].pc = "applied" /\ loop["deploy"].for = "deploy" /\ ~loop["deploy"].ok
    /\ running' = IF loop["deploy"].new THEN running \ {loop["deploy"].svc} ELSE running
    /\ loop' = [loop EXCEPT !["deploy"] = Idle]
    /\ UNCHANGED <<controlVars, file, loaded, deploys, faults>>

-----------------------------------------------------------------------------
(* The agent: syncCustomRoutes *)

\* listManagedRoutes, after a deploy or at a tick of routeSyncLoop; there is nothing to
\* do when nothing public runs.
ListManagedRoutes(l) ==
    /\ loop[l].pc = "list" \/ (l = "sync" /\ loop[l].pc = "idle" /\ running # {})
    /\ loop' = [loop EXCEPT ![l] = IF running = {} THEN Idle
                                   ELSE [@ EXCEPT !.pc = "ask", !.seen = running]]
    /\ UNCHANGED <<controlVars, running, file, loaded, deploys, faults>>

\* Mutant: a hostname that is active already is not listed again.
MutantVerifiedDomains(S) == {d \in S \X Hostnames : domain[d] = "verified"}

\* Mutant: hostnames whose DNS was not seen yet are listed too.
MutantPendingDomains(S) ==
    {d \in S \X Hostnames : domain[d] \in {"pending_dns", "verified", "active"}}

\* VerifiedDomainsForServices, one query.
VerifiedDomainsForServices(S) ==
    {d \in S \X Hostnames : domain[d] \in {"verified", "active"}}

\* SyncRoutes: the overrides, or an error and no apply.
SyncRoutes(l) ==
    /\ loop[l].pc = "ask"
    /\ \/ /\ loop' = [loop EXCEPT ![l].pc = "read",
                                  ![l].over = VerifiedDomainsForServices(loop[l].seen)]
          /\ UNCHANGED faults
       \/ loop' = [loop EXCEPT ![l] = Idle] /\ Fault
    /\ UNCHANGED <<controlVars, running, file, loaded, deploys>>

\* Mutant: a row that was just verified is left for the next check.
MutantReportable(d) == domain[d] \in {"active", "failed"}

\* MarkDomainsRouteSync's WHERE clause.
Reportable(d) == domain[d] \in {"verified", "active", "failed"}

MarkDomainsRouteSync(D, st) ==
    domain' = [d \in Services \X Hostnames |->
                 IF d \in D /\ Reportable(d) THEN st ELSE domain[d]]

\* ReportRouteSync of what syncCustomRoutes applied, if it had any override; the call
\* may be lost.
ReportRouteSync(l) ==
    /\ loop[l].pc = "applied" /\ loop[l].for = "sync"
    /\ loop' = [loop EXCEPT ![l] = Idle]
    /\ \/ /\ MarkDomainsRouteSync(loop[l].over, IF loop[l].ok THEN "active" ELSE "failed")
          /\ UNCHANGED faults
       \/ loop[l].over # {} /\ Fault /\ UNCHANGED domain
    /\ UNCHANGED <<private, url, check, proved, running, file, loaded, deploys>>

-----------------------------------------------------------------------------
(* The Caddy manager *)

Desired(l) == Plain(loop[l].seen) \cup loop[l].over

\* normalizeRoutes refuses a hostname of two services.
Renders(config) == \A a, b \in config : a[2] = b[2] /\ a[2] # Generated => a = b

Applied(l, ok) == [loop[l] EXCEPT !.pc = "applied", !.ok = ok, !.seen = {}, !.old = {}]
ApplyFails(l) == loop' = [loop EXCEPT ![l] = Applied(l, FALSE)]

\* render and readExistingConfig.
ReadExistingConfig(l) ==
    /\ loop[l].pc = "read"
    /\ IF Renders(Desired(l))
       THEN loop' = [loop EXCEPT ![l].pc = "rename", ![l].old = file]
       ELSE ApplyFails(l)
    /\ UNCHANGED <<controlVars, running, file, loaded, deploys, faults>>

\* Write a temporary file, have Caddy validate it, rename it over the Caddyfile.
Activate(l) ==
    /\ loop[l].pc = "rename"
    /\ \/ /\ file' = Desired(l)
          /\ loop' = [loop EXCEPT ![l].pc = "reload"]
          /\ UNCHANGED faults
       \/ ApplyFails(l) /\ Fault /\ UNCHANGED file
    /\ UNCHANGED <<controlVars, running, loaded, deploys>>

\* Reload Caddy, or start it, from the file there is now, perhaps another loop's.
Reload(l) ==
    /\ loop[l].pc = "reload"
    /\ loaded' = file
    /\ loop' = [loop EXCEPT ![l] = Applied(l, TRUE)]
    /\ UNCHANGED <<controlVars, running, file, deploys, faults>>

\* Neither works: restoreConfig puts back the file that this apply read.
ReloadFails(l) ==
    /\ loop[l].pc = "reload"
    /\ Fault
    /\ file' = loop[l].old
    /\ ApplyFails(l)
    /\ UNCHANGED <<controlVars, running, loaded, deploys>>

CaddyDies ==
    /\ loaded # {}
    /\ loaded' = {}
    /\ Fault
    /\ UNCHANGED <<controlVars, running, file, loop, deploys>>

-----------------------------------------------------------------------------

SyncCustomRoutes(l) ==
    \/ ListManagedRoutes(l) \/ SyncRoutes(l) \/ ReportRouteSync(l)
    \/ ReadExistingConfig(l) \/ Activate(l) \/ Reload(l) \/ ReloadFails(l)
SyncLoop == SyncCustomRoutes("sync")
DeployLoop == SyncCustomRoutes("deploy") \/ DeployDone \/ DeployFailed

User ==
    \E s \in Services :
        \/ UpdateVisibility(s) \/ StartDeploy(s) \/ StartPrivateDeploy(s)
        \/ \E h \in Hostnames : CreateDomain(s, h) \/ VerifyDomain(s, h)
                                \/ UpdateVerification(s, h) \/ DeleteDomain(s, h)

Next ==
    \/ User
    \/ SyncLoop \/ DeployLoop
    \/ CaddyDies

Spec == Init /\ [][Next]_vars

\* The loops run for ever, and each of their calls and commands is assumed to return: the
\* Caddy commands have timeouts, the RPCs (http.DefaultClient) and Docker's have none.  The
\* faults, which are bounded, cease.
FairSpec == Spec /\ WF_vars(SyncLoop) /\ WF_vars(DeployLoop)

-----------------------------------------------------------------------------
(* Properties *)

\* A hostname is routed to a service only once its DNS was seen to point at that
\* service, whatever is deleted, attached to another service or checked again while an
\* apply is under way.
OnlyProved == \A site \in file \cup loaded : site[2] = Generated \/ site \in proved

\* A hostname that is due (verified or active, for a service that runs) is routed in
\* the end: also after a deploy that wrote plain routes, a Caddy that died, and applies
\* of two loops that overtook one another.  A failed apply takes it off the list.
Due(s, h) == domain[<<s, h>>] \in {"verified", "active"} /\ s \in running
RoutesRecover ==
    \A s \in Services, h \in Hostnames :
        Due(s, h) ~> (<<s, h>> \in loaded \/ ~Due(s, h))

\* A verified hostname of a running service is reported on: it does not wait for an
\* agent that skips it.
VerifiedSettles ==
    \A s \in Services, h \in Hostnames :
        (domain[<<s, h>>] = "verified" /\ s \in running)
            ~> (domain[<<s, h>>] # "verified" \/ s \notin running)

\* What the report that makes a hostname active says: "Domain is routed to this
\* service."  Caddy need not have loaded it: another loop's Caddyfile may have been in
\* place when this loop reloaded Caddy.
ActiveIsRouted ==
    [][\A d \in Services \X Hostnames :
           domain[d] # "active" /\ domain'[d] = "active" => d \in loaded]_vars
=============================================================================
