# Plorigo: TLA+ models, model checks and proofs

Plorigo is a self-hosted deployment platform. A *control plane* (Go, PostgreSQL, Connect RPC)
holds what users asked for; an *agent* on every server polls it for work, drives the local Docker
daemon and a local Caddy, and reports back. This directory models that system in TLA+, checks the
models on small instances with TLC and proves their main invariants for all instances with TLAPS.

## 1. Inventory

| Part (source) | State it keeps | Operations | Correct when |
|---|---|---|---|
| **deployments** (`internal/deployments`, `db/query/deployments.sql`) | `deployments`, `teardown_jobs`, `services.route_url` | create, preview, rollback, teardown, expiry sweep; poll (claim), report, route sync | rows stay in their tenant; previews and production never retire each other; every row settles |
| **agent loops** (`internal/agentcore`) | one job per loop, in memory | `executeDeployment`, `syncCustomRoutes`, `runtimeLogLoop`, `executeTeardown` | a release never goes dark; only what is obsolete is removed; nothing is started twice |
| **Docker runtime** (`agentcore/docker.go`) | containers, labels, networks | run, list, stop and remove | containers are found by route key, never by guess |
| **Caddy manager** (`agentcore/caddy.go`) | the live configuration | render, validate, reload or start, restore | every live route leads to a live, checked container |
| **agents, servers** (`internal/agents`, `internal/servers`, `agentcore/agentcore.go`) | registration tokens, agent rows with their credential and facts; the identity on disk and in memory | create token, register, heartbeat, self-heal; create and delete a server | a token makes one identity; a server answers to one machine and shows that machine's facts |
| **serversetup** (`internal/serversetup`) | setup runs, the pinned host key, SSH management keys | start a run, its steps over SSH, provision, rotate, revoke | a machine trusts the key stored for its server; a run ends |
| **backups** (`internal/backups`, `agentcore/backup.go`) | backup and restore jobs, artifacts | create, claim, dump, verify, restore | a succeeded backup has its artifact; a restore goes where its artifact is |
| **domains** (`internal/domains`, `SyncRoutes`, `agentcore/caddy.go`) | hostnames and their status; Caddy's file and what it has loaded | create, verify, delete, list, apply, report | only proved hostnames are routed; a verified one is routed and reported on |
| **auth, membership, policy** (`internal/auth`, `internal/projects`, `internal/policy`) | users, sessions, API tokens, mailed links, workspaces, members | register, login, reset, verify, tokens; invite, change role, remove | one bootstrap user; no workspace without an owner; nobody comes back into one uninvited |
| **sources, githubapp, services, webhooks** (`internal/sources`, `internal/githubapp`, `internal/services`, `internal/webhooks`, `internal/app`) | connections, the App's credentials and their cache, services | handshakes with GitHub, create and repoint services, disconnect, receive deliveries | a connection stays with its workspace and its services; the cache follows the row |
| **config, environments, audit, readiness, builder, platform, CLI, dashboard** | CRUD tables, logs, text, UI | create, update, delete | single transactions, pure functions |

*How they interact.* The dashboard, the webhook and the expiry sweep insert rows. Each agent loop
polls (`SELECT ... FOR UPDATE SKIP LOCKED`, then `assigned`), works, and reports by RPC; a report is
written whatever the row's status was. The deploy, sync and teardown loops of an agent share Docker
and Caddy without a lock; they only meet through container labels (`plorigo.service` = route key).
A request of the dashboard reads (authorizes, looks up, asks GitHub or DNS) and then writes in one
transaction: two requests interleave between the two. A setup run is a goroutine of the control
plane; the agent it installs registers with the run's token on its own.

*What is hard.* Four loops of one agent interleave between any two Docker, Caddy or RPC operations;
lists of containers are read, then used after others changed them; reports of three loops about one
row arrive in any order; RPCs are lost after they took effect; the agent dies anywhere and nothing
is reconciled when it comes back. `PROJECT.json` lists each such hazard at its line.

## 2. Modules

| Module | Models | Extends |
|---|---|---|
| `Deployments` | the control plane's tables and transactions, with *arbitrary* agents: any reportable status, any order | |
| `DeployEngine` | `Deployments` composed with the four loops of each server's agent, Docker, Caddy and faults | `Deployments` |
| `DeploymentsProofs` | theorems about `Deployments` | `Deployments`, `TLAPS` |
| `DeployEngineProofs` | theorems about `DeployEngine` | `DeployEngine`, `DeploymentsProofs` |
| `Backups` | the backup and restore job tables, the backup loop of each host's agent, artifacts, and which host holds which server | |
| `JobQueue` | what a job table promises: the abstract specification that `Backups` implements twice | |
| `BackupsProofs` | theorems about `Backups` | `Backups`, `TLAPS` |
| `Agents` | servers, registration tokens, agent rows, and the agent process of each machine | |
| `ServerSetup` | setup runs and SSH keys, composed with `Agents` | `Agents` |
| `ServerSetupProofs` | theorems about `Agents` and `ServerSetup` | `ServerSetup`, `TLAPS` |
| `Domains` | hostnames, their verification, and the two loops that write Caddy's configuration, step by step | |
| `DomainsProofs` | theorems about `Domains` | `Domains`, `TLAPS` |
| `Access` | accounts, sessions, links, workspaces, members, permissions | |
| `AccessProofs` | theorems about `Access` | `Access`, `TLAPS` |
| `Integrations` | the GitHub App and its cache, connections, services, webhook deliveries | |
| `IntegrationsProofs` | theorems about `Integrations` | `Integrations`, `TLAPS` |
| `MC...` | instances for TLC | |

### Deployments
An action is one transaction (or one statement). `status` and `row` are the mutable and immutable
columns of `deployments`; `tstatus` and `trow` those of `teardown_jobs`; `clock` stands for
`created_at`. A row's `key` is its route key: the service id for production, the service id with the
slug of a branch or pull request for a preview, so two refs may share a key as `slugifyRef` allows.
`serviceURL` is `services.route_url`: a URL is the route key and the server of the agent that
computes it (`routeURL`, the key's host under the agent's base domain), and the gateway stores what an
agent reports without looking at it, for production rows only. `sweep` is the list an expiry sweep
works through, one transaction per preview. A webhook preview takes the server of some earlier row of
the service: the code reads the latest one, calls GitHub and uses it afterwards.
Authentication and authorization, events, audit rows, ports, image references, basic auth and all
read-only queries are left out. The agent's server is what `resolveAgent` derives from its
credential.

### DeployEngine
An action is one RPC, one Docker operation or one Caddy apply. `dl`, `sl`, `tl` and `log` are the
program counters and local variables of the loops; `found` holds a container listing between the call
that read it and the step that uses it. `docker[d]` is the container of deployment `d`, `caddy[s]` the
deployments that the live configuration routes to (one per route key: `normalizeRoutes` and its uuid
tie-break; for a service with a verified domain the container listed last, which may be any).
`released` is a history variable: the deployments that reached the traffic switch (or, for a private
service, started). `Fault` counts lost RPCs and answers, refused removals, crashes and the failed
applies of a route sync up to `MaxFaults`; errors that a deploy or a teardown reports (a failed pull,
build, start, probe, listing or apply) are not counted and may happen at any time. A sync's apply is
counted because nothing reports it per route: routes can converge only once applies succeed. A refused
removal comes after the stop, so it leaves the container up, or stopped but still listed. Containers do not stop by themselves (their restart policy
brings them back). Not in this model: networks, hostnames of a route and the steps inside an apply
(module `Domains`), registration (module `Agents`), and the backup loop (module `Backups`).

### Backups
`bstatus`, `brow` and `uri` are the columns of `backups`, `rstatus` and `rrow` those of `restore_jobs`.
`loop[h]` is the program counter, the job and the container of `backupLoop` on host `h`: two polls, the
steps of `executeBackup` (find the container and create the file, `pg_dump`, verify) and of
`executeRestore` (find the container and open the file, `psql`). A step includes the report that ends
it; a report is written, refused (the agent's identity no longer names the job's server) or lost, and
the agent goes on in each case. Hosts and servers are kept apart: artifacts and containers are on a
host, jobs name a server, and `ident` says which server a host's credential names. Installing an agent
again or its self-heal moves a server to another host, with the loops of the old one still running.
A database is the set of objects in it, each tagged with the service that wrote it. A dump is plain SQL
without `--clean`, so a restore stops at the first object that exists and keeps what it ran before.
Deployments appear only as containers that start empty, are reported running and stop, any of which
`findRunningByService` may list first. `landed` is a history variable: where `psql` completed a restore,
and with what. `MaxFaults` bounds lost calls, crashes, disk errors and registrations together. Deleting
a service (which deletes its jobs) is not in the model, and neither are authorization, labels, sizes
and checksums (a file is whole or not).

### Agents and ServerSetup
`server`, `token` and `agent` are rows; `disk[h]` is `agent.json` on machine `h`, `unit[h]` the token in its
systemd unit, `proc[h]` the process: loading, registering, saving, heartbeating, registering again. A
credential is a number, never used twice. `Register` (consume the token, upsert the agent) is one
transaction; its answer may be lost, which spends the token. `agent.json` is truncated and written in
place: `torn` holds the machines on which that stopped half way, whose agent no longer starts.
`InstallAgent` is `install_service` of `scripts/install-agent.sh`: it rewrites the unit, and `enable --now`
starts the agent only if it is down. The facts of a heartbeat are reduced to
the machine they describe, so the model can tell whose readiness the dashboard shows. Deleting a server
cascades to its tokens, agent, key and runs. `redeemed` is a history variable.

In `ServerSetup` `run[r]` is the goroutine of `runSetup` (dial and pin the host key, check, mint a token,
install, provision, authorize, await the agent), `mkey` the stored management key, `authKey[h]` the key
machine `h` trusts. Three history variables: `stored`, every key whose private half was ever committed;
`overtaken`, the runs whose key another run has replaced in the table or on the machine; and
`rotated`, those whose key a rotation has replaced. The writes whose errors the goroutine only
logs or drops (the run's status, reading and writing the pinned host key) may fail, as faults. Commands
succeed or fail; the commands themselves are left out. A restart of the control plane ends every run's
goroutine and leaves its row.

### Domains
A route is a pair of a service and a hostname (or the generated one). `file` is the Caddyfile and `loaded`
what Caddy runs; an apply reads the old file, renames the new one into place, and reloads, each a step
of its loop, and restores the old file when the reload fails. The deploy loop applies plain routes and
then syncs as the sync loop does: list the containers, ask for the hostnames, apply, report. `check` is
a verification between its DNS lookups and its transaction, whose answer is free; `proved` (history)
the pairs whose DNS was seen to match. What the deploy loop does before its apply is in `DeployEngine`;
here a deploy is the switch to a new set of running services. Not in this model: the teardown loop's
apply, which writes plain routes as a deploy's does, and a death of the agent within an apply.

### Access
`call` holds the requests in flight, from their last read to their transaction; requests that read and
write without a gap that matters are one action. Passwords are left out: a login of an account may
succeed at any time. `cred` are sessions and API tokens. The two registration switches are chosen in
the initial state. A link ends by use or by expiry, which the model keeps apart. Only the
member actions of the permission matrix are in `Permissions`.

### Integrations
One provider, one browser, one account with one installation of each App; an installation's tokens are
minted with its own App's credentials only. A workspace holds one App connection of the account
(`source_connections_account_key`), so that the connection of an earlier App bars the new App's until
it is disconnected. `page[n]` is the handshake with nonce `n`
at GitHub, `cookie[f]` the sealed state of each kind of handshake in the browser. `cached` and `lookup`
split `Current` where it leaves its mutex; `clearing` is the gap between a registration's commit and
`clearCache`. `request` and `leaving` are a service write and a disconnect after their reads; the foreign
keys refuse what the reads could not see. What a delivery does to previews is in `Deployments`.

## 3. Runs

All engine runs use one server: agents of different servers share only the control plane, whose rows
they reach by server id. `CHECK_DEADLOCK FALSE` is set there because an idle agent only polls.

| Run | Bounds | Checks |
|---|---|---|
| `MCDeployments` | 2 workspaces, 2 services, 2 servers, 2 refs with one slug, 2 deployments, 1 teardown | `TypeOK`, `TenantIsolation`, `KeyDiscipline`, `URLTracksProduction`, `PreviewIsolation` |
| `EngineProduction` | a public service with a domain and a private one, 2 deployments, 2 faults | `EngineTypeOK`, `NeverDark`, `RunOnce`, `RemovalJustified`, `DeploymentsSettle`, `RoutesConverge` |
| `EnginePreviews` | 1 git service, 1 pull request, 2 deployments, 1 teardown, no faults | `RemovalJustified` |
| `EngineTeardowns` | 1 deployment, 2 teardowns, 1 fault | `Spec` (refinement), `TeardownsSettle`, `PreviewsExpire` |
| `MCBackups` | 2 databases, 1 server, 2 hosts (the second unregistered), 2 containers, 2 backups, 1 restore, 1 fault | `TypeOK`, `ArtifactKept`, `RestoreTruthful`, `OwnDataOnly`, `OutcomeStable`, `JobsSettle`, `ImplementsQueues` (refinement) |
| `MCServerSetup` | 2 servers, 2 machines (one registered), 1 token, 1 setup run, 1 rotation, 1 fault | `TypeOK`, `OneIdentity`, `ReadinessIsOwn`, `KeysAgree`, `SelfHeals`, `SetupSettles` |
| `MCDomains` | 1 service, 1 hostname, 2 deploys, 1 fault | `TypeOK`, `OnlyProved`, `RoutesRecover`, `VerifiedSettles` |
| `MCAccess` | 2 people, 2 workspaces, 2 credentials, 1 link, 2 requests in flight | `TypeOK`, `OneBootstrap`, `AlwaysOwned`, `NoWayBack` |
| `MCIntegrations` | 2 workspaces, 1 service, 3 handshakes, 2 Apps, 2 connections | `TypeOK`, `ConnectsWhereBegun`, `ConnectionsStay`, `FreshUnlessOverlapped` |

Why the bounds are enough: every property speaks of two deployments of one key (or of a preview and a
production deployment) and at most one teardown between them; two deployments give every pair of
statuses, the order of uuids is independent of the order of creation, and two faults allow a lost
report followed by a crash. All the safety properties are proved for every size (section 4); the bounds
matter to the liveness properties.

For backups two jobs give contention between the queues, two containers a redeploy or two databases side
by side, and one fault each of a lost report, a crash, a disk error and a server that moves to another
host in the middle of a job; `BackupsProofs` covers combinations of faults.

For the others: one token and one run suffice for a second machine to take a server over in the middle
of a run (`KeysAgree` also holds with two runs and two tokens on one machine, without faults); two deploys let the deploy loop
overtake a sync twice; two people and two requests give every pair of a check and a write; three
handshakes let a registration and two connects overlap. The proof modules cover every size.
`CHECK_DEADLOCK FALSE` is set where the bounded ids run out and the system may rest.

What they show:

* `TenantIsolation`, `KeyDiscipline`, `PreviewIsolation`, `URLTracksProduction`: whatever agents
  report and users request, no row leaves its workspace, no preview retires production, production
  is never torn down, and a service's URL is that of its own route key, never a preview's.
* `NeverDark`: once a production service has a release, some released container of it is up, through
  redeploys, failed deploys, lost reports, crashes and preview teardowns.
* `RemovalJustified`: a container is removed only by its own failed deploy, by a newer released
  deployment of its key, or by a teardown of its preview. It rests on the claim order (oldest first).
* `RunOnce`: no deployment is started twice.
* `DeploymentsSettle`, `TeardownsSettle` (without faults), `RoutesConverge` (with them): the liveness
  of the loops. Fairness is weak fairness of each server's deploy, sync and teardown loop: each is a
  goroutine in an infinite loop. That its calls return is an assumption: health probes and Caddy's
  commands have timeouts, the RPCs (`http.DefaultClient`) and Docker's pull, build and clone have none,
  so one that hangs stops its loop. Nothing is assumed of users, webhooks, sweeps or containers that
  print lines.

* `ArtifactKept`, `RestoreTruthful`: what is reported as succeeded did happen: some host has the whole
  dump, and a restore's whole dump was run in a container of its own service.
* `OwnDataOnly`: one service's data never reaches another's database or artifact.
* `OutcomeStable`, `JobsSettle`: a job that ended is not touched again; without faults every job ends,
  and under faults every queued job is still claimed while its server has an agent. Fairness is weak
  fairness of each host's loop, whose calls are again assumed to return.

* `ImplementsQueues`: each job table is a `JobQueue`: no row is handed out twice, and no agent is handed
  a younger row before an older one of its server.
* `PreviewsExpire`: a running preview is ended by the sweep, also one created after its pull request was
  closed, and one whose earlier teardowns failed or were lost (while there are job ids left). Fairness
  is weak fairness of a sweep that lists the preview and strong fairness of its enqueueing it: the
  sweep is a ticker, and a failed enqueue is tried again by the next one.
* `OneIdentity`, `ReadinessIsOwn`, `SelfHeals`: no two machines hold credentials that name one server, the
  dashboard shows the facts of the machine registered now, and a rejected agent with a good token gets
  a new identity. Weak fairness of each machine's agent (systemd restarts it).
* `KeysAgree`: after a run that succeeded, the machine trusts the key that is stored for its server, until a
  later run, a rotation or a deletion; and no key reaches a machine before its private half was
  committed. A server deleted, or a key rotated, between the commit and the install leaves a key on
  the machine that no row holds any more: the property excepts these, and two overlapping runs as far
  as one overtakes the other.
* `SetupSettles`: a run ends unless the control plane restarts or the write of its end fails. Weak fairness
  of each run's goroutine, whose steps end with `setupTimeout`.
* `OnlyProved`, `RoutesRecover`, `VerifiedSettles`: applies of two loops overtake one another, Caddy dies,
  deploys drop the hostnames: only hostnames whose DNS was seen are ever routed, and a due one is
  routed again. Weak fairness of the two loops, whose calls are assumed to return.
* `OneBootstrap`, `AlwaysOwned`, `NoWayBack`: hold through every overlap of two requests; in particular a role
  change that was checked before its target was removed does not bring the target back.
* `ConnectsWhereBegun`, `ConnectionsStay`, `FreshUnlessOverlapped`: overlapping handshakes connect nothing
  to the wrong workspace; a disconnect never strands a service; the cached credentials are those stored.

### Divergences

Three runs are expected to fail: each checks a sentence of the repository that the code does not keep.

| Run | Sentence | What happens |
|---|---|---|
| `DocHealthCheck` | "A public service must answer on its published host port before we route to it" (`deploy.go`) | the sync loop routes to a container that was only just started |
| `DocDomainRouted` | "Domain is routed to this service." (`deploy.go`, `service.go`) | the deploy loop renames its Caddyfile between the sync loop's rename and reload; the reload succeeds without the hostname, and the hostname is reported active |
| `DocOwnership` | "ownership only **accumulates**: an owner can't be demoted, removed" (`docs/architecture/auth.md`) | the owner check is read, the member is promoted, and the older role change or removal is written |

Observed with the engine, without a run of their own: a log report for an old container makes its
superseded row `running` again, so "current" is ambiguous (`deployments.sql`); a claim whose answer is lost
stays `assigned` for ever; a preview whose container starts after a teardown listed the containers ends
`torndown` with a live container; a rollback accepts a preview as its target and supersedes production
with it (`deployments.proto` says a preview "never supersedes production").
Also: a private service's redeploys never
supersede (its reports carry no host port); a log line makes a deployment `running` before it is
routed; a deploy that fails at the traffic switch leaves its URL on the service; a report overwrites
`torndown`; and a stale route list applied after a teardown restores the removed route, which stays if
nothing public is left on the server, since `syncCustomRoutes` then returns before its apply.

Of backups: a restore that fails half way stays half applied (`psql` runs without a transaction, though
`docs/architecture/backups.md` says it fails "instead of half-applying"), and one into a database that
still has its tables always fails; a failed verification leaves its file, though `executeBackup`
says the partial artifact is removed; during a redeploy the dump may be of the new, empty container; and
a restore goes to the server checked at the request, where the database may no longer be.

Of agents and setup: a lost registration answer spends the token; two setup runs of one server at once can
leave the machine with a key that is not the stored one, and two first runs to different machines
overwrite the pin; `Rotate` changes the stored key and never connects to the machine, which goes on
trusting the old key only (the dashboard says it "installs it on the server, and removes the old one",
`docs/architecture/server-management.md` that it may "never strand the server"); the pin survives `Revoke`,
though `connectReason` advises to "revoke its access and retry to re-pin"; a run may see the agent of the
server's old machine online; a restart of the control plane, or a failed write of the run's end, leaves a
run `running`; a pin that cannot be read counts as none, so that the run accepts any host key and pins
it. A torn `agent.json` keeps an agent from starting, and installing it again does not help. The
header of `install-agent.sh` says that re-running it "rewrites the unit so a fresh token takes effect";
it does not restart an agent that runs, so the token takes effect at the next restart only.

Of domains: a hostname stays `active` after its service was made private and redeployed; one failed apply marks the
hostnames `failed`, and they are not listed again until somebody verifies them; `route_url` is never
cleared.

Of accounts: two requests may look one reset link up before either consumes it, and then both set a
password, though `docs/architecture/auth.md` calls the links "single-use"; a login that checked the old password may insert its session after the reset has revoked all
sessions (read from the code; passwords are not in the model); with mandatory verification a lost mail locks the account
out, since asking for another needs a session.

Of integrations: a lookup that overlaps a registration caches the old credentials until the next
restart, so that deliveries of the new App are refused, though `github_webhook.go` says its secret
"verifies without a restart"; a disconnect that the foreign key refuses has already revoked the token;
installing the App again moves its connection to another workspace; after a new App was registered its
installation cannot be connected where the old App's connection remains; a database, created "Always
PRIVATE", can be made public; deleting a service leaves its container and route.

## 4. Proofs

For any finite or infinite sets of services, servers, deployments and jobs, under
`ConstantsAssumption` (deployment ids are positive numbers, `NoServer` is no server),
`SuffixAssumption` (a preview's slug is not empty) and `EngineAssumption`:

* `TypeCorrect`: `Spec => []TypeOK`.
* `TenantsIsolated`, `KeysDisciplined`: from the inductive invariant `Isolation` (every row and job is
  well keyed and on its workspace's server, the sweep holds previews only). The properties are not
  inductive alone: a teardown job's server is that of a row, and a webhook preview's that of an older
  row, so tenancy needs the keys, the keys need the kinds, and both need that rows never change
  (`RowsKept`).
* `PreviewsIsolated`: the action property, from `Isolation` and `SameKeySameKind` (two rows of one key
  have one kind and one service).
* `ServiceURLTracksProduction`: from `Isolation` (a production row's key is its service's) and `RowsKept`.
* `EngineTypeCorrect`: `EngineSpec => []EngineTypeOK`. Its last conjuncts (a loop holds a job exactly
  while it is busy) are what makes every report a report about a row.
* `EngineImplementsControlPlane`: `EngineSpec => Spec`, under the identity mapping: every step of every
  loop, and every fault, is a step of the open-world control plane or leaves its tables alone.
* `EngineIsolated`: hence the isolation results hold of the engine.
* `DeploymentsRunOnce`, `RemovalsJustified`, `ProductionNeverDark`: `RunOnce`, the action property
  `RemovalJustified` and `NeverDark`, from `EngineInv`. Besides types and `Isolation` it says: rows have
  distinct dates before the clock (`Dated`); loops and containers belong to claimed rows of their server
  (`Claimed`); what has run on a server is older than what is queued there and than the job in hand
  (`InOrder`); where the job in hand stands before Run, before the switch and after it (`InHand`); a list of
  containers to remove, however stale, names containers of its key and server other than the job's own
  (`Listed`); and what is released has run (`ReleasedRan`). The parts need one another: a replacement is
  of an *older* container only because claims are in order, which needs that a container exists for
  claimed rows only; the new release is still up when the old container goes because no other loop's
  list can name it, unless a teardown of its preview does. The step is proved from what an action may
  do to rows, loops and containers (`RowsRecorded`, `EngineMoves`, `ContainersMove`, `ReleasesMove`,
  `LoopsMove`, `TeardownsMove`), so that the six invariants never look at the forty-odd actions. `NeverDark`
  is inductive with `EngineInv`: of the three justified removals, a cleanup is of no release, a
  replacement leaves a newer one up, and a teardown is of previews, whose keys are not production's.
  All three rest on inserts that commit in the order of their dates (section 5).

For `Backups`, under `BackupsAssumption` (ids are positive numbers, no two hosts start with one server):

* `BackupsTypeCorrect`: `Spec => []TypeOK`, from the inductive invariant `JobInv`: a loop holds a claimed
  job that has not ended (`Held`), no job is in two loops (`Exclusive`), a restore's backup has succeeded
  (`Sources`), and the artifact `psql` reads exists (`Open`). Types alone are not inductive: a report is
  well typed only if its row exists, and a half-run dump only if its file does, which holds because
  nobody but the loop that holds a backup touches its file.
* `OutcomesStable`: the action property, since a step changes a status only by inserting, claiming, or
  reporting on the job its loop holds (`JobOwned`).
* `ArtifactsKept`: `Spec => []ArtifactKept`: only a verification that saw the whole file makes a backup
  succeeded (`SuccessVerified`), and then its file stays (`ArtifactsOwned`).
* `QueuesImplemented`: `Spec => ImplementsQueues`, both tables at once, with the refinement mapping
  `backupPhase`, `restorePhase` (a status to waiting, taken or ended) and the rows' servers. A report ends or
  keeps a taken job because its loop holds it (`JobInv` again); an insert is the next number.
* `DataStaysOwn`: `Spec => []OwnDataOnly`, from `Matched` (a loop dumps and restores in a container of its
  job's service, and a restore is of its service's backup) and `DataOwned` (databases and artifacts hold
  their service's data, also a file that a crash left half written).
* `RestoresTruthful`: `Spec => []RestoreTruthful`, from `OneCopy` (a backup has a file on the claiming host only,
  and a whole one once it has succeeded) and `Landed` (what a succeeded restore ran, and where). `executeRestore` does
  not look at the file it opens: that it is whole follows from one claim per backup.

For `Agents` and `ServerSetup`, under `AgentsAssumption` and `SetupAssumption` (ids are numbers, the
placeholders are no server or machine, the initial machine and its server exist):

* `SetupTypeCorrect`: `Spec => []TypeOK`.
* `IdentitiesUnique`, `ReadinessOwn`: from `IdentityInv`: a credential was issued once, for one token, to one
  machine; a redeemed token is never fresh again; every credential a machine holds, on disk or in its
  process, was issued to it; and a shown fact came from the server's own machine. Every step
  of `ServerSetup` is first reduced to its effect on `Agents` (`AgentsEffect`).
* `KeysInAgreement`: from `KeyInv`: trusted keys are stored, a run's server lives as long as its row, and of
  every run that was neither overtaken nor rotated the key about to be installed is its server's, and
  in place once installed. The property alone is not inductive: the key is committed two steps
  before the run succeeds, and other runs, rotations and deletions may come between (`RunMovesOn`,
  `ProvisionKeepsKeys`, `AuthorizeKeepsKeys` and their like, one lemma per action that touches a key).

For `Domains`, under `DomainsAssumption`:

* `DomainsTypeCorrect`: `Spec => []TypeOK`.
* `OnlyProvedRouted`: from `ProvedInv`: besides the file and the loaded configuration, the rows that a report
  may make active again, the verifications in flight, the hostnames a loop was given and the *old*
  file it may restore are of proved pairs only. The property alone is not inductive: each of these
  reaches Caddy steps after it was read.

For `Integrations`, under `IntegrationsAssumption`, with the App configured by environment or dashboard:

* `IntegrationsTypeCorrect`: `Spec => []TypeOK`.
* `ConnectsWhereItBegan`: from `FlowInv`: a cookie names a handshake of its kind and workspace
  (`CookiesMatch`), and a connection a finished one of its own workspace (`ConnectionsMatch`).
* `ServicesKeepConnections`: a foreign key checked at the write is enough, because no other step takes the
  id of a connection that a service holds.
* `CacheIsFresh`: from `CacheInv`, which adds that a lookup in flight that no registration overtook holds
  the stored credentials (`LookupFresh`).

For `Access`, under `AccessAssumption` (the placeholders are no user, workspace, link or slot):

* `AccessTypeCorrect`: `Spec => []TypeOK`, with `CallsOK` (what a request in flight carries).
* `OneBootstrapUser`: from `BootInv`: while registration is closed, a registration in flight holds the lock
  and there is no account (`LockedOut`). The property alone is not inductive: the count is taken one
  step before the insert.
* `AlwaysOwnedHolds`: from `OwnInv`: besides the property, only workspaces with a creator have members
  (`MembersFounded`), and no change or removal in flight is about a workspace's creator, unless it writes "owner"
  (`Harmless`). That a stale check cannot hurt the creator needs that the creator was an owner when it was read.
* `NoWayBackHolds`: the action property, from the types: only an insert into an empty membership makes a member,
  and an update changes one that is there.

All the safety and action properties of the runs are thus proved. Only model-checked: the liveness properties
(`DeploymentsSettle`, `TeardownsSettle`, `PreviewsExpire`, `RoutesConverge`, `JobsSettle`, `SelfHeals`,
`SetupSettles`, `RoutesRecover`, `VerifiedSettles`), because fairness and `ENABLED` are outside the prover's
reach, and the three divergences. Each inductive invariant was checked with TLC on its run's instance
before it was proved.

## 5. Plan

Done: `Deployments`, `DeployEngine`, `Backups`, `JobQueue`, `Agents`, `ServerSetup`, `Domains`, `Access`,
`Integrations`, and the proofs above. Left, in this order:

1. Lemmas about the operators the liveness properties use: `NormalizeRoutes` and `SyncedRoutes` give one
   route per key and lose no key.
2. Action properties that say what a step of one loop may not do to another's work.
3. Inserts that commit out of `created_at` order; two refs in `EnginePreviews`; deletion of a service while
   its jobs run.

## 6. Not modelled

Configuration values and secrets, projects and environments (single-row CRUD without a protocol), the
readiness doctor (pure checks, stored nowhere), audit, events and log text, image building and Dockerfile
templates, rendering of the Caddy file, crypto, the cache of installation tokens, the seeding of a
development user, the CLI and the dashboard. `PROJECT.json` gives the reason for each component.
