---------------------------- MODULE Integrations ----------------------------
(***************************************************************************)
(* The GitHub side of the control plane: the App's registration and the    *)
(* cache of its credentials (internal/githubapp), the connections of the   *)
(* workspaces (internal/sources), the services that are built through them *)
(* (internal/services), and the webhook deliveries they cause              *)
(* (internal/app, internal/webhooks).                                      *)
(*                                                                         *)
(* There is one provider, one browser, one GitHub account and, on it, one  *)
(* installation of each App.  A handshake leaves for GitHub with a nonce in *)
(* the URL and a sealed cookie in the browser, and both come back in the   *)
(* callback; a second handshake of the same kind overwrites the cookie.    *)
(***************************************************************************)
EXTENDS Naturals

CONSTANTS
    Workspaces,
    Services,       \* service ids; a git service's source is the repository considered
    Nonces,         \* handshakes, numbered as they begin
    MaxApps,        \* registrations
    MaxConnections, \* connection rows ever inserted
    EnvConfigured   \* GITHUB_APP_* are set in the environment

Nowhere == "nowhere"
Installations == 1 .. MaxApps   \* an App's installation has its App's number
Flows == {"manifest", "oauth", "app"}

ASSUME IntegrationsAssumption ==
    /\ Nowhere \notin Workspaces /\ \A w \in Workspaces : w \notin 0 .. MaxApps
    /\ MaxApps \in Nat /\ MaxConnections \in Nat
    /\ Nonces \subseteq Nat \ {0}
    /\ EnvConfigured \in BOOLEAN

VARIABLES
    app,       \* github_app_config: the number of the registered App, 0 without a row
    cached,    \* service.cached: an App, 0 for "not configured", or nothing
    lookup,    \* a call of Current that has read the row and not cached it yet
    clearing,  \* a registration has committed and not cleared the cache yet
    page,      \* the handshakes: what each nonce was issued for
    cookie,    \* the sealed state the browser holds for each kind of handshake
    conn,      \* source_connections, by their unique key
    inserted,  \* how many connection rows there have been
    service,   \* services
    request,   \* a CreateService or UpdateSource after its reads
    leaving,   \* a DisconnectConnection after its count
    delivery   \* a webhook delivery past its signature check

appVars == <<app, cached, lookup, clearing>>
flowVars == <<page, cookie>>
connVars == <<conn, inserted>>
callVars == <<service, request, leaving>>
vars == <<appVars, flowVars, connVars, callVars, delivery>>

-----------------------------------------------------------------------------

\* One row per installation (0 is none), and one per workspace for the account's token.
Keys == 0 .. MaxApps \cup Workspaces

\* A connection: its id (0 without a row), its workspace, the handshake that wrote it
\* last, and whether GitHub still honours its OAuth token.
Connection == [id : 0 .. MaxConnections, ws : Workspaces \cup {Nowhere},
               via : Nonces \cup {0}, live : BOOLEAN]
NoConnection == [id |-> 0, ws |-> Nowhere, via |-> 0, live |-> FALSE]

\* connection_id: the row's key and its id; the id 0 is a source without a connection.
Ref == [key : Keys, id : 0 .. MaxConnections]
NoRef == [key |-> 0, id |-> 0]
Exists(ref) == ref.id # 0 /\ conn[ref.key].id = ref.id

\* A service: its workspace, whether it is built from git, and through which connection.
Service == [ws : Workspaces \cup {Nowhere}, git : BOOLEAN, ref : Ref]
NoService == [ws |-> Nowhere, git |-> FALSE, ref |-> NoRef]

\* A handshake's page at GitHub, and the App whose page it is; of one that has connected
\* nothing only that is kept.
Page == [flow : Flows \cup {"none", "over"}, ws : Workspaces \cup {Nowhere}, open : BOOLEAN,
         app : 0 .. MaxApps]
NoPage == [flow |-> "none", ws |-> Nowhere, open |-> FALSE, app |-> 0]
Over == [flow |-> "over", ws |-> Nowhere, open |-> FALSE, app |-> 0]

\* connectState and regState: the workspace and the nonce.
Cookie == [ws : Workspaces \cup {Nowhere}, nonce : Nonces \cup {0}]
NoCookie == [ws |-> Nowhere, nonce |-> 0]

\* What Current has read, if anything, and whether a registration has cleared the cache
\* since.
Lookup == [full : BOOLEAN, val : 0 .. MaxApps, overlapped : BOOLEAN]
NoLookup == [full |-> FALSE, val |-> 0, overlapped |-> FALSE]

Request == [op : {"none", "create", "update"}, svc : Services \cup {Nowhere},
            to : Service]
NoRequest == [op |-> "none", svc |-> Nowhere, to |-> NoService]

\* Which App signed it, and the services it is going to preview or tear down.
Delivery == [by : 0 .. MaxApps, step : {"none", "accepted", "matched"},
             todo : SUBSET Services]
NoDelivery == [by |-> 0, step |-> "none", todo |-> {}]

TypeOK ==
    /\ app \in 0 .. MaxApps
    /\ cached \in Lookup /\ lookup \in Lookup
    /\ clearing \in BOOLEAN
    /\ page \in [Nonces -> Page]
    /\ cookie \in [Flows -> Cookie]
    /\ conn \in [Keys -> Connection]
    /\ inserted \in 0 .. MaxConnections
    /\ service \in [Services -> Service]
    /\ request \in Request
    /\ leaving \in [ref : Ref, revoked : BOOLEAN]
    /\ delivery \in Delivery

Init ==
    /\ app = 0
    /\ cached = NoLookup /\ lookup = NoLookup
    /\ clearing = FALSE
    /\ page = [n \in Nonces |-> NoPage]
    /\ cookie = [f \in Flows |-> NoCookie]
    /\ conn = [k \in Keys |-> NoConnection]
    /\ inserted = 0
    /\ service = [s \in Services |-> NoService]
    /\ request = NoRequest
    /\ leaving = [ref |-> NoRef, revoked |-> FALSE]
    /\ delivery = NoDelivery

-----------------------------------------------------------------------------
(* The App's credentials *)

\* GetSealedConfig, or the environment, which takes precedence.
Configured == IF EnvConfigured THEN MaxApps ELSE app

\* Current, found in the cache or run without interruption.
Current == IF cached.full THEN cached.val ELSE Configured

\* Current of a request that finds the cache empty reads the row outside the mutex...
ReadConfig ==
    /\ ~cached.full /\ lookup = NoLookup
    /\ lookup' = [full |-> TRUE, val |-> Configured, overlapped |-> FALSE]
    /\ UNCHANGED <<app, cached, clearing, flowVars, connVars, callVars, delivery>>

\* ... and caches what it has read, "not configured" too.
CacheConfig ==
    /\ lookup # NoLookup
    /\ cached' = lookup
    /\ lookup' = NoLookup
    /\ UNCHANGED <<app, clearing, flowVars, connVars, callVars, delivery>>

\* What the other packages ask for.
AppConfigured == Current # 0
WebhookSecret == Current

-----------------------------------------------------------------------------
(* Handshakes: the App's manifest, an OAuth grant, an installation *)

\* The page of a handshake: an installation's is at the URL of the App that is current.
PageOf(f, w) == [flow |-> f, ws |-> w, open |-> TRUE, app |-> IF f = "app" THEN Current ELSE 0]

\* Mutant: the nonce is left out of the sealed state.
MutantSealState(f, n, w) ==
    /\ page[n] = NoPage /\ \A m \in Nonces : m < n => page[m] # NoPage
    /\ page' = [page EXCEPT ![n] = PageOf(f, w)]
    /\ cookie' = [cookie EXCEPT ![f] = [ws |-> w]]

\* sealState, and the cookie the handler sets.
SealState(f, n, w) ==
    /\ page[n] = NoPage /\ \A m \in Nonces : m < n => page[m] # NoPage
    /\ page' = [page EXCEPT ![n] = PageOf(f, w)]
    /\ cookie' = [cookie EXCEPT ![f] = [ws |-> w, nonce |-> n]]

BeginRegistration(n, w) ==
    /\ ~EnvConfigured
    /\ SealState("manifest", n, w)
    /\ UNCHANGED <<appVars, connVars, callVars, delivery>>

BeginOAuth(n, w) ==
    /\ SealState("oauth", n, w)
    /\ UNCHANGED <<appVars, connVars, callVars, delivery>>

\* AppConfigured, and InstallURL with the slug of the same credentials.
BeginAppInstall(n, w) ==
    /\ AppConfigured
    /\ SealState("app", n, w)
    /\ UNCHANGED <<appVars, connVars, callVars, delivery>>

\* Mutant: the echoed nonce is not compared with the cookie's.
MutantOpenAndVerify(f, n) ==
    /\ page[n].flow = f /\ page[n].open
    /\ cookie[f] # NoCookie

\* openAndVerify: the callback of handshake n carries the cookie the browser holds now.
OpenAndVerify(f, n) ==
    /\ page[n].flow = f /\ page[n].open
    /\ cookie[f].nonce = n

\* The callback's handler clears the cookie whatever comes of it.
Returned(f, n, p) ==
    /\ page' = [page EXCEPT ![n] = p]
    /\ cookie' = [cookie EXCEPT ![f] = NoCookie]

\* A callback that is refused (a state that does not match or has expired, another
\* session, a lost permission) or that GitHub answers with an error.
CallbackFails(f, n) ==
    /\ page[n].flow = f /\ page[n].open
    /\ Returned(f, n, Over)
    /\ UNCHANGED <<appVars, connVars, callVars, delivery>>

UpsertGitHubAppConfig == app < MaxApps /\ app' = app + 1

\* CompleteRegistration up to its commit: GitHub made a new App, which replaces the row.
CompleteRegistration(n) ==
    /\ OpenAndVerify("manifest", n)
    /\ ~EnvConfigured /\ ~clearing
    /\ UpsertGitHubAppConfig
    /\ clearing' = TRUE
    /\ Returned("manifest", n, Over)
    /\ UNCHANGED <<cached, lookup, connVars, callVars, delivery>>

\* Mutant: the cache is cleared only when it says that no App is configured.
MutantClearCache ==
    /\ clearing
    /\ clearing' = FALSE
    /\ cached' = IF cached.val = 0 THEN NoLookup ELSE cached
    /\ lookup' = IF lookup = NoLookup THEN lookup ELSE [lookup EXCEPT !.overlapped = TRUE]
    /\ UNCHANGED <<app, flowVars, connVars, callVars, delivery>>

\* clearCache, after the commit.
ClearCache ==
    /\ clearing
    /\ clearing' = FALSE
    /\ cached' = NoLookup
    /\ lookup' = IF lookup = NoLookup THEN lookup ELSE [lookup EXCEPT !.overlapped = TRUE]
    /\ UNCHANGED <<app, flowVars, connVars, callVars, delivery>>

\* A row with the key is refreshed and keeps its id.
Upsert(k, w, n) ==
    \/ /\ conn[k].id # 0
       /\ conn' = [conn EXCEPT ![k] = [id |-> @.id, ws |-> w, via |-> n, live |-> TRUE]]
       /\ UNCHANGED inserted
    \/ /\ conn[k].id = 0 /\ inserted < MaxConnections
       /\ conn' = [conn EXCEPT ![k] = [id |-> inserted + 1, ws |-> w, via |-> n, live |-> TRUE]]
       /\ inserted' = inserted + 1

\* source_connections_account_key: a workspace has one App connection of an account, so
\* that of an earlier App's installation is in the way of a new one until it is deleted.
AccountFree(w, i) == \A j \in Installations \ {i} : conn[j].ws # w

\* A workspace has one OAuth connection of the account; an installation has one row, which
\* moves to the workspace that connected it last.
InsertOAuthConnection(w, n) == Upsert(w, w, n)
InsertAppConnection(w, i, n) == AccountFree(w, i) /\ Upsert(i, w, n)

\* CompleteOAuth writes the workspace its cookie names.
CompleteOAuth(n) ==
    /\ OpenAndVerify("oauth", n)
    /\ InsertOAuthConnection(cookie["oauth"].ws, n)
    /\ Returned("oauth", n, [page[n] EXCEPT !.open = FALSE])
    /\ UNCHANGED <<appVars, callVars, delivery>>

\* CompleteAppInstall likewise; ResolveInstallation needs the credentials of the App that
\* was installed.
CompleteAppInstall(n) ==
    /\ OpenAndVerify("app", n)
    /\ Current = page[n].app
    /\ InsertAppConnection(cookie["app"].ws, page[n].app, n)
    /\ Returned("app", n, [page[n] EXCEPT !.open = FALSE])
    /\ UNCHANGED <<appVars, callVars, delivery>>

-----------------------------------------------------------------------------
(* Services *)

\* resolveConn: the connection exists, and belongs to the workspace.
ResolveConn(w, ref) == Exists(ref) /\ conn[ref.key].ws = w

\* An installation's token is minted with the credentials of its App: not any more once
\* another App has been registered.
InstallationToken(i) == Current = i

\* The stored OAuth token, which GitHub may have been told to revoke.
OpenToken(ref) == conn[ref.key].live

\* ValidateRepo asks GitHub with one or the other.
ValidateRepo(w, ref) ==
    /\ ResolveConn(w, ref)
    /\ IF ref.key \in Installations THEN InstallationToken(ref.key) ELSE OpenToken(ref)

\* resolveGitSource: a public repository, or one reached through a connection.
ResolveGitSource(w, ref) == ref = NoRef \/ ValidateRepo(w, ref)

\* resolveSource: an image or a template takes nothing from GitHub.
ResolveSource(w, to) ==
    /\ to.ws = w
    /\ IF to.git THEN ResolveGitSource(w, to.ref) ELSE to.ref = NoRef

\* CreateService and UpdateSource resolve everything before their transactions.
CreateService(s, w, to) ==
    /\ request = NoRequest /\ service[s] = NoService
    /\ ResolveSource(w, to)
    /\ request' = [op |-> "create", svc |-> s, to |-> to]
    /\ UNCHANGED <<appVars, flowVars, connVars, service, leaving, delivery>>

UpdateSource(s, to) ==
    /\ request = NoRequest /\ service[s] # NoService
    /\ ResolveSource(service[s].ws, to)
    /\ request' = [op |-> "update", svc |-> s, to |-> to]
    /\ UNCHANGED <<appVars, flowVars, connVars, service, leaving, delivery>>

\* CreateDatabase: a built-in template, and nothing to ask GitHub for.
CreateDatabase(s, w) ==
    /\ request = NoRequest /\ service[s] = NoService
    /\ request' = [op |-> "create", svc |-> s,
                   to |-> [ws |-> w, git |-> FALSE, ref |-> NoRef]]
    /\ UNCHANGED <<appVars, flowVars, connVars, service, leaving, delivery>>

\* services.connection_id references source_connections.
ForeignKey(ref) == ref = NoRef \/ Exists(ref)

InsertService(s, to) ==
    /\ service[s] = NoService
    /\ service' = [service EXCEPT ![s] = to]

UpdateServiceSource(s, to) ==
    /\ service[s] # NoService
    /\ service' = [service EXCEPT ![s] = to]

\* The insert or the update, which finds no row when the service has been deleted.
WriteService ==
    /\ ForeignKey(request.to.ref)
    /\ \/ request.op = "create" /\ InsertService(request.svc, request.to)
       \/ request.op = "update" /\ UpdateServiceSource(request.svc, request.to)
    /\ request' = NoRequest
    /\ UNCHANGED <<appVars, flowVars, connVars, leaving, delivery>>

\* The transaction rolls back: a reference that is gone, the server of the first
\* deployment included, or any other error.
RollBack ==
    /\ request # NoRequest
    /\ request' = NoRequest
    /\ UNCHANGED <<appVars, flowVars, connVars, service, leaving, delivery>>

DeleteServiceRow(s) == service' = [service EXCEPT ![s] = NoService]

DeleteService(s) ==
    /\ service[s] # NoService
    /\ DeleteServiceRow(s)
    /\ UNCHANGED <<appVars, flowVars, connVars, request, leaving, delivery>>

-----------------------------------------------------------------------------
(* Disconnecting *)

\* CountServicesByConnection.
InUse(ref) == \E s \in Services : service[s].ref = ref

\* DisconnectConnection up to the count.
DisconnectConnection(k) ==
    LET ref == [key |-> k, id |-> conn[k].id]
    IN  /\ leaving.ref = NoRef
        /\ Exists(ref) /\ ~InUse(ref)
        /\ leaving' = [ref |-> ref, revoked |-> FALSE]
        /\ UNCHANGED <<appVars, flowVars, connVars, service, request, delivery>>

\* An OAuth token is revoked at GitHub first, if it can be.
RevokeToken ==
    LET k == leaving.ref.key
    IN  /\ leaving.ref # NoRef /\ ~leaving.revoked /\ k \notin Installations
        /\ leaving' = [leaving EXCEPT !.revoked = TRUE]
        /\ conn' = [conn EXCEPT ![k].live = IF Exists(leaving.ref) THEN FALSE ELSE @]
        /\ UNCHANGED <<appVars, flowVars, inserted, service, request, delivery>>

\* Mutant: the row goes on the strength of the count.
MutantDeleteConnectionByID ==
    LET k == leaving.ref.key
    IN  /\ leaving.ref # NoRef
        /\ conn' = [conn EXCEPT ![k] = IF Exists(leaving.ref) THEN NoConnection ELSE @]
        /\ leaving' = [ref |-> NoRef, revoked |-> FALSE]
        /\ UNCHANGED <<appVars, flowVars, inserted, service, request, delivery>>

\* DeleteConnectionByID: the foreign key refuses (ON DELETE RESTRICT) when a service has
\* come to use the connection since the count, and the call fails.
DeleteConnectionByID ==
    LET k == leaving.ref.key
    IN  /\ leaving.ref # NoRef
        /\ conn' = [conn EXCEPT ![k] = IF Exists(leaving.ref) /\ ~InUse(leaving.ref)
                                       THEN NoConnection ELSE @]
        /\ leaving' = [ref |-> NoRef, revoked |-> FALSE]
        /\ UNCHANGED <<appVars, flowVars, inserted, service, request, delivery>>

-----------------------------------------------------------------------------
(* Webhook deliveries *)

\* VerifyWebhookSignature; without an App it fails closed.
VerifySignature(by) == by # 0 /\ WebhookSecret = by

\* githubWebhookHandler: a pull_request event signed by an App, the one registered or
\* an older one, or by nobody.
Receive(by) ==
    /\ delivery = NoDelivery
    /\ VerifySignature(by)
    /\ delivery' = [by |-> by, step |-> "accepted", todo |-> {}]
    /\ UNCHANGED <<appVars, flowVars, connVars, callVars>>

\* ListServiceIDsForRepo's WHERE clause.
ServiceForRepo(s, w) == service[s].git /\ service[s].ws = w

WorkspaceForInstallation(i) == conn[i].ws

\* HandlePullRequest: the installation's workspace, and the services of the repository
\* there; there may be none.
Match ==
    /\ delivery.step = "accepted"
    /\ delivery' = [delivery EXCEPT !.step = "matched",
                        !.todo = {s \in Services : ServiceForRepo(s, WorkspaceForInstallation(delivery.by))}]
    /\ UNCHANGED <<appVars, flowVars, connVars, callVars>>

\* One service after the other: a failed one, a deleted one too, is logged and skipped.
HandleOne(s) ==
    /\ s \in delivery.todo
    /\ delivery' = [delivery EXCEPT !.todo = @ \ {s}]
    /\ UNCHANGED <<appVars, flowVars, connVars, callVars>>

Answer ==
    /\ delivery.step = "matched" /\ delivery.todo = {}
    /\ delivery' = NoDelivery
    /\ UNCHANGED <<appVars, flowVars, connVars, callVars>>

-----------------------------------------------------------------------------
Handshake(n) ==
    \/ \E w \in Workspaces : BeginRegistration(n, w) \/ BeginOAuth(n, w) \/ BeginAppInstall(n, w)
    \/ \E f \in Flows : CallbackFails(f, n)
    \/ CompleteRegistration(n) \/ CompleteOAuth(n) \/ CompleteAppInstall(n)

Catalog ==
    \/ \E s \in Services, w \in Workspaces :
           \/ CreateDatabase(s, w)
           \/ \E g \in BOOLEAN, ref \in {NoRef} \cup [key : Keys, id : 1 .. inserted] :
                  LET to == [ws |-> w, git |-> g, ref |-> ref]
                  IN  CreateService(s, w, to) \/ UpdateSource(s, to)
    \/ WriteService \/ RollBack
    \/ \E s \in Services : DeleteService(s)

Disconnect == (\E k \in Keys : DisconnectConnection(k)) \/ RevokeToken \/ DeleteConnectionByID

Webhook ==
    \/ \E by \in 0 .. MaxApps : by <= app /\ Receive(by)
    \/ Match \/ Answer
    \/ \E s \in Services : HandleOne(s)

Next ==
    \/ ReadConfig \/ CacheConfig \/ ClearCache
    \/ \E n \in Nonces : Handshake(n)
    \/ Catalog \/ Disconnect \/ Webhook

Spec == Init /\ [][Next]_vars

-----------------------------------------------------------------------------
(* Properties *)

\* A connection belongs to the workspace whose handshake made it, however the handshakes
\* of one browser overlap and in whatever order their pages come back: a page that comes
\* back after another handshake has overwritten its cookie connects nothing.
ConnectsWhereBegun ==
    \A k \in Keys : conn[k].id # 0 =>
        page[conn[k].via].ws = conn[k].ws /\ page[conn[k].via].flow \in {"oauth", "app"}

\* No service is left with a connection that is gone: it is counted before the token is
\* revoked and the row deleted, and a service created or repointed in between keeps it.
ConnectionsStay ==
    \A s \in Services : service[s].ref = NoRef \/ Exists(service[s].ref)

\* githubapp: credentials are "cached until the next (re)registration".  What is cached
\* is what is stored, except between a registration's commit and its clearCache, and
\* except for a lookup that had read the row before and cached it after: such an entry
\* stays until the control plane restarts or the App is registered again.
FreshUnlessOverlapped ==
    cached # NoLookup /\ ~cached.overlapped /\ ~clearing => cached.val = Configured
=============================================================================
