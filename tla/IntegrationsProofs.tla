------------------------- MODULE IntegrationsProofs -------------------------
(***************************************************************************)
(* Theorems about module Integrations, for any number of workspaces,       *)
(* services, handshakes, registrations and connections, and whether the    *)
(* App is configured by the environment or from the dashboard.             *)
(***************************************************************************)
EXTENDS Integrations, TLAPS

-----------------------------------------------------------------------------
(* Types *)

\* The placeholders are values of their types.
LEMMA Placeholders ==
  /\ NoLookup \in Lookup /\ NoConnection \in Connection /\ NoRef \in Ref
  /\ NoService \in Service /\ NoPage \in Page /\ Over \in Page /\ NoCookie \in Cookie
  /\ NoRequest \in Request /\ NoDelivery \in Delivery
<1>1. 0 \in 0 .. MaxApps /\ 0 \in 0 .. MaxConnections
  BY IntegrationsAssumption
<1>2. NoRef \in Ref
  BY <1>1 DEF NoRef, Ref, Keys
<1>3. NoService \in Service
  BY <1>2 DEF NoService, Service
<1>4. NoLookup \in Lookup /\ NoDelivery \in Delivery
  BY <1>1 DEF NoLookup, Lookup, NoDelivery, Delivery
<1>5. NoConnection \in Connection
  BY <1>1 DEF NoConnection, Connection
<1>6. NoPage \in Page /\ Over \in Page /\ NoCookie \in Cookie
  BY <1>1 DEF NoPage, Over, Page, NoCookie, Cookie
<1>7. NoRequest \in Request
  BY <1>3 DEF NoRequest, Request
<1> QED
  BY <1>2, <1>3, <1>4, <1>5, <1>6, <1>7

LEMMA InitialTypes == Init => TypeOK
<1> SUFFICES ASSUME Init PROVE TypeOK
  OBVIOUS
<1>1. app \in 0 .. MaxApps /\ inserted \in 0 .. MaxConnections
  BY IntegrationsAssumption DEF Init
<1>5. clearing \in BOOLEAN
  BY DEF Init
<1>2. /\ cached \in Lookup /\ lookup \in Lookup
      /\ request \in Request /\ delivery \in Delivery
      /\ leaving \in [ref : Ref, revoked : BOOLEAN]
  BY Placeholders DEF Init
<1>3. page \in [Nonces -> Page] /\ cookie \in [Flows -> Cookie]
  BY Placeholders DEF Init
<1>4. conn \in [Keys -> Connection] /\ service \in [Services -> Service]
  BY Placeholders DEF Init
<1> QED
  BY <1>1, <1>2, <1>3, <1>4, <1>5 DEF TypeOK

LEMMA ConfiguredType ==
  ASSUME TypeOK
  PROVE  Configured \in 0 .. MaxApps
BY IntegrationsAssumption DEF TypeOK, Configured

\* The cache and its lookups.
LEMMA CacheTypes ==
  ASSUME TypeOK, ReadConfig \/ CacheConfig \/ ClearCache
  PROVE  TypeOK'
<1>1. CASE ReadConfig
  BY <1>1, ConfiguredType DEF ReadConfig, TypeOK, Lookup, flowVars, connVars, callVars
<1>2. CASE CacheConfig
  BY <1>2, Placeholders DEF CacheConfig, TypeOK, flowVars, connVars, callVars
<1>3. CASE ClearCache
  <2>1. lookup' \in Lookup
    BY <1>3 DEF ClearCache, TypeOK, Lookup
  <2> QED
    BY <1>3, <2>1, Placeholders DEF ClearCache, TypeOK, flowVars, connVars, callVars
<1> QED
  BY <1>1, <1>2, <1>3

\* A handshake leaves and comes back.
LEMMA SealTypes ==
  ASSUME TypeOK, NEW f \in Flows, NEW n \in Nonces, NEW w \in Workspaces, SealState(f, n, w)
  PROVE  page' \in [Nonces -> Page] /\ cookie' \in [Flows -> Cookie]
<1>1. Current \in 0 .. MaxApps /\ 0 \in 0 .. MaxApps
  BY ConfiguredType, IntegrationsAssumption DEF Current, TypeOK, Lookup
<1>2. PageOf(f, w) \in Page
  BY <1>1 DEF PageOf, Page
<1> QED
  BY <1>2 DEF SealState, TypeOK, Cookie

LEMMA ReturnTypes ==
  ASSUME TypeOK, NEW f \in Flows, NEW n \in Nonces, NEW p \in Page, Returned(f, n, p)
  PROVE  page' \in [Nonces -> Page] /\ cookie' \in [Flows -> Cookie]
BY Placeholders DEF Returned, TypeOK

LEMMA UpsertTypes ==
  ASSUME TypeOK, NEW k, NEW w \in Workspaces \cup {Nowhere}, NEW n \in Nonces, Upsert(k, w, n)
  PROVE  conn' \in [Keys -> Connection] /\ inserted' \in 0 .. MaxConnections
<1>1. CASE /\ conn[k].id # 0
           /\ conn' = [conn EXCEPT ![k] = [id |-> @.id, ws |-> w, via |-> n, live |-> TRUE]]
           /\ UNCHANGED inserted
  BY <1>1 DEF TypeOK, Connection
<1>2. CASE /\ inserted < MaxConnections
           /\ conn' = [conn EXCEPT ![k] = [id |-> inserted + 1, ws |-> w, via |-> n,
                                           live |-> TRUE]]
           /\ inserted' = inserted + 1
  <2>1. inserted' \in 0 .. MaxConnections
    BY <1>2, IntegrationsAssumption DEF TypeOK
  <2>2. [id |-> inserted + 1, ws |-> w, via |-> n, live |-> TRUE] \in Connection
    BY <1>2, <2>1 DEF Connection
  <2> QED
    BY <1>2, <2>1, <2>2 DEF TypeOK
<1> QED
  BY <1>1, <1>2 DEF Upsert

LEMMA HandshakeTypes ==
  ASSUME TypeOK, NEW n \in Nonces, Handshake(n)
  PROVE  TypeOK'
<1>1. ASSUME NEW w \in Workspaces,
             BeginRegistration(n, w) \/ BeginOAuth(n, w) \/ BeginAppInstall(n, w)
      PROVE  TypeOK'
  <2>1. \E f \in Flows : SealState(f, n, w)
    BY <1>1 DEF BeginRegistration, BeginOAuth, BeginAppInstall, Flows
  <2>2. page' \in [Nonces -> Page] /\ cookie' \in [Flows -> Cookie]
    BY <2>1, SealTypes
  <2> QED
    BY <1>1, <2>2 DEF BeginRegistration, BeginOAuth, BeginAppInstall, TypeOK, appVars, connVars,
                      callVars
<1>2. ASSUME NEW f \in Flows, CallbackFails(f, n) PROVE TypeOK'
  <2>1. page' \in [Nonces -> Page] /\ cookie' \in [Flows -> Cookie]
    BY <1>2, ReturnTypes, Placeholders DEF CallbackFails
  <2> QED
    BY <1>2, <2>1 DEF CallbackFails, TypeOK, appVars, connVars, callVars
<1>3. CASE CompleteRegistration(n)
  <2>1. page' \in [Nonces -> Page] /\ cookie' \in [Flows -> Cookie]
    BY <1>3, ReturnTypes, Placeholders DEF CompleteRegistration, Flows
  <2>2. app' \in 0 .. MaxApps
    BY <1>3, IntegrationsAssumption DEF CompleteRegistration, UpsertGitHubAppConfig, TypeOK
  <2> QED
    BY <1>3, <2>1, <2>2 DEF CompleteRegistration, TypeOK, connVars, callVars
<1>4. CASE CompleteOAuth(n) \/ CompleteAppInstall(n)
  <2>1. PICK f \in Flows : /\ Returned(f, n, [page[n] EXCEPT !.open = FALSE])
                           /\ \E k : Upsert(k, cookie[f].ws, n)
    BY <1>4 DEF CompleteOAuth, CompleteAppInstall, InsertOAuthConnection, InsertAppConnection,
                Flows
  <2>2. [page[n] EXCEPT !.open = FALSE] \in Page /\ cookie[f].ws \in Workspaces \cup {Nowhere}
    BY DEF TypeOK, Page, Cookie
  <2>3. page' \in [Nonces -> Page] /\ cookie' \in [Flows -> Cookie]
    BY <2>1, <2>2, ReturnTypes
  <2>4. conn' \in [Keys -> Connection] /\ inserted' \in 0 .. MaxConnections
    BY <2>1, <2>2, UpsertTypes
  <2> QED
    BY <1>4, <2>3, <2>4 DEF CompleteOAuth, CompleteAppInstall, TypeOK, appVars, callVars
<1> QED
  BY <1>1, <1>2, <1>3, <1>4 DEF Handshake

\* Requests on services.
LEMMA RequestTypes ==
  ASSUME TypeOK, NEW s \in Services, NEW w \in Workspaces, NEW g \in BOOLEAN, NEW ref \in Ref,
         NEW op \in {"create", "update"},
         request' = [op |-> op, svc |-> s, to |-> [ws |-> w, git |-> g, ref |-> ref]],
         UNCHANGED <<appVars, flowVars, connVars, service, leaving, delivery>>
  PROVE  TypeOK'
<1>1. [ws |-> w, git |-> g, ref |-> ref] \in Service
  BY DEF Service
<1>2. request' \in Request
  BY <1>1 DEF Request
<1> QED
  BY <1>2 DEF TypeOK, appVars, flowVars, connVars

LEMMA CatalogTypes ==
  ASSUME TypeOK, Catalog
  PROVE  TypeOK'
<1>1. ASSUME NEW s \in Services, NEW w \in Workspaces, CreateDatabase(s, w) PROVE TypeOK'
  BY <1>1, RequestTypes, Placeholders DEF CreateDatabase
<1>2. ASSUME NEW s \in Services, NEW w \in Workspaces, NEW g \in BOOLEAN,
             NEW ref \in {NoRef} \cup [key : Keys, id : 1 .. inserted],
             \/ CreateService(s, w, [ws |-> w, git |-> g, ref |-> ref])
             \/ UpdateSource(s, [ws |-> w, git |-> g, ref |-> ref])
      PROVE  TypeOK'
  <2>1. ref \in Ref
    BY Placeholders, IntegrationsAssumption DEF TypeOK, Ref
  <2> QED
    BY <1>2, <2>1, RequestTypes DEF CreateService, UpdateSource
<1>3. CASE WriteService
  <2>1. request.to \in Service
    BY DEF TypeOK, Request
  <2>2. service' \in [Services -> Service]
    BY <1>3, <2>1 DEF WriteService, InsertService, UpdateServiceSource, TypeOK
  <2> QED
    BY <1>3, <2>2, Placeholders DEF WriteService, TypeOK, appVars, flowVars, connVars
<1>4. CASE RollBack
  BY <1>4, Placeholders DEF RollBack, TypeOK, appVars, flowVars, connVars
<1>5. ASSUME NEW s \in Services, DeleteService(s) PROVE TypeOK'
  BY <1>5, Placeholders DEF DeleteService, DeleteServiceRow, TypeOK, appVars, flowVars, connVars
<1> QED
  BY <1>1, <1>2, <1>3, <1>4, <1>5 DEF Catalog

LEMMA DisconnectTypes ==
  ASSUME TypeOK, Disconnect
  PROVE  TypeOK'
<1>1. ASSUME NEW k \in Keys, DisconnectConnection(k) PROVE TypeOK'
  <2>1. [key |-> k, id |-> conn[k].id] \in Ref
    BY DEF TypeOK, Connection, Ref
  <2> QED
    BY <1>1, <2>1 DEF DisconnectConnection, TypeOK, appVars, flowVars, connVars
<1>2. CASE RevokeToken
  <2>1. leaving' \in [ref : Ref, revoked : BOOLEAN]
    BY <1>2 DEF RevokeToken, TypeOK
  <2>2. conn' \in [Keys -> Connection]
    <3> DEFINE k == leaving.ref.key
               live == IF Exists(leaving.ref) THEN FALSE ELSE conn[k].live
    <3>1. k \in Keys
      BY DEF TypeOK, Ref
    <3>2. conn[k] \in Connection /\ live \in BOOLEAN
      BY <3>1 DEF TypeOK, Connection
    <3>3. [conn[k] EXCEPT !.live = live] \in Connection
      BY <3>2 DEF Connection
    <3>4. conn' = [conn EXCEPT ![k] = [conn[k] EXCEPT !.live = live]]
      BY <1>2, <3>1 DEF RevokeToken, TypeOK
    <3> QED
      BY <3>3, <3>4 DEF TypeOK
  <2> QED
    BY <1>2, <2>1, <2>2 DEF RevokeToken, TypeOK, appVars, flowVars
<1>3. CASE DeleteConnectionByID
  <2>1. conn' \in [Keys -> Connection]
    BY <1>3, Placeholders DEF DeleteConnectionByID, TypeOK
  <2> QED
    BY <1>3, <2>1, Placeholders DEF DeleteConnectionByID, TypeOK, appVars, flowVars
<1> QED
  BY <1>1, <1>2, <1>3 DEF Disconnect

LEMMA WebhookTypes ==
  ASSUME TypeOK, Webhook
  PROVE  TypeOK'
<1>1. ASSUME NEW by \in 0 .. MaxApps, Receive(by) PROVE delivery' \in Delivery
  BY <1>1 DEF Receive, Delivery
<1>2. ASSUME Match PROVE delivery' \in Delivery
  BY <1>2 DEF Match, TypeOK, Delivery
<1>3. ASSUME Answer PROVE delivery' \in Delivery
  BY <1>3, Placeholders DEF Answer
<1>4. ASSUME NEW s \in Services, HandleOne(s) PROVE delivery' \in Delivery
  BY <1>4 DEF HandleOne, TypeOK, Delivery
<1>5. delivery' \in Delivery
  BY <1>1, <1>2, <1>3, <1>4 DEF Webhook
<1> QED
  BY <1>5 DEF Webhook, Receive, Match, Answer, HandleOne, TypeOK, appVars, flowVars, connVars,
              callVars

LEMMA StepTypes ==
  ASSUME TypeOK, [Next]_vars
  PROVE  TypeOK'
<1>1. CASE UNCHANGED vars
  BY <1>1 DEF vars, appVars, flowVars, connVars, callVars, TypeOK
<1> QED
  BY <1>1, CacheTypes, HandshakeTypes, CatalogTypes, DisconnectTypes, WebhookTypes DEF Next

\* Every reachable state is well typed: also the reference of a service and the
\* request in flight for it.
THEOREM IntegrationsTypeCorrect == Spec => []TypeOK
BY InitialTypes, StepTypes, PTL DEF Spec

-----------------------------------------------------------------------------
(* What the groups of actions leave alone *)

LEMMA CacheFrame ==
  ASSUME ReadConfig \/ CacheConfig \/ ClearCache
  PROVE  UNCHANGED <<flowVars, connVars, callVars>>
BY DEF ReadConfig, CacheConfig, ClearCache

LEMMA CatalogFrame ==
  ASSUME Catalog
  PROVE  UNCHANGED <<appVars, flowVars, connVars>>
<1>1. ASSUME NEW s, NEW w, NEW to,
             CreateDatabase(s, w) \/ CreateService(s, w, to) \/ UpdateSource(s, to)
      PROVE  UNCHANGED <<appVars, flowVars, connVars>>
  BY <1>1 DEF CreateDatabase, CreateService, UpdateSource
<1>2. ASSUME NEW s, WriteService \/ RollBack \/ DeleteService(s)
      PROVE  UNCHANGED <<appVars, flowVars, connVars>>
  BY <1>2 DEF WriteService, RollBack, DeleteService
<1> QED
  BY <1>1, <1>2 DEF Catalog

LEMMA WebhookFrame ==
  ASSUME Webhook
  PROVE  UNCHANGED <<appVars, flowVars, connVars, callVars>>
BY DEF Webhook, Receive, Match, Answer, HandleOne

-----------------------------------------------------------------------------
(* Handshakes *)

\* The cookie of a kind of handshake belongs to a page of that kind, for the same
\* workspace.
CookiesMatch ==
    \A f \in Flows : cookie[f].nonce # 0 =>
        page[cookie[f].nonce].flow = f /\ page[cookie[f].nonce].ws = cookie[f].ws

\* A connection was made by a handshake that is over, for the workspace that the
\* handshake began in.
ConnectionsMatch ==
    \A k \in Keys : conn[k].id # 0 =>
        /\ conn[k].via \in Nonces
        /\ page[conn[k].via].flow \in {"oauth", "app"} /\ ~page[conn[k].via].open
        /\ page[conn[k].via].ws = conn[k].ws

FlowInv == CookiesMatch /\ ConnectionsMatch

\* Steps that begin or end no handshake, and give no connection to another one.
KeepsFlows ==
    /\ UNCHANGED flowVars
    /\ \A k \in Keys : conn'[k].id # 0 =>
           conn[k].id # 0 /\ conn'[k].via = conn[k].via /\ conn'[k].ws = conn[k].ws

LEMMA FlowsKept ==
  ASSUME FlowInv, KeepsFlows
  PROVE  FlowInv'
BY DEF FlowInv, KeepsFlows, CookiesMatch, ConnectionsMatch, flowVars

\* A new handshake takes a page that nothing refers to.
LEMMA SealKeepsFlows ==
  ASSUME TypeOK, FlowInv, NEW f \in Flows, NEW n \in Nonces, NEW w \in Workspaces,
         SealState(f, n, w), UNCHANGED conn
  PROVE  FlowInv'
<1>1. /\ page[n] = NoPage /\ page' = [page EXCEPT ![n] = PageOf(f, w)]
      /\ cookie' = [cookie EXCEPT ![f] = [ws |-> w, nonce |-> n]]
  BY DEF SealState
<1>2. page[n].flow = "none"
  BY <1>1 DEF NoPage
<1>3. ASSUME NEW g \in Flows, cookie'[g].nonce # 0
      PROVE  page'[cookie'[g].nonce].flow = g /\ page'[cookie'[g].nonce].ws = cookie'[g].ws
  <2>1. CASE g = f
    BY <1>1, <2>1 DEF TypeOK, PageOf
  <2>2. CASE g # f
    <3>1. cookie'[g] = cookie[g] /\ cookie[g].nonce \in Nonces
      BY <1>1, <1>3, <2>2 DEF TypeOK, Cookie
    <3>2. page[cookie[g].nonce].flow = g
      BY <1>3, <3>1 DEF FlowInv, CookiesMatch
    <3>3. cookie[g].nonce # n
      BY <1>2, <3>2 DEF Flows
    <3> QED
      BY <1>1, <1>3, <3>1, <3>3 DEF FlowInv, CookiesMatch, TypeOK
  <2> QED
    BY <2>1, <2>2
<1>4. ASSUME NEW k \in Keys, conn'[k].id # 0
      PROVE  page'[conn[k].via] = page[conn[k].via]
  BY <1>1, <1>2, <1>4 DEF FlowInv, ConnectionsMatch, TypeOK
<1>5. ConnectionsMatch'
  BY <1>4 DEF FlowInv, ConnectionsMatch
<1> QED
  BY <1>3, <1>5 DEF FlowInv, CookiesMatch

\* The end of a handshake: its page closes and its cookie goes.  No connection refers
\* to a page that was open.
LEMMA ReturnKeepsFlows ==
  ASSUME TypeOK, FlowInv, NEW f \in Flows, NEW n \in Nonces, NEW p,
         page[n].flow = f, page[n].open, Returned(f, n, p)
  PROVE  /\ CookiesMatch'
         /\ \A k \in Keys : conn[k].id # 0 => conn[k].via # n
         /\ \A m \in Nonces : m # n => page'[m] = page[m]
         /\ page'[n] = p
<1>1. /\ page' = [page EXCEPT ![n] = p]
      /\ cookie' = [cookie EXCEPT ![f] = NoCookie]
  BY DEF Returned
<1>2. ASSUME NEW g \in Flows, cookie'[g].nonce # 0
      PROVE  page'[cookie'[g].nonce].flow = g /\ page'[cookie'[g].nonce].ws = cookie'[g].ws
  <2>1. g # f
    BY <1>1, <1>2 DEF TypeOK, NoCookie
  <2>2. cookie'[g] = cookie[g] /\ cookie[g].nonce \in Nonces
    BY <1>1, <1>2, <2>1 DEF TypeOK, Cookie
  <2>3. cookie[g].nonce # n
    BY <1>2, <2>1, <2>2 DEF FlowInv, CookiesMatch
  <2> QED
    BY <1>1, <1>2, <2>2, <2>3 DEF FlowInv, CookiesMatch, TypeOK
<1>3. \A k \in Keys : conn[k].id # 0 => conn[k].via # n
  BY DEF FlowInv, ConnectionsMatch
<1> QED
  BY <1>1, <1>2, <1>3 DEF CookiesMatch, TypeOK

\* A completed handshake writes the workspace that its page was opened for.
LEMMA CompleteKeepsFlows ==
  ASSUME TypeOK, FlowInv, NEW f \in {"oauth", "app"}, NEW n \in Nonces, NEW k,
         OpenAndVerify(f, n), Upsert(k, cookie[f].ws, n),
         Returned(f, n, [page[n] EXCEPT !.open = FALSE])
  PROVE  FlowInv'
<1> DEFINE p == [page[n] EXCEPT !.open = FALSE]
<1>1. /\ f \in Flows /\ page[n].flow = f /\ page[n].open
      /\ cookie[f].nonce = n /\ n # 0
  BY IntegrationsAssumption DEF OpenAndVerify, Flows
<1>2. page[n].ws = cookie[f].ws
  BY <1>1 DEF FlowInv, CookiesMatch
<1>3. p.flow = f /\ p.ws = cookie[f].ws /\ ~p.open
  BY <1>1, <1>2 DEF TypeOK, Page
<1> HIDE DEF p
<1>4. Returned(f, n, p)
  BY DEF p
<1>5. /\ CookiesMatch'
      /\ \A j \in Keys : conn[j].id # 0 => conn[j].via # n
      /\ \A m \in Nonces : m # n => page'[m] = page[m]
      /\ page'[n] = p
  BY <1>1, <1>4, ReturnKeepsFlows
<1>6. \E i : conn' = [conn EXCEPT ![k] = [id |-> i, ws |-> cookie[f].ws, via |-> n,
                                          live |-> TRUE]]
  BY DEF Upsert
<1>7. ASSUME NEW j \in Keys, conn'[j].id # 0
      PROVE  \/ conn'[j] = conn[j]
             \/ conn'[j].via = n /\ conn'[j].ws = cookie[f].ws
  BY <1>6 DEF TypeOK
<1>8. ConnectionsMatch'
  BY <1>1, <1>3, <1>5, <1>7 DEF FlowInv, ConnectionsMatch
<1> QED
  BY <1>5, <1>8 DEF FlowInv

\* A revocation leaves every connection in place, for whom it was made.
LEMMA RevokedConnection ==
  ASSUME TypeOK, RevokeToken
  PROVE  \A j \in Keys : /\ conn'[j].id = conn[j].id
                         /\ conn'[j].via = conn[j].via /\ conn'[j].ws = conn[j].ws
<1> DEFINE k == leaving.ref.key
           live == IF Exists(leaving.ref) THEN FALSE ELSE conn[k].live
<1>1. k \in Keys
  BY DEF TypeOK, Ref
<1>2. conn' = [conn EXCEPT ![k] = [conn[k] EXCEPT !.live = live]]
  BY <1>1 DEF RevokeToken, TypeOK
<1> HIDE DEF k, live
<1> QED
  BY <1>1, <1>2 DEF TypeOK, Connection

\* A deletion takes one connection at most, and one that no service uses.
LEMMA DeletedConnection ==
  ASSUME TypeOK, DeleteConnectionByID
  PROVE  \A j \in Keys : \/ conn'[j] = conn[j]
                         \/ /\ j = leaving.ref.key /\ conn'[j] = NoConnection
                            /\ Exists(leaving.ref) /\ ~InUse(leaving.ref)
<1> DEFINE k == leaving.ref.key
           goes == Exists(leaving.ref) /\ ~InUse(leaving.ref)
<1>1. k \in Keys
  BY DEF TypeOK, Ref
<1>2. conn' = [conn EXCEPT ![k] = IF goes THEN NoConnection ELSE @]
  BY DEF DeleteConnectionByID
<1> HIDE DEF k, goes
<1>3. \A j \in Keys : conn'[j] = conn[j] \/ (j = k /\ conn'[j] = NoConnection /\ goes)
  BY <1>1, <1>2 DEF TypeOK
<1> QED
  BY <1>3 DEF k, goes

LEMMA FlowStep ==
  ASSUME TypeOK, FlowInv, [Next]_vars
  PROVE  FlowInv'
<1>1. ASSUME NEW n \in Nonces, Handshake(n) PROVE FlowInv'
  <2>1. ASSUME NEW w \in Workspaces,
               BeginRegistration(n, w) \/ BeginOAuth(n, w) \/ BeginAppInstall(n, w)
        PROVE  FlowInv'
    BY <2>1, SealKeepsFlows DEF BeginRegistration, BeginOAuth, BeginAppInstall, connVars, Flows
  <2>2. ASSUME NEW f \in Flows, NEW p \in {Over}, page[n].flow = f, page[n].open,
               Returned(f, n, p), UNCHANGED conn
        PROVE  FlowInv'
    <3>1. /\ CookiesMatch'
          /\ \A k \in Keys : conn[k].id # 0 => conn[k].via # n
          /\ \A m \in Nonces : m # n => page'[m] = page[m]
      BY <2>2, ReturnKeepsFlows
    <3>2. ConnectionsMatch'
      BY <2>2, <3>1 DEF FlowInv, ConnectionsMatch
    <3> QED
      BY <3>1, <3>2 DEF FlowInv
  <2>3. ASSUME NEW f \in Flows, CallbackFails(f, n) PROVE FlowInv'
    BY <2>2, <2>3 DEF CallbackFails, connVars
  <2>4. CASE CompleteRegistration(n)
    BY <2>2, <2>4 DEF CompleteRegistration, OpenAndVerify, connVars, Flows
  <2>5. CASE CompleteOAuth(n) \/ CompleteAppInstall(n)
    BY <2>5, CompleteKeepsFlows DEF CompleteOAuth, CompleteAppInstall, InsertOAuthConnection,
       InsertAppConnection
  <2> QED
    BY <1>1, <2>1, <2>3, <2>4, <2>5 DEF Handshake
<1>2. ASSUME UNCHANGED <<flowVars, conn>> PROVE KeepsFlows
  BY <1>2 DEF KeepsFlows
<1>3. CASE ReadConfig \/ CacheConfig \/ ClearCache \/ Catalog \/ Webhook
  BY <1>2, <1>3, CacheFrame, CatalogFrame, WebhookFrame, FlowsKept DEF connVars
<1>4. ASSUME NEW k \in Keys, DisconnectConnection(k) PROVE KeepsFlows
  BY <1>2, <1>4 DEF DisconnectConnection, connVars
<1>5. CASE RevokeToken
  <2>1. KeepsFlows
    BY <1>5, RevokedConnection DEF RevokeToken, KeepsFlows
  <2> QED
    BY <2>1, FlowsKept
<1>6. CASE DeleteConnectionByID
  <2>1. KeepsFlows
    BY <1>6, DeletedConnection DEF DeleteConnectionByID, KeepsFlows, NoConnection
  <2> QED
    BY <2>1, FlowsKept
<1>7. CASE UNCHANGED vars
  BY <1>2, <1>7, FlowsKept DEF vars, connVars
<1> QED
  BY <1>1, <1>3, <1>4, <1>5, <1>6, <1>7, FlowsKept DEF Next, Disconnect

\* A connection belongs to the workspace in which its handshake began, however many
\* handshakes one browser has open and in whatever order they come back
\* (openAndVerify, CompleteOAuth and CompleteAppInstall).
THEOREM ConnectsWhereItBegan == Spec => []ConnectsWhereBegun
<1>1. Init => FlowInv
  BY DEF Init, FlowInv, CookiesMatch, ConnectionsMatch, NoCookie, NoConnection
<1>2. FlowInv => ConnectsWhereBegun
  BY DEF FlowInv, ConnectionsMatch, ConnectsWhereBegun
<1> QED
  BY <1>1, <1>2, InitialTypes, StepTypes, FlowStep, PTL DEF Spec

-----------------------------------------------------------------------------
(* The connections of the services *)

\* A connection, once made, keeps its id for as long as it is there.
LEMMA UpsertKeepsIds ==
  ASSUME TypeOK, NEW k, NEW w, NEW n, Upsert(k, w, n)
  PROVE  \A j \in Keys : conn[j].id # 0 => conn'[j].id = conn[j].id
BY DEF Upsert, TypeOK

\* What every step but a deletion leaves alone: the connections there are.
IdsStay == \A j \in Keys : conn[j].id # 0 => conn'[j].id = conn[j].id

\* A reference that a service holds, or is about to be given, is one of its type.
LEMMA RefsTyped ==
  ASSUME TypeOK
  PROVE  /\ request.to.ref \in Ref /\ leaving.ref \in Ref
         /\ \A s \in Services : service[s].ref \in Ref
BY DEF TypeOK, Request, Service

LEMMA ExistingStay ==
  ASSUME TypeOK, IdsStay, NEW ref \in Ref, Exists(ref)
  PROVE  Exists(ref)'
BY DEF IdsStay, Exists, Ref

LEMMA StayStep ==
  ASSUME TypeOK, ConnectionsStay, [Next]_vars
  PROVE  ConnectionsStay'
<1>1. ASSUME IdsStay, UNCHANGED service PROVE ConnectionsStay'
  BY <1>1, ExistingStay, RefsTyped DEF ConnectionsStay
<1>2. ASSUME NEW n \in Nonces, Handshake(n) PROVE IdsStay /\ UNCHANGED service
  BY <1>2, UpsertKeepsIds
     DEF Handshake, BeginRegistration, BeginOAuth, BeginAppInstall, CallbackFails,
         CompleteRegistration, CompleteOAuth, CompleteAppInstall, InsertOAuthConnection,
         InsertAppConnection, IdsStay, connVars, callVars
<1>3. CASE ReadConfig \/ CacheConfig \/ ClearCache \/ Webhook
  BY <1>1, <1>3, CacheFrame, WebhookFrame DEF IdsStay, connVars, callVars
<1>4. CASE WriteService
  <2>1. UNCHANGED conn /\ ForeignKey(request.to.ref)
    BY <1>4 DEF WriteService, connVars
  <2>2. \A s \in Services : service'[s] = service[s] \/ service'[s] = request.to
    BY <1>4 DEF WriteService, InsertService, UpdateServiceSource, TypeOK
  <2> QED
    BY <2>1, <2>2 DEF ConnectionsStay, ForeignKey, Exists
<1>5. ASSUME NEW s \in Services, DeleteService(s) PROVE ConnectionsStay'
  <2>1. UNCHANGED conn /\ \A t \in Services : service'[t] \in {service[t], NoService}
    BY <1>5 DEF DeleteService, DeleteServiceRow, connVars, TypeOK
  <2> QED
    BY <2>1 DEF ConnectionsStay, Exists, NoService
<1>6. CASE Catalog
  <2>1. IdsStay
    BY <1>6, CatalogFrame DEF IdsStay, connVars
  <2> QED
    BY <1>1, <1>4, <1>5, <1>6, <2>1
       DEF Catalog, CreateDatabase, CreateService, UpdateSource, RollBack
<1>7. ASSUME NEW k \in Keys, DisconnectConnection(k) PROVE ConnectionsStay'
  BY <1>1, <1>7 DEF DisconnectConnection, IdsStay, connVars
<1>8. CASE RevokeToken
  BY <1>1, <1>8, RevokedConnection DEF RevokeToken, IdsStay
<1>9. CASE DeleteConnectionByID
  <2>1. UNCHANGED service
    BY <1>9 DEF DeleteConnectionByID
  <2>2. ASSUME NEW s \in Services, service[s].ref # NoRef PROVE Exists(service[s].ref)'
    <3> DEFINE r == service[s].ref
    <3>1. r \in Ref /\ Exists(r)
      BY <2>2, RefsTyped DEF ConnectionsStay
    <3>2. conn'[r.key] = conn[r.key]
      <4>1. r.key \in Keys
        BY <3>1 DEF Ref
      <4>2. ASSUME r.key = leaving.ref.key, Exists(leaving.ref) PROVE r = leaving.ref
        BY <3>1, <4>2, RefsTyped DEF Exists, Ref
      <4>3. ASSUME r = leaving.ref PROVE InUse(leaving.ref)
        BY <4>3 DEF InUse
      <4> QED
        BY <1>9, <4>1, <4>2, <4>3, DeletedConnection
    <3> QED
      BY <2>1, <3>1, <3>2 DEF Exists
  <2> QED
    BY <2>1, <2>2 DEF ConnectionsStay
<1>10. CASE UNCHANGED vars
  BY <1>1, <1>10 DEF vars, IdsStay, connVars, callVars
<1> QED
  BY <1>1, <1>2, <1>3, <1>6, <1>7, <1>8, <1>9, <1>10 DEF Next, Disconnect

\* No service is left with a connection that is gone, although a disconnection counts
\* the services that use it in one step and deletes it in a later one
\* (DisconnectConnection, CreateService and UpdateSource).
THEOREM ServicesKeepConnections == Spec => []ConnectionsStay
<1>1. Init => ConnectionsStay
  BY DEF Init, ConnectionsStay, NoService
<1> QED
  BY <1>1, InitialTypes, StepTypes, StayStep, PTL DEF Spec

-----------------------------------------------------------------------------
(* The cached credentials *)

\* What a lookup has read is what is stored, until a registration overtakes it.
LookupFresh == lookup # NoLookup /\ ~lookup.overlapped /\ ~clearing => lookup.val = Configured

CacheInv == FreshUnlessOverlapped /\ LookupFresh

LEMMA CacheStep ==
  ASSUME TypeOK, CacheInv, [Next]_vars
  PROVE  CacheInv'
<1>1. ASSUME UNCHANGED appVars PROVE CacheInv'
  BY <1>1 DEF CacheInv, FreshUnlessOverlapped, LookupFresh, Configured, appVars
<1>2. CASE ReadConfig
  BY <1>2 DEF ReadConfig, CacheInv, FreshUnlessOverlapped, LookupFresh, Configured
<1>3. CASE CacheConfig
  BY <1>3 DEF CacheConfig, CacheInv, FreshUnlessOverlapped, LookupFresh, Configured
<1>4. CASE ClearCache
  <2>1. cached' = NoLookup /\ (lookup' # NoLookup => lookup'.overlapped)
    BY <1>4 DEF ClearCache, TypeOK, Lookup
  <2> QED
    BY <2>1 DEF CacheInv, FreshUnlessOverlapped, LookupFresh
<1>5. ASSUME NEW n \in Nonces, CompleteRegistration(n) PROVE CacheInv'
  BY <1>5 DEF CompleteRegistration, CacheInv, FreshUnlessOverlapped, LookupFresh
<1>6. ASSUME NEW n \in Nonces, Handshake(n) PROVE CacheInv'
  BY <1>1, <1>5, <1>6 DEF Handshake, BeginRegistration, BeginOAuth, BeginAppInstall,
     CallbackFails, CompleteOAuth, CompleteAppInstall
<1>7. CASE Catalog \/ Disconnect \/ Webhook
  BY <1>1, <1>7, CatalogFrame, WebhookFrame
     DEF Disconnect, DisconnectConnection, RevokeToken, DeleteConnectionByID
<1>8. CASE UNCHANGED vars
  BY <1>1, <1>8 DEF vars
<1> QED
  BY <1>2, <1>3, <1>4, <1>6, <1>7, <1>8 DEF Next

\* The cached credentials of the App are the stored ones, except while a registration
\* is between its commit and its clearCache, and except for a lookup that it overtook
\* (Current and CompleteRegistration).
THEOREM CacheIsFresh == Spec => []FreshUnlessOverlapped
<1>1. Init => CacheInv
  BY DEF Init, CacheInv, FreshUnlessOverlapped, LookupFresh
<1>2. CacheInv => FreshUnlessOverlapped
  BY DEF CacheInv
<1> QED
  BY <1>1, <1>2, InitialTypes, StepTypes, CacheStep, PTL DEF Spec

=============================================================================
