--------------------------- MODULE GatewayProofs ----------------------------
(***************************************************************************)
(* Proofs about Gateway, for every configuration that a start may end in   *)
(* and every request, login and chain of redirects: who gets through to    *)
(* which upstream, who is turned away, and what is said of the answer.     *)
(***************************************************************************)
EXTENDS Gateway, SetupProofs

-----------------------------------------------------------------------------
(* The inductive invariant                                                 *)

\* Requests are served once the start is over, and it stays over.
Running == pc # "idle" \/ DOMAIN jar # {} => stage = "ready"

\* How many redirects may follow a request.
Rank(r) ==
    IF r.mount = "oidc" /\ r.path = "login" THEN 3
    ELSE IF r.mount = "oidc" /\ r.path = "callback" THEN 2
    ELSE IF r.mount \in {"root", "legacy"} THEN 1 ELSE 0

HeaderValues == {"own"} \cup {tenants[i].id : i \in Indices}
Places == {"idle", "route", "oidc", "auth", "header", "authorize", "dispatch", "upstream", "unwind", "done"}
Context ==
    /\ pc \in Places /\ subject \in SUBSET STRING /\ groups \in SUBSET (SUBSET STRING)
    /\ header \in Seq(HeaderValues) /\ deadline \in {"none", "running", "over"}
Jar == \A n \in DOMAIN jar : jar[n] \in Credential
Asked ==
    /\ req \in Request /\ origin \in Request
    /\ req.path \in Paths(req.mount) /\ origin.path \in Paths(origin.mount)
    /\ \A c, d \in req.cookie : c = d
    /\ hops \in Nat /\ hops + Rank(req) <= 3
Idle == pc = "idle" => req = NoRequest /\ origin = NoRequest

\* The answer takes shape on the way out.
Codes == {0, 200, 301, 302, 303, 400, 401, 403, 404, 405, 500, 502, 504}
Answer ==
    /\ sent.to \in Upstreams \cup {"none"} /\ status \in Codes /\ panicked \in BOOLEAN
    /\ counted \in {0, 200, 500, 502} /\ report \in {"none", "debug", "warn", "panic"}
    /\ pc \notin {"upstream", "unwind", "done"} => sent.to = "none"
    /\ pc = "upstream" => sent.to # "none"
    /\ pc \notin {"unwind", "done"} => status = 0 /\ ~panicked /\ counted = 0
    /\ pc = "unwind" =>
         /\ status = 0 => panicked \/ sent.to = "remote_write"
         /\ IF sent.to \in {"none", "fanout"} \/ panicked THEN counted = 0
            ELSE counted = IF status = 0 THEN 200 ELSE status
    /\ ServerErrorsReported /\ CountedAsAnswered

\* Where a response redirects to.
Redirected ==
    /\ location = Nowhere \/ location = [to |-> location.to, tenant |-> req.tenant]
    /\ location.to \in {"nowhere", "provider", "root", "graph", "lost"}
    /\ location.to = "nowhere" => location = Nowhere
    /\ location.to # "nowhere" => pc \in {"unwind", "done"}
    /\ location.to = "provider" => req.mount = "oidc" /\ req.path = "login"
    /\ location.to = "root" => req.mount = "oidc" /\ req.path = "callback"
    /\ location.to \in {"provider", "root"} => req.tenant \in DOMAIN oidcMiddlewares
    /\ location.to = "graph" => req.mount = "root"
    /\ location.to = "lost" => req.mount = "legacy"

\* The credentials that the method of tenant i looks at.
Usable(i) ==
    IF tenants[i].oidc # {} THEN IF req.via = "malformed" THEN {} ELSE Tokens
    ELSE IF req.via = "certificate" THEN {req.credential} ELSE {}
Wanted == IF req.path \in {"receive", "alerts", "push"} THEN "write" ELSE "read"

\* Behind the authentication the context is that of a credential of the tenant.
Identity ==
    /\ req.tenant \in DOMAIN middlewares
    /\ \E c \in Usable(Entry) :
         /\ c.by = Entry /\ subject = {SubjectOf(c.who, Entry)} /\ UNION groups = GroupsOf(c.who, Entry)
Labelled == header # <<>> /\ header[Len(header)] = tenantIDs[req.tenant]
MayRead == Allowed("read", UNION groups)
Identified ==
    /\ pc = "oidc" => req.mount = "oidc"
    /\ pc \in {"auth", "header", "authorize", "dispatch", "upstream"} => req.mount # "oidc"
    /\ pc \in {"header", "authorize", "dispatch"} => Identity
    /\ pc \in {"authorize", "dispatch"} => req.mount # "root" /\ Labelled
    /\ pc = "dispatch" /\ req.mount = "legacy" => MayRead

\* Why a request is turned away: nobody is known by what it brings, or the RBAC
\* file does not grant somebody who is.
Unidentified == req.tenant \notin DOMAIN middlewares \/ Usable(Entry) = {}
Denied ==
    /\ req.tenant \in DOMAIN middlewares
    /\ \E c \in Usable(Entry) :
         /\ c.by = Entry
         /\ ~Granted(SubjectOf(c.who, Entry), GroupsOf(c.who, Entry), Wanted, Resource(req.mount), req.tenant)
Refusals ==
    pc \in {"unwind", "done"} /\ req.mount # "oidc" =>
        (status = 401 => Unidentified) /\ (status = 403 => Denied)

\* The way of a login.
LoginWay ==
    pc # "idle" /\ origin.path = "login" =>
        /\ req.tenant = origin.tenant
        /\ \/ req.mount = "oidc"
           \/ /\ req.mount = "root" \/ (req.mount = "metrics" /\ req.path = "graph")
              /\ req.via = "none" /\ req.tenant \in DOMAIN oidcMiddlewares
ByOIDC == middlewares[origin.tenant] = [tenant |-> oidcMiddlewares[origin.tenant], method |-> "oidc"]
Lands ==
    origin.path = "login" /\ req.mount # "oidc" /\ ByOIDC =>
        /\ pc = "upstream" => sent.to = "ui"
        /\ pc \in {"unwind", "done"} /\ location = Nowhere =>
             sent.to = "ui" \/ status \in {400, 403} \/ (status = 401 /\ req.cookie = {})

GatewayInv ==
    /\ SetupInv /\ Running /\ Context /\ Jar /\ Asked /\ Idle /\ Answer /\ Redirected
    /\ Identified /\ UpstreamAuthorized /\ TenantHeader /\ Refusals /\ LoginWay /\ Lands

-----------------------------------------------------------------------------
(* Frames                                                                  *)

\* What a request and its tenant determine stays as long as they do.
LEMMA SetupFrame ==
    ASSUME UNCHANGED setupVars
    PROVE  /\ UNCHANGED <<stage, phase, tenants, provider, tenantIDs, oidcMiddlewares, middlewares>>
           /\ UNCHANGED <<roles, bindings, loaded, bound, rs, grants, config, routes, tlsConfig>>
BY DEF setupVars, startVars, rbacVars, tenantVars, wiringVars, handlerVars

LEMMA TypeFrame ==
    ASSUME UNCHANGED tenants
    PROVE  /\ Indices' = Indices /\ Credential' = Credential /\ Request' = Request
           /\ HeaderValues' = HeaderValues
BY DEF Indices, Credential, Request, HeaderValues, AllNames, Mounts, Paths

LEMMA RequestFrame ==
    ASSUME UNCHANGED <<setupVars, req>>
    PROVE  /\ Unidentified' <=> Unidentified
           /\ Denied' <=> Denied
           /\ UNCHANGED <<subject, groups>> => (Identity' <=> Identity) /\ (MayRead' <=> MayRead)
           /\ UNCHANGED header => (Labelled' <=> Labelled)
           /\ UNCHANGED sent => (UpstreamAuthorized' <=> UpstreamAuthorized) /\ (TenantHeader' <=> TenantHeader)
           /\ UNCHANGED <<origin, hops>> => (Asked' <=> Asked)
           /\ UNCHANGED origin => (ByOIDC' <=> ByOIDC)
<1>1. UNCHANGED <<tenants, tenantIDs, oidcMiddlewares, middlewares, roles, bindings, grants>>
  BY SetupFrame
<1>2. Unidentified' <=> Unidentified
  BY <1>1 DEF Unidentified, Usable, Tokens, Entry
<1>3. Denied' <=> Denied
  BY <1>1 DEF Denied, Usable, Tokens, Entry, Granted, Holds, InForce, SubjectOf, GroupsOf, Wanted, Resource
<1>4. UNCHANGED <<subject, groups>> => (Identity' <=> Identity)
  BY <1>1 DEF Identity, Usable, Tokens, Entry, SubjectOf, GroupsOf
<1>5. UNCHANGED <<subject, groups>> => (MayRead' <=> MayRead)
  BY <1>1 DEF MayRead, Allowed, Authorize, Resource
<1>6. UNCHANGED header => (Labelled' <=> Labelled)
  BY <1>1 DEF Labelled
<1>7. UNCHANGED sent => (UpstreamAuthorized' <=> UpstreamAuthorized)
  BY <1>1 DEF UpstreamAuthorized, Granted, Holds, InForce, SubjectOf, GroupsOf, Shown, Writes, ResourceOf,
              Indices
<1>8. UNCHANGED sent => (TenantHeader' <=> TenantHeader)
  BY <1>1 DEF TenantHeader, Indices
<1>9. UNCHANGED <<origin, hops>> => (Asked' <=> Asked)
  BY <1>1, TypeFrame DEF Asked, Rank
<1>10. UNCHANGED origin => (ByOIDC' <=> ByOIDC)
  BY <1>1 DEF ByOIDC
<1> QED
  BY <1>2, <1>3, <1>4, <1>5, <1>6, <1>7, <1>8, <1>9, <1>10

\* Nothing of the start happens once requests are served.
LEMMA ReadyStays == stage = "ready" => ~SetupNext
BY DEF SetupNext, ParseFlags, LoadFiles, NewLogger, NewHealthchecks, NewInstrumentationMiddleware,
       AddTenants, NewLegacyHandler, NewMetricsHandler, NewAlertmanagerHandler, NewLogsHandler, Handler,
       NewServerConfig, NewCertReloader

-----------------------------------------------------------------------------
(* What the start has left                                                 *)

LEMMA PathsOf ==
    /\ Paths("root") = {""} /\ Paths("oidc") = {"login", "callback", "other"}
    /\ Paths("legacy") = {"query", "graph", "other"}
    /\ Paths("metrics") = {"query", "graph", "receive", "other"}
    /\ Paths("alertmanager") = {"alerts", "other"}
    /\ Paths("logs") = {"query", "tail", "push", "other"}
BY DEF Paths

\* What a route of the file demands is what its upstream is for, and what
\* its path says.
Demands(r) ==
    /\ r.permission = (IF Writes(r.to) THEN "write" ELSE "read")
    /\ r.permission = (IF r.path \in {"receive", "alerts", "push"} THEN "write" ELSE "read")
    /\ ResourceOf(r.to) = Resource(r.mount)
LEMMA RouteFacts ==
    ASSUME SetupInv, stage = "ready", NEW r \in routes
    PROVE  /\ r.mount \in {"legacy", "metrics", "alertmanager", "logs"}
           /\ r.mount # "legacy" => Demands(r) /\ r.to \in Upstreams
           /\ r.mount = "legacy" => \/ r.path = "query" /\ r.to = "read"
                                    \/ r.path = "graph" /\ r.to = "none"
           /\ r.mount = "metrics" /\ r.path = "graph" => r.to = "ui" /\ r.method = "any"
<1>1. \/ r \in LegacyRoutes /\ r.mount = "legacy"
      \/ r \in MetricsRoutes /\ r.mount = "metrics"
      \/ r \in AlertRoutes /\ r.mount = "alertmanager"
      \/ r \in LogRoutes /\ r.mount = "logs"
  BY RoutesOfMounts DEF AfterHandlers
<1>2. CASE r \in LegacyRoutes /\ r.mount = "legacy"
  BY <1>2 DEF LegacyRoutes, To
<1>3. CASE r \in MetricsRoutes /\ r.mount = "metrics"
  <2>1. \/ r = To("metrics", "query", "any", "read", "read")
        \/ r = To("metrics", "receive", "any", "write", "remote_write")
        \/ r = To("metrics", "receive", "any", "write", "write")
        \/ r = To("metrics", "graph", "any", "read", "ui")
        \/ r = To("metrics", "other", "any", "read", "ui")
    BY <1>3, PathsOf DEF MetricsRoutes
  <2> QED
    BY <1>3, <2>1 DEF To, Demands, Writes, ResourceOf, Resource, Upstreams
<1>4. CASE r \in AlertRoutes /\ r.mount = "alertmanager"
  <2>1. r = To("alertmanager", "alerts", "POST", "write", "fanout")
    BY <1>4 DEF AlertRoutes
  <2> QED
    BY <1>4, <2>1 DEF To, Demands, Writes, ResourceOf, Resource, Upstreams
<1>5. CASE r \in LogRoutes /\ r.mount = "logs"
  <2>1. \/ r = To("logs", "query", "any", "read", "logs_read")
        \/ r = To("logs", "tail", "any", "read", "logs_tail")
        \/ r = To("logs", "push", "any", "write", "logs_write")
    <3> DEFINE read == Parsed(flags.logsRead, "logs_read")
               tail == Parsed(flags.logsTail, "logs_tail")
               write == Parsed(flags.logsWrite, "logs_write")
    <3>1. r \in LogsRoutes(read, tail, write)
      BY <1>5, LogsEndpoints DEF AfterHandlers
    <3>2. read \in {"nil", "logs_read"} /\ tail \in {"nil", "logs_tail"} /\ write \in {"nil", "logs_write"}
      BY DEF Parsed
    <3> HIDE DEF read, tail, write
    <3>3. /\ r.to # "nil"
          /\ \/ r = To("logs", "query", "any", "read", read)
             \/ r = To("logs", "tail", "any", "read", tail)
             \/ r = To("logs", "push", "any", "write", write)
      BY <3>1 DEF LogsRoutes
    <3>4. To("logs", "query", "any", "read", "nil").to = "nil" /\ To("logs", "tail", "any", "read", "nil").to = "nil"
          /\ To("logs", "push", "any", "write", "nil").to = "nil"
      BY DEF To
    <3> QED
      BY <3>2, <3>3, <3>4
  <2> QED
    BY <1>5, <2>1 DEF To, Demands, Writes, ResourceOf, Resource, Upstreams
<1> QED
  BY <1>1, <1>2, <1>3, <1>4, <1>5

\* The UI has a route of its own.
LEMMA UIRoute ==
    ASSUME SetupInv, stage = "ready"
    PROVE  \E r \in routes : r.mount = "metrics" /\ r.path = "graph"
<1>1. To("metrics", "graph", "any", "read", "ui") \in MetricsRoutes
  BY PathsOf DEF MetricsRoutes
<1>2. MetricsRoutes \subseteq routes
  BY DEF SetupInv, Routed, AfterHandlers
<1> QED
  BY <1>1, <1>2 DEF To

LEMMA EntryFacts ==
    ASSUME SetupInv, stage = "ready", req.tenant \in DOMAIN middlewares
    PROVE  /\ Entry \in Indices /\ tenants[Entry].name = req.tenant
           /\ middlewares[req.tenant].method \in Method
           /\ middlewares[req.tenant].method = "mtls" => tenants[Entry].oidc = {}
           /\ middlewares[req.tenant].method = "oidc" => tenants[Entry].oidc # {}
           /\ \A c, d \in tenants[Entry].oidc : c = d
<1>1. StartInv /\ phase = "serving"
  BY DEF SetupInv, InPhase, AfterHandlers
<1>2. \A i \in Indices : \A c, d \in tenants[i].oidc : c = d
  BY <1>1, TenantFacts DEF StartInv
<1>3. /\ Entry \in Indices /\ tenants[Entry].name = req.tenant
      /\ middlewares[req.tenant].method \in Method
      /\ middlewares[req.tenant].method = "mtls" => tenants[Entry].oidc = {}
      /\ middlewares[req.tenant].method = "oidc" => tenants[Entry].oidc # {}
  BY <1>1, ServedEntry DEF Entry
<1> QED
  BY <1>2, <1>3

\* The ID that goes into the tenant header.
LEMMA HeaderFacts ==
    ASSUME SetupInv, stage = "ready", req.tenant \in DOMAIN middlewares
    PROVE  \E i \in Indices : /\ tenants[i].name = req.tenant /\ tenantIDs[req.tenant] = tenants[i].id
                              /\ \A j \in Indices : tenants[j].name = req.tenant => j <= i
<1>1. /\ StartInv /\ phase = "serving"
      /\ IdentifiedUpTo(Len(tenants)) /\ Indices = 1 .. Len(tenants)
  BY TenantFacts DEF SetupInv, InPhase, AfterHandlers, StartInv, TenantsAdded, AddedUpTo
<1>2. Entry \in Indices /\ tenants[Entry].name = req.tenant
  BY EntryFacts
<1>3. req.tenant \in DOMAIN tenantIDs
  BY <1>1, <1>2 DEF IdentifiedUpTo
<1> QED
  BY <1>1, <1>3 DEF IdentifiedUpTo

\* The RBAC file is in force.
LEMMA Exact ==
    ASSUME SetupInv, stage = "ready", NEW s, NEW gs, NEW p \in Permissions, NEW r, NEW t
    PROVE  Authorize(s, gs, p, r, t) <=> Granted(s, gs, p, r, t)
<1>1. RBACInv /\ Loaded
  BY DEF SetupInv, InPhase, AfterHandlers, StartInv, CAsParsed, Phases
<1> QED
  BY <1>1, ExactForAll

-----------------------------------------------------------------------------
(* No request                                                              *)

LEMMA NoRequestTyped ==
    /\ NoCredential \in Credential /\ NoRequest \in Request
    /\ NoRequest.path \in Paths(NoRequest.mount) /\ NoRequest.cookie = {}
    /\ NoRequest.mount = "root" /\ NoRequest.path = ""
<1>1. NoCredential \in Credential
  <2>1. (CHOOSE p \in People : TRUE) \in People
    BY GatewayAssumption
  <2> QED
    BY <2>1 DEF NoCredential, Credential
<1>2. /\ NoRequest.path = "" /\ NoRequest.mount = "root" /\ NoRequest.cookie = {}
      /\ NoRequest.tenant = Unknown /\ NoRequest.via = "none" /\ NoRequest.credential = NoCredential
      /\ NoRequest.method = "GET" /\ NoRequest.answer = "no_code"
  BY DEF NoRequest
<1>3. "" \in UNION {Paths(m) : m \in Mounts}
  BY PathsOf DEF Mounts
<1>4. NoRequest \in Request
  BY <1>1, <1>3 DEF NoRequest, Request, Mounts, AllNames
<1> QED
  BY <1>1, <1>2, <1>4, PathsOf

Blank ==
    /\ pc = "idle" /\ req = NoRequest /\ origin = NoRequest
    /\ subject = {} /\ groups = {} /\ header = <<>> /\ deadline = "none"
    /\ sent = NoUpstream /\ status = 0 /\ location = Nowhere /\ hops = 0
    /\ panicked = FALSE /\ counted = 0 /\ report = "none"

LEMMA BlankInv == SetupInv /\ Running /\ Jar /\ Blank => GatewayInv
<1> SUFFICES ASSUME SetupInv, Running, Jar, Blank PROVE GatewayInv
  OBVIOUS
<1>1. Context
  BY DEF Blank, Context, Places
<1>2. Asked /\ Idle
  <2>1. hops \in Nat /\ hops + Rank(req) <= 3
    <3>1. Rank(NoRequest) = 1
      BY NoRequestTyped DEF Rank
    <3>2. hops = 0 /\ req = NoRequest
      BY DEF Blank
    <3> QED
      BY <3>1, <3>2
  <2>2. \A c, d \in req.cookie : c = d
    BY NoRequestTyped DEF Blank
  <2> QED
    BY <2>1, <2>2, NoRequestTyped DEF Blank, Asked, Idle
<1>3. Answer
  BY DEF Blank, Answer, NoUpstream, Codes, ServerErrorsReported, CountedAsAnswered
<1>4. Redirected
  BY DEF Blank, Redirected, Nowhere
<1>5. UpstreamAuthorized /\ TenantHeader
  BY DEF Blank, UpstreamAuthorized, TenantHeader, NoUpstream
<1>6. Identified /\ Refusals /\ LoginWay /\ Lands
  BY DEF Blank, Identified, Refusals, LoginWay, Lands
<1> QED
  BY <1>1, <1>2, <1>3, <1>4, <1>5, <1>6 DEF GatewayInv

LEMMA GatewayInvInit == Init => GatewayInv
<1> SUFFICES ASSUME Init PROVE GatewayInv
  OBVIOUS
<1>1. SetupInv
  BY SetupInvInit DEF Init
<1>2. Running /\ Jar /\ Blank
  BY DEF Init, Running, Jar, Blank, EmptyMap
<1> QED
  BY <1>1, <1>2, BlankInv

LEMMA LeaveInv == ASSUME GatewayInv, Leave PROVE GatewayInv'
<1>1. SetupInv'
  BY SetupInvNext DEF Leave, GatewayInv
<1>2. Blank'
  BY DEF Leave, Blank
<1>3. Running' /\ Jar'
  BY SetupFrame, TypeFrame DEF Leave, GatewayInv, Running, Jar
<1>4. (SetupInv /\ Running /\ Jar /\ Blank => GatewayInv)'
  BY BlankInv, PTL
<1> QED
  BY <1>1, <1>2, <1>3, <1>4

\* The start of the gateway goes on before there are requests.
LEMMA SetupStepInv ==
    ASSUME GatewayInv, SetupNext, UNCHANGED <<pc, reqVars, logVars, jar>>
    PROVE  GatewayInv'
<1>1. SetupInv'
  BY SetupInvNext DEF GatewayInv
<1>2. pc = "idle" /\ DOMAIN jar = {}
  BY ReadyStays DEF GatewayInv, Running
<1>3. UNCHANGED tenants
  <2>1. Startup => UNCHANGED tenants
    BY DEF Startup, ReadFails, LoadTenant, EndTenants, LoadRBAC, AddTenant, EndAdding, ProviderFails,
           NewProvider, EndProviders, Merge, Fatal, tenantVars
  <2>2. CASE LoadFiles \/ AddTenants
    BY <2>1, <2>2 DEF LoadFiles, AddTenants
  <2>3. ASSUME NEW to, Proceed(to) PROVE UNCHANGED tenants
    BY <2>3 DEF Proceed, startVars, tenantVars
  <2>4. ASSUME NEW collectors, NEW then, Register(collectors, then) PROVE UNCHANGED tenants
    BY <2>3, <2>4 DEF Register
  <2>5. CASE ParseFlags \/ NewServerConfig \/ NewCertReloader
    BY <2>3, <2>5 DEF ParseFlags, NewServerConfig, NewCertReloader, Die
  <2>6. CASE NewLogger \/ NewHealthchecks \/ NewInstrumentationMiddleware
    BY <2>3, <2>4, <2>6 DEF NewLogger, NewHealthchecks, NewInstrumentationMiddleware, Die
  <2>7. CASE NewLegacyHandler \/ NewMetricsHandler \/ NewAlertmanagerHandler \/ NewLogsHandler
    BY <2>4, <2>7 DEF NewLegacyHandler, NewMetricsHandler, NewAlertmanagerHandler, NewLogsHandler, Handler
  <2> QED
    BY <2>2, <2>5, <2>6, <2>7 DEF SetupNext
<1>4. Context' /\ Jar' /\ Asked' /\ Idle'
  BY <1>3, TypeFrame DEF GatewayInv, Context, Jar, Asked, Idle, Rank, reqVars
<1>5. Running' /\ Answer' /\ Redirected'
  <2>1. Running' /\ Answer'
    BY <1>2 DEF GatewayInv, Running, Answer, ServerErrorsReported, CountedAsAnswered, reqVars, logVars
  <2>2. location = Nowhere /\ location.to = "nowhere"
    BY <1>2 DEF GatewayInv, Redirected, Nowhere
  <2> QED
    BY <2>1, <2>2 DEF Redirected, Nowhere, reqVars
<1>6. UpstreamAuthorized' /\ TenantHeader'
  BY <1>2 DEF GatewayInv, Answer, UpstreamAuthorized, TenantHeader, reqVars
<1>7. Identified' /\ Refusals' /\ LoginWay' /\ Lands'
  BY <1>2 DEF Identified, Refusals, LoginWay, Lands
<1> QED
  BY <1>1, <1>4, <1>5, <1>6, <1>7 DEF GatewayInv

-----------------------------------------------------------------------------
(* Requests begin                                                          *)

LEMMA Recookied ==
    ASSUME NEW r \in Request, Cookie(r.tenant) \in SUBSET Credential
    PROVE  /\ WithCookie(r) \in Request /\ WithCookie(r).mount = r.mount /\ WithCookie(r).path = r.path
           /\ WithCookie(r).tenant = r.tenant /\ WithCookie(r).via = r.via
           /\ WithCookie(r).cookie = Cookie(r.tenant)
BY DEF Request, WithCookie

LEMMA BroughtTyped ==
    ASSUME NEW c \in Credential
    PROVE  /\ \A via \in {"malformed", "bearer", "certificate"} : Bearing(via, c) \in Request
           /\ \A a \in {"error", "no_code", "bad_state", "code"} : Answering(a, c) \in Request
<1>1. NoRequest \in Request
  BY NoRequestTyped
<1>2. ASSUME NEW via \in {"malformed", "bearer", "certificate"} PROVE Bearing(via, c) \in Request
  BY <1>1 DEF Request, Bearing
<1>3. ASSUME NEW a \in {"error", "no_code", "bad_state", "code"} PROVE Answering(a, c) \in Request
  BY <1>1 DEF Request, Answering
<1> QED
  BY <1>2, <1>3

LEMMA AddressedTyped ==
    ASSUME NEW r \in Request, NEW m \in Mounts, NEW n, n \in AllNames \cup {"graph"}, NEW p \in Paths(m),
           NEW method, method \in {"GET", "POST"}
    PROVE  LET q == Addressed(r, m, n, p, method) IN
           /\ q \in Request /\ q.mount = m /\ q.tenant = n /\ q.path = p /\ q.via = r.via
<1>1. p \in UNION {Paths(k) : k \in Mounts}
  OBVIOUS
<1> QED
  BY <1>1 DEF Request, Addressed

\* The way of a request whose chain of redirects began with a login.
OnLoginWay(r, o) ==
    /\ r.tenant = o.tenant
    /\ \/ r.mount = "oidc"
       \/ /\ r.mount = "root" \/ (r.mount = "metrics" /\ r.path = "graph")
          /\ r.via = "none" /\ r.tenant \in DOMAIN oidcMiddlewares

LEMMA BeginInv ==
    ASSUME GatewayInv, stage = "ready", NEW r \in Request, r.path \in Paths(r.mount),
           NEW own, own \in {<<>>, <<"own">>}, Start(r, own), hops' \in Nat, hops' + Rank(r) <= 3,
           origin' \in Request, origin'.path \in Paths(origin'.mount),
           origin'.path = "login" => OnLoginWay(r, origin')
    PROVE  GatewayInv'
<1> DEFINE c == Cookie(r.tenant)
<1>1. c \in SUBSET Credential /\ \A a, b \in c : a = b
  BY DEF GatewayInv, Jar, Cookie
<1>2. UNCHANGED <<setupVars, jar>> /\ req' = WithCookie(r)
  BY DEF Start
<1> HIDE DEF c
<1>3. /\ req' \in Request /\ req'.mount = r.mount /\ req'.path = r.path /\ req'.tenant = r.tenant
      /\ req'.via = r.via /\ req'.cookie = c
  BY <1>1, <1>2, Recookied DEF c
<1>4. /\ Request' = Request /\ HeaderValues' = HeaderValues /\ Credential' = Credential
      /\ oidcMiddlewares' = oidcMiddlewares /\ stage' = stage
  BY <1>2, TypeFrame, SetupFrame
<1>5. SetupInv' /\ Running' /\ Jar'
  <2>1. SetupInv'
    BY <1>2, SetupInvNext DEF GatewayInv
  <2> QED
    BY <1>2, <1>4, <2>1 DEF GatewayInv, Running, Jar
<1>6. Context'
  <2>1. own \in Seq(HeaderValues)
    <3>1. "own" \in HeaderValues
      BY DEF HeaderValues
    <3>2. <<>> \in Seq(HeaderValues) /\ <<"own">> \in Seq(HeaderValues)
      BY <3>1
    <3> QED
      BY <3>2
  <2> QED
    BY <1>4, <2>1 DEF Start, Context, Places
<1>7. Asked'
  <2>1. Rank(req') = Rank(r)
    BY <1>3 DEF Rank
  <2> QED
    BY <1>1, <1>3, <1>4, <2>1 DEF Asked
<1>8. Idle' /\ Answer' /\ Redirected'
  <2>1. Idle' /\ Redirected'
    BY DEF Start, Idle, Redirected, Nowhere
  <2>2. Answer'
    BY DEF Start, Answer, ServerErrorsReported, CountedAsAnswered, NoUpstream, Codes
  <2> QED
    BY <2>1, <2>2
<1>9. Identified' /\ Refusals' /\ Lands'
  BY DEF Start, Identified, Refusals, Lands
<1>10. UpstreamAuthorized' /\ TenantHeader'
  BY DEF Start, NoUpstream, UpstreamAuthorized, TenantHeader
<1>11. LoginWay'
  BY <1>3, <1>4 DEF LoginWay, OnLoginWay
<1> QED
  BY <1>5, <1>6, <1>7, <1>8, <1>9, <1>10, <1>11 DEF GatewayInv

LEMMA ArriveInv == ASSUME GatewayInv, Arrive PROVE GatewayInv'
<1>1. stage = "ready" /\ hops' = 0
  BY DEF Arrive
<1>2. PICK m \in Mounts, n \in {k \in AllNames : DOMAIN jar \subseteq {k}}, own \in {<<>>, <<"own">>} :
        \E p \in Paths(m), method \in IF m \in {"oidc", "alertmanager"} THEN {"GET", "POST"} ELSE {"GET"} :
        \E r \in Brought(p) :
          Start(Addressed(r, m, n, p, method), own) /\ origin' = Addressed(r, m, n, p, method)
  BY DEF Arrive
<1>3. PICK p \in Paths(m), method \in {"GET", "POST"} :
        \E r \in Brought(p) :
          Start(Addressed(r, m, n, p, method), own) /\ origin' = Addressed(r, m, n, p, method)
  BY <1>2
<1>4. PICK r \in Brought(p) :
        Start(Addressed(r, m, n, p, method), own) /\ origin' = Addressed(r, m, n, p, method)
  BY <1>3
<1>5. r \in Request
  <2>1. NoCredential \in Credential
    BY NoRequestTyped
  <2>2. \/ r = Bearing("malformed", NoCredential)
        \/ \E via \in {"bearer", "certificate"}, c \in Credential : r = Bearing(via, c)
        \/ \E a \in {"error", "no_code", "bad_state", "code"} : r = Answering(a, NoCredential)
    BY <1>4 DEF Brought
  <2> QED
    BY <2>1, <2>2, BroughtTyped
<1> DEFINE whole == Addressed(r, m, n, p, method)
<1>6. whole \in Request /\ whole.mount = m /\ whole.path = p /\ whole.tenant = n
  BY <1>5, AddressedTyped
<1>7. Start(whole, own) /\ origin' = whole
  BY <1>4
<1>8. p = "login" => m = "oidc"
  BY PathsOf DEF Mounts
<1> HIDE DEF whole
<1>9. Rank(whole) \in 0 .. 3
  BY DEF Rank
<1>10. Request' = Request
  BY <1>7, SetupFrame, TypeFrame DEF Start
<1>11. hops' \in Nat /\ hops' + Rank(whole) <= 3
  BY <1>1, <1>9
<1>12. origin' \in Request /\ origin'.path \in Paths(origin'.mount) /\ whole.path \in Paths(whole.mount)
  BY <1>6, <1>7
<1>13. origin'.path = "login" => OnLoginWay(whole, origin')
  BY <1>6, <1>7, <1>8 DEF OnLoginWay
<1> QED
  BY <1>1, <1>6, <1>7, <1>11, <1>12, <1>13, BeginInv

LEMMA RedirectedTenant ==
    ASSUME GatewayInv, location.to # "nowhere"
    PROVE  location.tenant = req.tenant
<1>1. location = [to |-> location.to, tenant |-> req.tenant]
  BY DEF GatewayInv, Redirected, Nowhere
<1> QED
  BY <1>1

LEMMA FollowInv == ASSUME GatewayInv, Follow PROVE GatewayInv'
<1>1. /\ pc = "done" /\ stage = "ready" /\ hops' = hops + 1 /\ origin' = origin
      /\ hops \in Nat /\ req \in Request /\ origin \in Request
      /\ hops + Rank(req) <= 3 /\ origin.path \in Paths(origin.mount)
  BY DEF Follow, GatewayInv, Running, Asked
<1>2. req.tenant \in AllNames \cup {"graph"}
  BY <1>1 DEF Request
<1>3. Request' = Request
  <2>1. ASSUME NEW r, NEW own, Start(r, own) PROVE UNCHANGED tenants
    BY <2>1, SetupFrame DEF Start
  <2> QED
    BY <2>1, TypeFrame DEF Follow
<1>4. NoRequest \in Request /\ NoRequest.via = "none"
  BY NoRequestTyped DEF NoRequest
<1>5. ASSUME NEW m \in {"root", "metrics"}, NEW n, n \in AllNames \cup {"graph"}, NEW p, p \in Paths(m),
             LET r == Addressed(NoRequest, m, n, p, "GET") IN
               /\ Start(r, <<>>)
               /\ Rank(r) < Rank(req)
               /\ origin.path = "login" => OnLoginWay(r, origin)
      PROVE  GatewayInv'
  <2> DEFINE r == Addressed(NoRequest, m, n, p, "GET")
  <2>1. r \in Request /\ r.path \in Paths(r.mount)
    BY <1>4, <1>5, AddressedTyped DEF Mounts
  <2>2. Start(r, <<>>) /\ Rank(r) < Rank(req) /\ (origin.path = "login" => OnLoginWay(r, origin))
    BY <1>5
  <2> HIDE DEF r
  <2>3. hops' \in Nat /\ hops' + Rank(r) <= 3
    <3>1. Rank(r) \in Nat /\ Rank(req) \in Nat
      BY DEF Rank
    <3> QED
      BY <1>1, <2>2, <3>1
  <2>4. origin' \in Request /\ origin'.path \in Paths(origin'.mount)
    BY <1>1
  <2>5. origin'.path = "login" => OnLoginWay(r, origin')
    BY <1>1, <2>2 DEF OnLoginWay
  <2> QED
    BY <1>1, <2>1, <2>2, <2>3, <2>4, <2>5, BeginInv
<1>6. CASE location.to = "root" /\ Start(Addressed(NoRequest, "root", location.tenant, "", "GET"), <<>>)
  <2> DEFINE r == Addressed(NoRequest, "root", req.tenant, "", "GET")
  <2>1. /\ req.mount = "oidc" /\ req.path = "callback" /\ location.tenant = req.tenant
        /\ req.tenant \in DOMAIN oidcMiddlewares
    <3>1. location.to = "root"
      BY <1>6
    <3> QED
      BY <3>1, RedirectedTenant DEF GatewayInv, Redirected
  <2>2. r.mount = "root" /\ r.via = "none" /\ r.tenant = req.tenant
    <3>1. "root" \in Mounts /\ "GET" \in {"GET", "POST"}
      BY DEF Mounts
    <3>2. NoRequest \in Request /\ NoRequest.via = "none" /\ req.tenant \in AllNames \cup {"graph"}
      BY <1>2, <1>4
    <3>3. \A p \in Paths("root") :
            LET q == Addressed(NoRequest, "root", req.tenant, p, "GET")
            IN q.mount = "root" /\ q.via = "none" /\ q.tenant = req.tenant
      BY <3>1, <3>2, AddressedTyped
    <3> QED
      BY <3>3, PathsOf, Zenon
  <2>3. Start(r, <<>>)
    BY <1>6, <2>1
  <2> HIDE DEF r
  <2>4. Rank(r) < Rank(req)
    BY <2>1, <2>2 DEF Rank
  <2>5. origin.path = "login" => OnLoginWay(r, origin)
    BY <1>1, <2>1, <2>2 DEF GatewayInv, LoginWay, OnLoginWay
  <2> QED
    BY <1>2, <1>5, <2>3, <2>4, <2>5, PathsOf DEF r
<1>7. CASE /\ location.to = "graph"
           /\ Start(Addressed(NoRequest, "metrics", location.tenant, "graph", "GET"), <<>>)
  <2> DEFINE r == Addressed(NoRequest, "metrics", req.tenant, "graph", "GET")
  <2>1. req.mount = "root" /\ location.tenant = req.tenant
    BY <1>7 DEF GatewayInv, Redirected, Nowhere
  <2>2. r.mount = "metrics" /\ r.path = "graph" /\ r.via = "none" /\ r.tenant = req.tenant
    <3>1. "metrics" \in Mounts /\ "graph" \in Paths("metrics") /\ "GET" \in {"GET", "POST"}
      BY PathsOf DEF Mounts
    <3>2. NoRequest \in Request /\ NoRequest.via = "none" /\ req.tenant \in AllNames \cup {"graph"}
      BY <1>2, <1>4
    <3> QED
      BY <3>1, <3>2, AddressedTyped
  <2>3. Start(r, <<>>)
    BY <1>7, <2>1
  <2> HIDE DEF r
  <2>4. Rank(r) < Rank(req)
    BY <2>1, <2>2 DEF Rank
  <2>5. origin.path = "login" => OnLoginWay(r, origin)
    BY <1>1, <2>1, <2>2 DEF GatewayInv, LoginWay, OnLoginWay
  <2> QED
    BY <1>2, <1>5, <2>3, <2>4, <2>5, PathsOf DEF r
<1>8. CASE /\ location.to = "lost"
           /\ Start(Addressed(NoRequest, "metrics", "graph", "other", "GET"), <<>>)
  <2> DEFINE r == Addressed(NoRequest, "metrics", "graph", "other", "GET")
  <2>1. req.mount = "legacy"
    BY <1>8 DEF GatewayInv, Redirected
  <2>2. r.mount = "metrics" /\ r.path = "other"
    <3>1. "metrics" \in Mounts /\ "other" \in Paths("metrics") /\ "GET" \in {"GET", "POST"}
      BY PathsOf DEF Mounts
    <3>2. NoRequest \in Request /\ NoRequest.via = "none" /\ "graph" \in AllNames \cup {"graph"}
      BY <1>2, <1>4
    <3> QED
      BY <3>1, <3>2, AddressedTyped
  <2>3. Start(r, <<>>)
    BY <1>8
  <2> HIDE DEF r
  <2>4. Rank(r) < Rank(req)
    BY <2>1, <2>2 DEF Rank
  <2>5. origin.path # "login"
    BY <1>1, <2>1 DEF GatewayInv, LoginWay
  <2> QED
    BY <1>5, <2>3, <2>4, <2>5, PathsOf DEF r
<1> QED
  BY <1>6, <1>7, <1>8 DEF Follow

LEMMA ProviderAnswersInv == ASSUME GatewayInv, ProviderAnswers PROVE GatewayInv'
<1>1. /\ pc = "done" /\ location.to = "provider" /\ stage = "ready" /\ hops' = hops + 1 /\ origin' = origin
      /\ hops \in Nat /\ req \in Request /\ origin \in Request
      /\ hops + Rank(req) <= 3 /\ origin.path \in Paths(origin.mount)
  BY DEF ProviderAnswers, GatewayInv, Running, Asked
<1>2. /\ req.mount = "oidc" /\ req.path = "login" /\ location.tenant = req.tenant
      /\ req.tenant \in DOMAIN oidcMiddlewares
  BY <1>1 DEF GatewayInv, Redirected, Nowhere
<1>3. req.tenant \in AllNames \cup {"graph"} /\ oidcMiddlewares[req.tenant] \in Indices
  BY <1>1, <1>2 DEF Request, GatewayInv, SetupInv, StartInv, ProvidersTried
<1>4. PICK a \in {"error", "code"}, p \in People :
        Start(Addressed(Answering(a, [by |-> oidcMiddlewares[location.tenant], who |-> p]), "oidc",
                        location.tenant, "callback", "GET"), <<>>)
  BY DEF ProviderAnswers
<1> DEFINE token == [by |-> oidcMiddlewares[req.tenant], who |-> p]
           r == Addressed(Answering(a, token), "oidc", req.tenant, "callback", "GET")
<1>5. token \in Credential
  BY <1>3 DEF Credential
<1>6. Answering(a, token) \in Request
  BY <1>5, BroughtTyped
<1>7. r \in Request /\ r.mount = "oidc" /\ r.path = "callback" /\ r.tenant = req.tenant
      /\ r.path \in Paths(r.mount)
  <2>1. "oidc" \in Mounts /\ "callback" \in Paths("oidc") /\ "GET" \in {"GET", "POST"}
    BY PathsOf DEF Mounts
  <2> HIDE DEF token
  <2> QED
    BY <1>3, <1>6, <2>1, AddressedTyped
<1>8. Start(r, <<>>)
  BY <1>2, <1>4
<1> HIDE DEF r
<1>9. Request' = Request
  BY <1>8, SetupFrame, TypeFrame DEF Start
<1>10. hops' \in Nat /\ hops' + Rank(r) <= 3
  <2>1. Rank(r) = 2 /\ Rank(req) = 3
    BY <1>2, <1>7 DEF Rank
  <2> QED
    BY <1>1, <2>1
<1>11. origin' \in Request /\ origin'.path \in Paths(origin'.mount)
  BY <1>1
<1>12. origin'.path = "login" => OnLoginWay(r, origin')
  BY <1>1, <1>2, <1>7 DEF GatewayInv, LoginWay, OnLoginWay
<1> QED
  BY <1>1, <1>7, <1>8, <1>10, <1>11, <1>12, BeginInv

-----------------------------------------------------------------------------
(* Steps beside the handlers                                               *)

LEMMA QuietInv ==
    ASSUME GatewayInv,
           UNCHANGED <<setupVars, pc, req, subject, groups, header, sent, status, panicked, counted,
                       report, location, origin, hops>>,
           deadline' = deadline \/ (pc \notin {"idle", "done"} /\ deadline' = "over"),
           Jar', DOMAIN jar' \subseteq DOMAIN jar
    PROVE  GatewayInv'
<1>1. SetupInv'
  BY SetupInvNext DEF GatewayInv
<1>2. /\ stage' = stage /\ HeaderValues' = HeaderValues
      /\ oidcMiddlewares' = oidcMiddlewares
  BY SetupFrame, TypeFrame
<1>3. Running' /\ Context' /\ Idle' /\ LoginWay'
  BY <1>2 DEF GatewayInv, Running, Context, Idle, LoginWay
<1>4. Answer' /\ Redirected'
  BY <1>2 DEF GatewayInv, Answer, Redirected, ServerErrorsReported, CountedAsAnswered
<1>5. /\ (Unidentified' <=> Unidentified) /\ (Denied' <=> Denied) /\ (Identity' <=> Identity)
      /\ (MayRead' <=> MayRead) /\ (Labelled' <=> Labelled) /\ (Asked' <=> Asked) /\ (ByOIDC' <=> ByOIDC)
      /\ (UpstreamAuthorized' <=> UpstreamAuthorized) /\ (TenantHeader' <=> TenantHeader)
  BY RequestFrame
<1>6. Identified' /\ Refusals' /\ Lands'
  BY <1>5 DEF GatewayInv, Identified, Refusals, Lands
<1> QED
  BY <1>1, <1>3, <1>4, <1>5, <1>6 DEF GatewayInv

LEMMA ExpiresInv == ASSUME GatewayInv, NEW n \in DOMAIN jar, Expires(n) PROVE GatewayInv'
<1>1. Credential' = Credential
  BY SetupFrame, TypeFrame DEF Expires
<1>2. Jar' /\ DOMAIN jar' \subseteq DOMAIN jar
  <2>1. NoCredential \in Credential
    BY NoRequestTyped
  <2> QED
    BY <1>1, <2>1 DEF Expires, GatewayInv, Jar
<1> QED
  BY <1>2, QuietInv DEF Expires, reqVars, logVars

LEMMA DeadlineInv == ASSUME GatewayInv, DeadlinePasses PROVE GatewayInv'
<1>1. Jar' /\ DOMAIN jar' \subseteq DOMAIN jar
  BY SetupFrame, TypeFrame DEF DeadlinePasses, GatewayInv, Jar
<1> QED
  BY <1>1, QuietInv DEF DeadlinePasses, logVars

LEMMA StutterInv == ASSUME GatewayInv, UNCHANGED vars PROVE GatewayInv'
<1>1. Jar' /\ DOMAIN jar' \subseteq DOMAIN jar
  BY SetupFrame, TypeFrame DEF vars, GatewayInv, Jar
<1> QED
  BY <1>1, QuietInv DEF vars, reqVars, logVars

-----------------------------------------------------------------------------
(* Steps of the handlers                                                   *)

\* What none of them touches.
LEMMA HandlerFrame ==
    ASSUME GatewayInv, UNCHANGED <<setupVars, req, origin, hops>>,
           pc # "idle", pc' \in Places \ {"idle"}
    PROVE  /\ SetupInv' /\ Running' /\ Asked' /\ Idle' /\ LoginWay'
           /\ stage = "ready" /\ stage' = stage /\ HeaderValues' = HeaderValues
           /\ oidcMiddlewares' = oidcMiddlewares
           /\ UNCHANGED jar => Jar'
<1>1. SetupInv'
  BY SetupInvNext DEF GatewayInv
<1>2. /\ stage' = stage /\ HeaderValues' = HeaderValues /\ Credential' = Credential
      /\ oidcMiddlewares' = oidcMiddlewares
  BY SetupFrame, TypeFrame
<1>3. stage = "ready"
  BY DEF GatewayInv, Running
<1>4. Asked'
  BY RequestFrame DEF GatewayInv
<1>5. Running' /\ Idle' /\ LoginWay' /\ (UNCHANGED jar => Jar')
  BY <1>2, <1>3 DEF GatewayInv, Running, Idle, LoginWay, Jar
<1> QED
  BY <1>1, <1>2, <1>3, <1>4, <1>5

LEMMA UnsentFrame ==
    ASSUME GatewayInv, UNCHANGED <<setupVars, req, sent, location>>,
           pc \notin {"unwind", "done"}
    PROVE  /\ Redirected' /\ UpstreamAuthorized' /\ TenantHeader'
           /\ location' = Nowhere
<1>1. location = Nowhere /\ location.to = "nowhere"
  BY DEF GatewayInv, Redirected, Nowhere
<1>2. Redirected'
  BY <1>1 DEF Redirected, Nowhere
<1> QED
  BY <1>1, <1>2, RequestFrame DEF GatewayInv

LEMMA RouteInv == ASSUME GatewayInv, Route PROVE GatewayInv'
<1>1. /\ pc = "route" /\ UNCHANGED <<setupVars, logVars, req, subject, groups, header, sent, location,
                                     origin, hops, jar>>
      /\ \/ pc' = "oidc" /\ req.mount = "oidc" /\ UNCHANGED <<deadline, status>>
         \/ pc' = "auth" /\ req.mount # "oidc" /\ UNCHANGED status /\ deadline' \in {deadline, "running"}
         \/ /\ pc' = "unwind" /\ status' = 404 /\ UNCHANGED deadline
            /\ req.mount \in {"alertmanager", "logs"}
  BY DEF Route, Done
<1>2. pc' \in Places \ {"idle"}
  BY <1>1 DEF Places
<1>3. /\ SetupInv' /\ Running' /\ Asked' /\ Idle' /\ LoginWay' /\ Jar'
      /\ HeaderValues' = HeaderValues
  BY <1>1, <1>2, HandlerFrame
<1>4. Redirected' /\ UpstreamAuthorized' /\ TenantHeader'
  BY <1>1, UnsentFrame
<1>5. Context'
  BY <1>1, <1>2, <1>3 DEF GatewayInv, Context
<1>6. Answer'
  BY <1>1 DEF GatewayInv, Answer, Codes, ServerErrorsReported, CountedAsAnswered, logVars
<1>7. Identified' /\ Refusals'
  BY <1>1 DEF Identified, Refusals
<1>8. Lands'
  BY <1>1 DEF GatewayInv, LoginWay, Lands
<1> QED
  BY <1>3, <1>4, <1>5, <1>6, <1>7, <1>8 DEF GatewayInv

LEMMA UnknownTenantInv == ASSUME GatewayInv, UnknownTenant PROVE GatewayInv'
<1>1. /\ pc = "auth" /\ UNCHANGED <<setupVars, logVars, req, subject, groups, header, deadline, sent,
                                    location, origin, hops, jar>>
      /\ pc' = "unwind" /\ status' = 401 /\ req.tenant \notin DOMAIN middlewares
  BY DEF UnknownTenant, Done
<1>2. pc' \in Places \ {"idle"}
  BY <1>1 DEF Places
<1>3. /\ SetupInv' /\ Running' /\ Asked' /\ Idle' /\ LoginWay' /\ Jar'
      /\ HeaderValues' = HeaderValues
  BY <1>1, <1>2, HandlerFrame
<1>4. Redirected' /\ UpstreamAuthorized' /\ TenantHeader'
  BY <1>1, UnsentFrame
<1>5. Context'
  BY <1>1, <1>2, <1>3 DEF GatewayInv, Context
<1>6. Answer'
  BY <1>1 DEF GatewayInv, Answer, Codes, ServerErrorsReported, CountedAsAnswered, logVars
<1>7. Identified' /\ Refusals'
  <2>1. Unidentified'
    BY <1>1, RequestFrame DEF Unidentified
  <2> QED
    BY <1>1, <2>1 DEF Identified, Refusals
<1>8. Lands'
  <2>1. req.tenant \notin DOMAIN oidcMiddlewares
    BY <1>1 DEF GatewayInv, SetupInv, InPhase, AfterHandlers, StartInv, Merged, MergedMap, Running
  <2> QED
    BY <1>1, <2>1 DEF GatewayInv, LoginWay, Lands, Identified
<1> QED
  BY <1>3, <1>4, <1>5, <1>6, <1>7, <1>8 DEF GatewayInv

\* Everybody a credential of the request is about is somebody.
LEMMA Somebody ==
    ASSUME GatewayInv, NEW c \in Tokens \cup {req.credential}
    PROVE  c \in Credential /\ c.who \in Person
<1>1. req \in Request
  BY DEF GatewayInv, Asked
<1>2. req.credential \in Credential /\ req.cookie \in SUBSET Credential
  BY <1>1 DEF Request
<1>3. c \in Credential
  BY <1>2 DEF Tokens
<1> QED
  BY <1>3, GatewayAssumption DEF Credential

\* The context of whoever is let in.
LEMMA AuthenticatedInv ==
    ASSUME GatewayInv, pc = "auth", NEW who \in Person, NEW sub, sub \in {who.sub, who.username},
           NEW gs, gs \in {who.groups, {}, {UNION who.groups}}, Authenticated(sub, gs),
           UNCHANGED <<setupVars, logVars, req, header, sent, location, origin, hops, jar>>,
           Identity'
    PROVE  GatewayInv'
<1>1. /\ pc' = "header" /\ subject' = {sub} /\ groups' = gs /\ UNCHANGED status
      /\ deadline' \in {deadline, "running"}
  BY DEF Authenticated
<1>2. pc' \in Places \ {"idle"}
  BY <1>1 DEF Places
<1>3. /\ SetupInv' /\ Running' /\ Asked' /\ Idle' /\ LoginWay' /\ Jar'
      /\ HeaderValues' = HeaderValues
  BY <1>2, HandlerFrame
<1>4. Redirected' /\ UpstreamAuthorized' /\ TenantHeader'
  BY UnsentFrame
<1>5. Context'
  <2>1. sub \in STRING /\ gs \in SUBSET (SUBSET STRING)
    BY DEF Person
  <2> QED
    BY <1>1, <1>2, <1>3, <2>1 DEF GatewayInv, Context
<1>6. Answer'
  BY <1>1 DEF GatewayInv, Answer, ServerErrorsReported, CountedAsAnswered, logVars
<1>7. Identified' /\ Refusals' /\ Lands'
  BY <1>1 DEF GatewayInv, Identified, Refusals, Lands
<1> QED
  BY <1>3, <1>4, <1>5, <1>6, <1>7 DEF GatewayInv

\* Whoever is not gets a status, or none after a panic.
LEMMA RefusedInv ==
    ASSUME GatewayInv, pc = "auth", pc' = "unwind",
           UNCHANGED <<setupVars, counted, report, req, subject, groups, header, deadline, sent, location,
                       origin, hops, jar>>,
           \/ status' \in {400, 401, 500} /\ UNCHANGED panicked
           \/ UNCHANGED status /\ panicked' = TRUE,
           status' = 401 => Unidentified,
           origin.path = "login" /\ ByOIDC => status' = 400 \/ (status' = 401 /\ req.cookie = {})
    PROVE  GatewayInv'
<1>1. pc' \in Places \ {"idle"}
  BY DEF Places
<1>2. /\ SetupInv' /\ Running' /\ Asked' /\ Idle' /\ LoginWay' /\ Jar'
      /\ HeaderValues' = HeaderValues
  BY <1>1, HandlerFrame
<1>3. Redirected' /\ UpstreamAuthorized' /\ TenantHeader'
  BY UnsentFrame
<1>4. Context'
  BY <1>1, <1>2 DEF GatewayInv, Context
<1>5. Answer'
  <2>1. /\ status = 0 /\ ~panicked /\ panicked \in BOOLEAN /\ counted = 0 /\ sent.to = "none"
        /\ report \in {"none", "debug", "warn", "panic"}
    BY DEF GatewayInv, Answer
  <2>2. CASE status' \in {400, 401, 500} /\ UNCHANGED panicked
    BY <2>1, <2>2 DEF Answer, Codes, ServerErrorsReported, CountedAsAnswered
  <2>3. CASE UNCHANGED status /\ panicked' = TRUE
    BY <2>1, <2>3 DEF Answer, Codes, ServerErrorsReported, CountedAsAnswered
  <2> QED
    BY <2>2, <2>3
<1>6. Identified' /\ Refusals'
  <2>1. Unidentified' <=> Unidentified
    BY RequestFrame
  <2>2. status' # 403
    BY DEF GatewayInv, Answer
  <2> QED
    BY <2>1, <2>2 DEF Identified, Refusals
<1>7. Lands'
  <2>1. ByOIDC' <=> ByOIDC
    BY RequestFrame
  <2> QED
    BY <2>1 DEF Lands
<1> QED
  BY <1>2, <1>3, <1>4, <1>5, <1>6, <1>7 DEF GatewayInv

LEMMA OIDCMiddlewareInv == ASSUME GatewayInv, OIDCMiddleware PROVE GatewayInv'
<1>1. /\ pc = "auth" /\ req.tenant \in DOMAIN middlewares /\ middlewares[req.tenant].method = "oidc"
      /\ UNCHANGED <<setupVars, logVars, req, header, sent, location, origin, hops, jar>>
  BY DEF OIDCMiddleware, Uses
<1>2. /\ Entry \in Indices /\ tenants[Entry].oidc # {} /\ \A c, d \in tenants[Entry].oidc : c = d
      /\ Usable(Entry) = IF req.via = "malformed" THEN {} ELSE Tokens
  BY <1>1, EntryFacts DEF GatewayInv, Running, Usable
<1>3. ASSUME Refused(401), req.via = "malformed" \/ Tokens = {} PROVE GatewayInv'
  <2>1. Unidentified
    BY <1>2, <1>3 DEF Unidentified
  <2>2. origin.path = "login" => req.cookie = {}
    BY <1>1, <1>3 DEF GatewayInv, LoginWay, Identified, Tokens
  <2> QED
    BY <1>1, <1>3, <2>1, <2>2, RefusedInv DEF Refused, Done, logVars
<1>4. ASSUME Refused(400) PROVE GatewayInv'
  BY <1>1, <1>4, RefusedInv DEF Refused, Done, logVars
<1>5. ASSUME req.via # "malformed", NEW token \in Tokens, NEW c \in tenants[Entry].oidc, token.by = Entry,
             Authenticated(IF c.usernameClaim THEN token.who.username ELSE token.who.sub,
                           IF c.groupClaim THEN token.who.groups ELSE {})
      PROVE  GatewayInv'
  <2> DEFINE sub == IF c.usernameClaim THEN token.who.username ELSE token.who.sub
             gs == IF c.groupClaim THEN token.who.groups ELSE {}
  <2>1. token.who \in Person
    BY Somebody
  <2>2. sub \in {token.who.sub, token.who.username} /\ gs \in {token.who.groups, {}, {UNION token.who.groups}}
    OBVIOUS
  <2>3. sub = SubjectOf(token.who, Entry) /\ UNION gs = GroupsOf(token.who, Entry)
    <3>1. sub = SubjectOf(token.who, Entry)
      BY <1>2 DEF SubjectOf
    <3>2. UNION gs = GroupsOf(token.who, Entry)
      BY <1>2 DEF GroupsOf
    <3> QED
      BY <3>1, <3>2
  <2>4. Authenticated(sub, gs)
    BY <1>5
  <2> HIDE DEF sub, gs
  <2>5. subject' = {sub} /\ groups' = gs
    BY <2>4 DEF Authenticated
  <2>6. Identity'
    <3>1. token \in Usable(Entry)
      BY <1>2, <1>5
    <3>2. \E t \in Usable(Entry) : /\ t.by = Entry /\ subject' = {SubjectOf(t.who, Entry)}
                                   /\ UNION groups' = GroupsOf(t.who, Entry)
      BY <1>5, <2>3, <2>5, <3>1
    <3>3. UNCHANGED <<tenants, middlewares, req>>
      BY <1>1, SetupFrame
    <3> QED
      BY <1>1, <3>2, <3>3 DEF Identity, Usable, Tokens, Entry, SubjectOf, GroupsOf
  <2> QED
    BY <1>1, <2>1, <2>2, <2>4, <2>6, AuthenticatedInv
<1> QED
  BY <1>3, <1>4, <1>5 DEF OIDCMiddleware

LEMMA MTLSMiddlewareInv == ASSUME GatewayInv, MTLSMiddleware PROVE GatewayInv'
<1>1. /\ pc = "auth" /\ req.tenant \in DOMAIN middlewares /\ middlewares[req.tenant].method = "mtls"
      /\ UNCHANGED <<setupVars, counted, report, req, header, sent, location, origin, hops, jar>>
  BY DEF MTLSMiddleware, Uses
<1>2. /\ Entry \in Indices /\ tenants[Entry].oidc = {}
      /\ Usable(Entry) = IF req.via = "certificate" THEN {req.credential} ELSE {}
  BY <1>1, EntryFacts DEF GatewayInv, Running, Usable
<1>3. ~(origin.path = "login" /\ ByOIDC)
  BY <1>1 DEF GatewayInv, LoginWay, Identified, ByOIDC
<1>4. ASSUME Panic, UNCHANGED <<subject, groups, deadline, status>> PROVE GatewayInv'
  <2>1. status' # 401
    BY <1>1, <1>4 DEF GatewayInv, Answer
  <2> QED
    BY <1>1, <1>3, <1>4, <2>1, RefusedInv DEF Panic
<1>5. ASSUME NEW code \in {400, 401, 500}, Refused(code), UNCHANGED panicked,
             code = 401 => req.via # "certificate"
      PROVE  GatewayInv'
  <2>1. code = 401 => Unidentified
    BY <1>2, <1>5 DEF Unidentified
  <2> QED
    BY <1>1, <1>3, <1>5, <2>1, RefusedInv DEF Refused, Done
<1>6. ASSUME req.via = "certificate", UNCHANGED panicked, req.credential.by = Entry,
             Authenticated(req.credential.who.sub, {UNION req.credential.who.groups})
      PROVE  GatewayInv'
  <2> DEFINE who == req.credential.who
  <2>1. who \in Person
    BY Somebody
  <2>2. /\ subject' = {SubjectOf(who, Entry)} /\ UNION groups' = GroupsOf(who, Entry)
    <3>1. SubjectOf(who, Entry) = who.sub /\ GroupsOf(who, Entry) = UNION who.groups
      BY <1>2 DEF SubjectOf, GroupsOf
    <3>2. UNION {UNION who.groups} = UNION who.groups
      OBVIOUS
    <3> QED
      BY <1>6, <3>1, <3>2 DEF Authenticated
  <2>3. Identity'
    <3>1. req.credential \in Usable(Entry)
      BY <1>2, <1>6
    <3>2. \E t \in Usable(Entry) : /\ t.by = Entry /\ subject' = {SubjectOf(t.who, Entry)}
                                   /\ UNION groups' = GroupsOf(t.who, Entry)
      BY <1>6, <2>2, <3>1
    <3>3. UNCHANGED <<tenants, middlewares, req>>
      BY <1>1, SetupFrame
    <3> QED
      BY <1>1, <3>2, <3>3 DEF Identity, Usable, Tokens, Entry, SubjectOf, GroupsOf
  <2>4. Authenticated(who.sub, {UNION who.groups})
    BY <1>6
  <2> HIDE DEF who
  <2> QED
    BY <1>1, <1>6, <2>1, <2>3, <2>4, AuthenticatedInv DEF logVars
<1>7. CASE ~tlsConfig /\ Panic /\ UNCHANGED <<subject, groups, deadline, status>>
  BY <1>4, <1>7
<1>8. CASE tlsConfig /\ req.via # "certificate" /\ Refused(401) /\ UNCHANGED panicked
  BY <1>5, <1>8
<1>9. CASE /\ tlsConfig /\ req.via = "certificate" /\ UNCHANGED panicked
           /\ \/ req.credential.by # Entry /\ Refused(500)
              \/ req.credential.by = Entry /\ req.credential.who.sub = "" /\ Refused(400)
              \/ /\ req.credential.by = Entry /\ req.credential.who.sub # ""
                 /\ Authenticated(req.credential.who.sub, {UNION req.credential.who.groups})
  <2>1. req.via = "certificate" /\ UNCHANGED panicked
    BY <1>9, Zenon
  <2>2. CASE Refused(500) \/ Refused(400)
    BY <1>5, <2>1, <2>2
  <2>3. CASE /\ req.credential.by = Entry
             /\ Authenticated(req.credential.who.sub, {UNION req.credential.who.groups})
    BY <1>6, <2>1, <2>3
  <2> QED
    BY <1>9, <2>2, <2>3, Zenon
<1> QED
  BY <1>7, <1>8, <1>9, Zenon DEF MTLSMiddleware

LEMMA AddHeaderInv == ASSUME GatewayInv, AddHeader PROVE GatewayInv'
<1>1. /\ pc = "header" /\ header' = Append(header, tenantIDs[req.tenant])
      /\ UNCHANGED <<setupVars, logVars, req, subject, groups, deadline, sent, origin, hops, jar>>
      /\ \/ /\ req.mount = "root" /\ pc' = "unwind" /\ status' = 301
            /\ location' = [to |-> "graph", tenant |-> req.tenant]
         \/ /\ req.mount # "root" /\ UNCHANGED <<status, location>>
            /\ pc' = IF req.mount = "legacy" THEN "authorize" ELSE "dispatch"
            /\ location' = Nowhere
  <2>1. pc = "header" => location = Nowhere
    BY DEF GatewayInv, Redirected
  <2> QED
    BY <2>1 DEF AddHeader, Redirect, Done
<1>2. pc' \in Places \ {"idle"}
  BY <1>1 DEF Places
<1>3. /\ SetupInv' /\ Running' /\ Asked' /\ Idle' /\ LoginWay' /\ Jar'
      /\ HeaderValues' = HeaderValues /\ SetupInv /\ stage = "ready"
      /\ Identity /\ req.mount # "oidc" /\ req.tenant \in DOMAIN middlewares
  BY <1>1, <1>2, HandlerFrame DEF GatewayInv, Identified, Identity
<1>4. header \in Seq(HeaderValues) /\ tenantIDs[req.tenant] \in HeaderValues
  BY <1>3, HeaderFacts DEF GatewayInv, Context, HeaderValues
<1>5. header' \in Seq(HeaderValues) /\ header' # <<>> /\ header'[Len(header')] = tenantIDs[req.tenant]
  BY <1>1, <1>4
<1>6. Context'
  BY <1>1, <1>2, <1>3, <1>5 DEF GatewayInv, Context
<1>7. UpstreamAuthorized' /\ TenantHeader'
  BY <1>1, RequestFrame DEF GatewayInv
<1>8. Redirected'
  BY <1>1 DEF Redirected, Nowhere
<1>9. Answer'
  BY <1>1 DEF GatewayInv, Answer, Codes, ServerErrorsReported, CountedAsAnswered, logVars
<1>10. Identified'
  <2>1. Identity'
    BY <1>1, <1>3, RequestFrame
  <2>2. Labelled'
    BY <1>1, <1>5, SetupFrame DEF Labelled
  <2> QED
    BY <1>1, <1>3, <2>1, <2>2 DEF Identified
<1>11. Refusals' /\ Lands'
  BY <1>1 DEF Refusals, Lands, Nowhere
<1> QED
  BY <1>3, <1>6, <1>7, <1>8, <1>9, <1>10, <1>11 DEF GatewayInv

\* The authorizer knows the subject and the groups of the context as the holder
\* of a credential.
LEMMA AllowedExact ==
    ASSUME GatewayInv, stage = "ready", Identity, NEW permission \in Permissions
    PROVE  \E c \in Usable(Entry) :
             /\ c.by = Entry
             /\ Allowed(permission, UNION groups)
                <=> Granted(SubjectOf(c.who, Entry), GroupsOf(c.who, Entry), permission,
                            Resource(req.mount), req.tenant)
<1>1. PICK c \in Usable(Entry) : /\ c.by = Entry /\ subject = {SubjectOf(c.who, Entry)}
                                 /\ UNION groups = GroupsOf(c.who, Entry)
  BY DEF Identity
<1> DEFINE s == SubjectOf(c.who, Entry)
           gs == GroupsOf(c.who, Entry)
           resource == Resource(req.mount)
           tenant == req.tenant
<1>2. Allowed(permission, UNION groups) <=> Authorize(s, gs, permission, resource, tenant)
  BY <1>1 DEF Allowed
<1>3. Authorize(s, gs, permission, resource, tenant) <=> Granted(s, gs, permission, resource, tenant)
  <2> HIDE DEF s, gs, resource, tenant
  <2> QED
    BY Exact DEF GatewayInv
<1> QED
  BY <1>1, <1>2, <1>3

\* A ticket to an upstream.
Ticket(to) ==
    \E i \in Indices, c \in Shown :
        /\ tenants[i].name = req.tenant /\ c.by = i
        /\ Granted(SubjectOf(c.who, i), GroupsOf(c.who, i),
                   IF Writes(to) THEN "write" ELSE "read", ResourceOf(to), req.tenant)

LEMMA TicketFrame ==
    ASSUME UNCHANGED <<tenants, roles, bindings, req>>, NEW to
    PROVE  Ticket(to)' <=> Ticket(to)
BY DEF Ticket, Granted, Holds, InForce, SubjectOf, GroupsOf, Shown, Indices

LEMMA ForwardInv ==
    ASSUME GatewayInv, pc \in {"dispatch", "authorize"}, NEW r, Forward(r), r.to \in Upstreams,
           UNCHANGED <<setupVars, logVars, req, subject, groups, header, deadline, origin, hops, jar>>,
           Allowed(IF Writes(r.to) THEN "write" ELSE "read", UNION groups),
           ResourceOf(r.to) = Resource(req.mount),
           origin.path = "login" => r.to = "ui"
    PROVE  GatewayInv'
<1>1. /\ pc' = "upstream" /\ UNCHANGED <<status, location>>
      /\ sent' = [to |-> r.to, tenant |-> req.tenant, header |-> header]
  BY DEF Forward
<1>2. pc' \in Places \ {"idle"}
  BY <1>1 DEF Places
<1>3. /\ SetupInv' /\ Running' /\ Asked' /\ Idle' /\ LoginWay' /\ Jar'
      /\ HeaderValues' = HeaderValues /\ SetupInv /\ stage = "ready"
      /\ Identity /\ req.mount # "oidc" /\ Labelled /\ req.tenant \in DOMAIN middlewares
  BY <1>2, HandlerFrame DEF GatewayInv, Identified, Identity
<1>4. Context'
  BY <1>2, <1>3 DEF GatewayInv, Context
<1>5. Redirected'
  BY <1>1 DEF GatewayInv, Redirected
<1>6. Answer'
  <2>1. sent'.to \in Upstreams /\ sent'.to # "none"
    BY <1>1 DEF Upstreams
  <2> QED
    BY <1>1, <2>1 DEF GatewayInv, Answer, ServerErrorsReported, CountedAsAnswered, logVars
<1>7. Identified' /\ Refusals' /\ Lands'
  BY <1>1, <1>3 DEF Identified, Refusals, Lands
<1>8. UpstreamAuthorized'
  <2> DEFINE permission == IF Writes(r.to) THEN "write" ELSE "read"
  <2>1. permission \in Permissions
    BY DEF Permissions
  <2>2. Allowed(permission, UNION groups)
    OBVIOUS
  <2>3. Ticket(r.to)
    <3> HIDE DEF permission
    <3>1. PICK c \in Usable(Entry) :
            /\ c.by = Entry
            /\ Allowed(permission, UNION groups)
               <=> Granted(SubjectOf(c.who, Entry), GroupsOf(c.who, Entry), permission,
                           Resource(req.mount), req.tenant)
      BY <1>3, <2>1, AllowedExact
    <3>2. Entry \in Indices /\ tenants[Entry].name = req.tenant
      BY <1>3, EntryFacts
    <3>3. c \in Shown
      BY DEF Usable, Tokens, Shown
    <3>4. Granted(SubjectOf(c.who, Entry), GroupsOf(c.who, Entry), permission, ResourceOf(r.to), req.tenant)
      BY <2>2, <3>1
    <3> QED
      BY <3>1, <3>2, <3>3, <3>4 DEF Ticket, permission
  <2>4. UNCHANGED <<tenants, roles, bindings>>
    BY SetupFrame
  <2>5. sent'.to = r.to /\ sent'.tenant = req.tenant
    BY <1>1
  <2>6. Ticket(r.to)'
    BY <2>3, <2>4, TicketFrame
  <2>7. req'.tenant = req.tenant
    OBVIOUS
  <2> QED
    BY <2>5, <2>6, <2>7 DEF UpstreamAuthorized, Ticket
<1>9. TenantHeader'
  <2>1. UNCHANGED <<tenants, tenantIDs>> /\ sent'.header = header
    BY <1>1, SetupFrame
  <2>2. header # <<>> /\ header[Len(header)] = tenantIDs[req.tenant]
    BY <1>3 DEF Labelled
  <2>3. PICK i \in Indices : /\ tenants[i].name = req.tenant /\ tenantIDs[req.tenant] = tenants[i].id
                             /\ \A j \in Indices : tenants[j].name = req.tenant => j <= i
    BY <1>3, HeaderFacts
  <2> QED
    BY <2>1, <2>2, <2>3 DEF TenantHeader, Indices
<1> QED
  BY <1>3, <1>4, <1>5, <1>6, <1>7, <1>8, <1>9 DEF GatewayInv

\* A handler answers itself.
LEMMA AnsweredInv ==
    ASSUME GatewayInv, pc \in {"dispatch", "authorize", "oidc"}, pc' = "unwind",
           status' \in {301, 302, 303, 400, 401, 403, 404, 405, 500},
           UNCHANGED <<setupVars, logVars, req, subject, groups, header, deadline, sent, origin, hops>>,
           Redirected', Jar',
           status' = 401 => req.mount = "oidc",
           status' = 403 => Denied,
           origin.path = "login" /\ req.mount # "oidc" => status' = 403
    PROVE  GatewayInv'
<1>1. pc' \in Places \ {"idle"}
  BY DEF Places
<1>2. /\ SetupInv' /\ Running' /\ Asked' /\ Idle' /\ LoginWay' /\ HeaderValues' = HeaderValues
  BY <1>1, HandlerFrame
<1>3. Context'
  BY <1>1, <1>2 DEF GatewayInv, Context
<1>4. Answer'
  BY DEF GatewayInv, Answer, Codes, ServerErrorsReported, CountedAsAnswered, logVars
<1>5. UpstreamAuthorized' /\ TenantHeader' /\ (Denied' <=> Denied)
  BY RequestFrame DEF GatewayInv
<1>6. Identified' /\ Refusals' /\ Lands'
  BY <1>5 DEF Identified, Refusals, Lands
<1> QED
  BY <1>2, <1>3, <1>4, <1>5, <1>6 DEF GatewayInv

\* A handler hands the request on to the next.
LEMMA HandedOnInv ==
    ASSUME GatewayInv, pc \in {"dispatch", "authorize"}, pc' \in {"dispatch", "authorize"},
           UNCHANGED <<setupVars, logVars, req, subject, groups, header, deadline, sent, status, location,
                       origin, hops, jar>>,
           pc' = "dispatch" /\ req.mount = "legacy" => MayRead
    PROVE  GatewayInv'
<1>1. pc' \in Places \ {"idle"}
  BY DEF Places
<1>2. /\ SetupInv' /\ Running' /\ Asked' /\ Idle' /\ LoginWay' /\ Jar' /\ HeaderValues' = HeaderValues
  BY <1>1, HandlerFrame
<1>3. Context'
  BY <1>1, <1>2 DEF GatewayInv, Context
<1>4. Answer'
  BY DEF GatewayInv, Answer, Codes, ServerErrorsReported, CountedAsAnswered, logVars
<1>5. Redirected' /\ UpstreamAuthorized' /\ TenantHeader'
  BY UnsentFrame
<1>6. Identified'
  BY RequestFrame DEF GatewayInv, Identified
<1>7. Refusals' /\ Lands'
  BY DEF Refusals, Lands
<1> QED
  BY <1>2, <1>3, <1>4, <1>5, <1>6, <1>7 DEF GatewayInv

LEMMA DispatchInv == ASSUME GatewayInv, Dispatch PROVE GatewayInv'
<1>1. /\ pc = "dispatch" /\ UNCHANGED <<setupVars, logVars, req, subject, groups, header, deadline, origin,
                                        hops, jar>>
      /\ SetupInv /\ stage = "ready" /\ location = Nowhere /\ location.to = "nowhere"
      /\ req.mount # "oidc" /\ req.mount # "root" /\ (req.mount = "legacy" => MayRead)
  BY DEF Dispatch, GatewayInv, Running, Identified, Redirected, Nowhere
<1>2. Jar'
  BY <1>1, SetupFrame, TypeFrame DEF GatewayInv, Jar
<1>3. origin.path = "login" => req.mount = "metrics" /\ req.path = "graph"
  BY <1>1 DEF GatewayInv, LoginWay
<1>4. CASE Matching = {} /\ Done(404) /\ UNCHANGED <<sent, location>>
  <2>1. origin.path # "login"
    BY <1>1, <1>3, <1>4, UIRoute DEF Matching
  <2>2. Redirected'
    BY <1>1, <1>4 DEF Redirected, Nowhere
  <2> QED
    BY <1>1, <1>2, <1>4, <2>1, <2>2, AnsweredInv DEF Done
<1>5. ASSUME NEW r \in Matching, r.method \notin {"any", req.method}, Done(405), UNCHANGED <<sent, location>>
      PROVE  GatewayInv'
  <2>1. origin.path # "login"
    BY <1>1, <1>3, <1>5, RouteFacts DEF Matching
  <2>2. Redirected'
    BY <1>1, <1>5 DEF Redirected, Nowhere
  <2> QED
    BY <1>1, <1>2, <1>5, <2>1, <2>2, AnsweredInv DEF Done
<1>6. ASSUME req.mount # "legacy", pc' = "authorize", UNCHANGED <<sent, status, location>>
      PROVE  GatewayInv'
  BY <1>1, <1>6, HandedOnInv
<1>7. ASSUME NEW r \in Matching, req.mount = "legacy", r.path = "query", Forward(r)
      PROVE  GatewayInv'
  <2>1. r.to = "read"
    BY <1>1, <1>7, RouteFacts DEF Matching
  <2>2. /\ r.to \in Upstreams /\ ResourceOf(r.to) = Resource(req.mount)
        /\ (IF Writes(r.to) THEN "write" ELSE "read") = "read"
    BY <1>7, <2>1 DEF Upstreams, ResourceOf, Resource, Writes
  <2>3. Allowed(IF Writes(r.to) THEN "write" ELSE "read", UNION groups)
    BY <1>1, <1>7, <2>2 DEF MayRead
  <2>4. origin.path # "login"
    BY <1>3, <1>7
  <2> QED
    BY <1>1, <1>7, <2>2, <2>3, <2>4, ForwardInv
<1>8. ASSUME req.mount = "legacy", Redirect(301, "lost"), UNCHANGED sent
      PROVE  GatewayInv'
  <2>1. pc' = "unwind" /\ status' = 301 /\ location' = [to |-> "lost", tenant |-> req.tenant]
    BY <1>8 DEF Redirect, Done
  <2>2. Redirected'
    BY <1>1, <1>8, <2>1 DEF Redirected, Nowhere
  <2> QED
    BY <1>1, <1>2, <1>3, <1>8, <2>1, <2>2, AnsweredInv
<1> QED
  BY <1>4, <1>5, <1>6, <1>7, <1>8 DEF Dispatch

LEMMA WithAuthorizerInv == ASSUME GatewayInv, WithAuthorizer PROVE GatewayInv'
<1>1. /\ pc = "authorize" /\ UNCHANGED <<setupVars, logVars, req, subject, groups, header, deadline, origin,
                                         hops, jar>>
      /\ SetupInv /\ stage = "ready" /\ location = Nowhere /\ location.to = "nowhere"
      /\ Identity /\ req.tenant \in DOMAIN middlewares /\ req.mount # "oidc" /\ req.mount # "root"
      /\ req.path \in Paths(req.mount)
  BY DEF WithAuthorizer, GatewayInv, Running, Identified, Identity, Redirected, Nowhere, Asked
<1>2. origin.path = "login" => req.mount = "metrics" /\ req.path = "graph"
  BY <1>1 DEF GatewayInv, LoginWay
<1>3. ASSUME ~Allowed(Wanted, UNION groups), Done(403), UNCHANGED <<sent, location>>
      PROVE  GatewayInv'
  <2>1. Denied
    <3>1. Wanted \in Permissions
      BY DEF Wanted, Permissions
    <3> QED
      BY <1>1, <1>3, <3>1, AllowedExact DEF Denied
  <2>2. Redirected'
    BY <1>1, <1>3 DEF Redirected, Nowhere
  <2>3. Jar'
    BY <1>1, SetupFrame, TypeFrame DEF GatewayInv, Jar
  <2> QED
    BY <1>1, <1>3, <2>1, <2>2, <2>3, AnsweredInv DEF Done
<1>4. ASSUME req.mount # "legacy", NEW r \in Matching
      PROVE  /\ r.permission = Wanted /\ r.permission = (IF Writes(r.to) THEN "write" ELSE "read")
             /\ ResourceOf(r.to) = Resource(req.mount) /\ r.to \in Upstreams
             /\ origin.path = "login" => r.to = "ui"
  <2>1. r \in routes /\ r.mount = req.mount /\ r.path = req.path
    BY DEF Matching
  <2>2. /\ Demands(r) /\ r.to \in Upstreams
        /\ r.mount = "metrics" /\ r.path = "graph" => r.to = "ui"
    BY <1>1, <1>4, <2>1, RouteFacts
  <2> QED
    BY <1>2, <2>1, <2>2 DEF Demands, Wanted
<1>5. ASSUME req.mount # "legacy", NEW r \in Matching, Allowed(r.permission, UNION groups), Forward(r)
      PROVE  GatewayInv'
  BY <1>1, <1>4, <1>5, ForwardInv
<1>6. req.mount = "legacy" => Wanted = "read"
  BY <1>1, PathsOf DEF Wanted
<1>7. ASSUME req.mount = "legacy", Allowed("read", UNION groups), pc' = "dispatch",
             UNCHANGED <<sent, status, location>>
      PROVE  GatewayInv'
  BY <1>1, <1>7, HandedOnInv DEF MayRead
<1>8. ASSUME req.mount # "legacy", NEW r \in Matching, ~Allowed(r.permission, UNION groups), Done(403),
             UNCHANGED <<sent, location>>
      PROVE  GatewayInv'
  BY <1>3, <1>4, <1>8
<1>9. ASSUME req.mount = "legacy", ~Allowed("read", UNION groups), Done(403), UNCHANGED <<sent, location>>
      PROVE  GatewayInv'
  BY <1>3, <1>6, <1>9
<1> QED
  BY <1>5, <1>7, <1>8, <1>9 DEF WithAuthorizer

LEMMA OIDCHandlerInv ==
    ASSUME GatewayInv, Login \/ Callback \/ OIDCFails
    PROVE  GatewayInv'
<1>1. /\ pc = "oidc" /\ pc' = "unwind" /\ req.mount = "oidc" /\ location = Nowhere
      /\ UNCHANGED <<setupVars, logVars, req, subject, groups, header, deadline, sent, origin, hops>>
  BY DEF Login, Callback, OIDCFails, Redirect, Done, GatewayInv, Identified, Redirected
<1>2. Credential' = Credential /\ oidcMiddlewares' = oidcMiddlewares
  BY <1>1, SetupFrame, TypeFrame
<1>3. CASE Login
  <2>1. /\ status' = 303 /\ location' = [to |-> "provider", tenant |-> req.tenant] /\ UNCHANGED jar
        /\ req.tenant \in DOMAIN oidcMiddlewares /\ req.path = "login"
    BY <1>3 DEF Login, Redirect, Done
  <2>2. Redirected' /\ Jar'
    BY <1>1, <1>2, <2>1 DEF GatewayInv, Redirected, Nowhere, Jar
  <2> QED
    BY <1>1, <2>1, <2>2, AnsweredInv
<1>4. CASE Callback
  <2>1. /\ status' = 302 /\ location' = [to |-> "root", tenant |-> req.tenant]
        /\ jar' = Set(jar, req.tenant, req.credential)
        /\ req.tenant \in DOMAIN oidcMiddlewares /\ req.path = "callback"
    BY <1>4 DEF Callback, Redirect, Done
  <2>2. Redirected'
    BY <1>1, <1>2, <2>1 DEF Redirected, Nowhere
  <2>3. req.credential \in Credential
    BY Somebody
  <2>4. Jar'
    BY <1>2, <2>1, <2>3 DEF GatewayInv, Jar, Set
  <2> QED
    BY <1>1, <2>1, <2>2, <2>4, AnsweredInv
<1>5. CASE OIDCFails
  <2>1. status' \in {400, 401, 404, 405, 500} /\ UNCHANGED <<location, jar>>
    BY <1>5 DEF OIDCFails, Done
  <2>2. Redirected' /\ Jar'
    BY <1>1, <1>2, <2>1 DEF GatewayInv, Redirected, Nowhere, Jar
  <2> QED
    BY <1>1, <2>1, <2>2, AnsweredInv
<1> QED
  BY <1>3, <1>4, <1>5

LEMMA FinishInv == ASSUME GatewayInv, Finish PROVE GatewayInv'
<1>1. /\ pc = "upstream" /\ pc' = "unwind" /\ location = Nowhere
      /\ UNCHANGED <<setupVars, report, req, subject, groups, header, deadline, sent, location, origin,
                     hops, jar>>
  BY DEF Finish, Done, Panic, GatewayInv, Redirected
<1>2. pc' \in Places \ {"idle"}
  BY <1>1 DEF Places
<1>3. /\ SetupInv' /\ Running' /\ Asked' /\ Idle' /\ LoginWay' /\ Jar'
      /\ HeaderValues' = HeaderValues
  BY <1>1, <1>2, HandlerFrame
<1>4. Context'
  BY <1>1, <1>2, <1>3 DEF GatewayInv, Context
<1>5. /\ sent.to \in Upstreams /\ status = 0 /\ ~panicked /\ panicked \in BOOLEAN /\ counted = 0
      /\ report \in {"none", "debug", "warn", "panic"}
  BY <1>1 DEF GatewayInv, Answer
<1>6. \/ \E code \in Outcomes : /\ status' = code /\ panicked' = panicked
                                /\ counted' = IF sent.to = "fanout" THEN 0 ELSE IF code = 0 THEN 200 ELSE code
      \/ sent.to = "remote_write" /\ panicked' = TRUE /\ status' = 0 /\ counted' = 0
      \/ /\ sent.to \notin {"remote_write", "fanout"} /\ panicked' = TRUE /\ counted' = 0
         /\ \E code \in Outcomes : status' = code
  BY <1>5 DEF Finish, Done, Panic
<1>7. \A code \in Outcomes : IF sent.to = "remote_write" THEN code = 0 ELSE code \in {200, 500, 502}
  BY DEF Outcomes
<1>8. Answer'
  <2>1. CASE sent.to = "remote_write" /\ panicked' = TRUE /\ status' = 0 /\ counted' = 0
    BY <1>1, <1>5, <2>1 DEF Answer, Codes, ServerErrorsReported, CountedAsAnswered
  <2>2. CASE /\ sent.to = "remote_write" /\ status' = 0 /\ counted' = 200 /\ panicked' = panicked
    BY <1>1, <1>5, <2>2 DEF Answer, Codes, ServerErrorsReported, CountedAsAnswered
  <2>3. CASE /\ sent.to # "remote_write" /\ panicked' = panicked /\ status' \in {200, 500, 502}
             /\ counted' = IF sent.to = "fanout" THEN 0 ELSE status'
    BY <1>1, <1>5, <2>3 DEF Answer, Codes, ServerErrorsReported, CountedAsAnswered, Upstreams
  <2>4. ASSUME NEW code \in Outcomes, status' = code, panicked' = panicked,
               counted' = IF sent.to = "fanout" THEN 0 ELSE IF code = 0 THEN 200 ELSE code
        PROVE  Answer'
    <3>1. CASE sent.to = "remote_write"
      <4>1. code = 0
        BY <1>7, <3>1
      <4>2. status' = 0 /\ counted' = 200
        BY <2>4, <3>1, <4>1
      <4> QED
        BY <2>2, <2>4, <3>1, <4>2
    <3>2. CASE sent.to # "remote_write"
      <4>1. code \in {200, 500, 502}
        BY <1>7, <3>2
      <4>2. status' \in {200, 500, 502} /\ counted' = IF sent.to = "fanout" THEN 0 ELSE status'
        BY <2>4, <4>1
      <4> QED
        BY <2>3, <2>4, <3>2, <4>2
    <3> QED
      BY <3>1, <3>2
  <2>5. ASSUME sent.to \notin {"remote_write", "fanout"}, panicked' = TRUE, counted' = 0,
               NEW code \in Outcomes, status' = code
        PROVE  Answer'
    <3>1. status' \in {200, 500, 502}
      BY <1>7, <2>5
    <3> QED
      BY <1>1, <1>5, <2>5, <3>1 DEF Answer, Codes, ServerErrorsReported, CountedAsAnswered
  <2> QED
    BY <1>6, <2>1, <2>4, <2>5
<1>9. Redirected'
  BY <1>1 DEF Redirected, Nowhere
<1>10. UpstreamAuthorized' /\ TenantHeader' /\ (ByOIDC' <=> ByOIDC)
  BY <1>1, RequestFrame DEF GatewayInv
<1>11. Identified' /\ Refusals'
  <2>1. status' \notin {401, 403}
    BY <1>6, <1>7
  <2> QED
    BY <1>1, <2>1 DEF Identified, Refusals
<1>12. Lands'
  BY <1>1, <1>10 DEF GatewayInv, Lands
<1> QED
  BY <1>3, <1>4, <1>8, <1>9, <1>10, <1>11, <1>12 DEF GatewayInv

LEMMA UnwindInv == ASSUME GatewayInv, Unwind PROVE GatewayInv'
<1> DEFINE written == IF status # 0 THEN status
                      ELSE IF deadline = "over" THEN 504 ELSE IF panicked THEN 500 ELSE 200
<1>1. /\ pc = "unwind" /\ pc' = "done" /\ status' = written
      /\ report' = IF panicked THEN "panic" ELSE IF written >= 500 THEN "warn" ELSE "debug"
      /\ UNCHANGED <<setupVars, panicked, counted, req, subject, groups, header, deadline, sent, location,
                     origin, hops, jar>>
  BY DEF Unwind
<1>2. pc' \in Places \ {"idle"}
  BY <1>1 DEF Places
<1>3. /\ SetupInv' /\ Running' /\ Asked' /\ Idle' /\ LoginWay' /\ Jar'
      /\ HeaderValues' = HeaderValues
  BY <1>1, <1>2, HandlerFrame
<1>4. Context'
  BY <1>1, <1>2, <1>3 DEF GatewayInv, Context
<1>5. /\ sent.to \in Upstreams \cup {"none"} /\ status \in Codes /\ panicked \in BOOLEAN
      /\ counted \in {0, 200, 500, 502}
      /\ status = 0 => panicked \/ sent.to = "remote_write"
      /\ IF sent.to \in {"none", "fanout"} \/ panicked THEN counted = 0
         ELSE counted = IF status = 0 THEN 200 ELSE status
  BY <1>1 DEF GatewayInv, Answer
<1>6. written \in Codes /\ written # 0
  BY <1>5 DEF Codes
<1>7. Answer'
  <2>1. ServerErrorsReported'
    <3>1. CASE panicked
      BY <1>1, <1>5, <3>1 DEF ServerErrorsReported
    <3>2. CASE ~panicked
      BY <1>1, <1>6, <3>2 DEF ServerErrorsReported, Codes
    <3> QED
      BY <3>1, <3>2
  <2>2. CountedAsAnswered'
    <3>1. CASE sent.to \in {"none", "fanout"} \/ panicked
      BY <1>1, <1>5, <3>1 DEF CountedAsAnswered
    <3>2. CASE ~(sent.to \in {"none", "fanout"} \/ panicked)
      <4>1. ~panicked /\ counted = IF status = 0 THEN 200 ELSE status
        BY <1>5, <3>2
      <4>2. CASE status # 0
        BY <1>1, <3>2, <4>1, <4>2 DEF CountedAsAnswered
      <4>3. CASE status = 0
        <5>1. counted = 200 /\ status' = IF deadline = "over" THEN 504 ELSE 200
          BY <1>1, <4>1, <4>3
        <5> QED
          BY <1>1, <3>2, <5>1 DEF CountedAsAnswered
      <4> QED
        BY <4>2, <4>3
    <3> QED
      BY <3>1, <3>2
  <2>3. report' \in {"none", "debug", "warn", "panic"}
    BY <1>1, <1>5
  <2> HIDE DEF written
  <2> QED
    BY <1>1, <1>5, <1>6, <2>1, <2>2, <2>3 DEF Answer
<1>8. Redirected'
  BY <1>1, SetupFrame DEF GatewayInv, Redirected
<1>9. /\ UpstreamAuthorized' /\ TenantHeader' /\ (ByOIDC' <=> ByOIDC)
      /\ (Unidentified' <=> Unidentified) /\ (Denied' <=> Denied)
  BY <1>1, RequestFrame DEF GatewayInv
<1>10. status' = status \/ (status = 0 /\ status' \in {504, 500, 200})
  BY <1>1
<1>11. Identified' /\ Refusals'
  BY <1>1, <1>9, <1>10 DEF GatewayInv, Identified, Refusals
<1>12. Lands'
  BY <1>1, <1>9, <1>10 DEF GatewayInv, Lands
<1> QED
  BY <1>3, <1>4, <1>7, <1>8, <1>9, <1>11, <1>12 DEF GatewayInv

LEMMA GatewayInvNext == GatewayInv /\ [Next]_vars => GatewayInv'
<1> SUFFICES ASSUME GatewayInv, [Next]_vars PROVE GatewayInv'
  OBVIOUS
<1>1. CASE Handle
  BY <1>1, RouteInv, UnknownTenantInv, OIDCMiddlewareInv, MTLSMiddlewareInv, AddHeaderInv, DispatchInv,
     WithAuthorizerInv, OIDCHandlerInv, UnwindInv DEF Handle
<1>2. CASE Finish \/ DeadlinePasses \/ Arrive \/ Leave \/ Follow \/ ProviderAnswers
  BY <1>2, FinishInv, DeadlineInv, ArriveInv, LeaveInv, FollowInv, ProviderAnswersInv
<1>3. CASE SetupNext /\ UNCHANGED <<pc, reqVars, logVars, jar>>
  BY <1>3, SetupStepInv
<1>4. CASE \E n \in DOMAIN jar : Expires(n)
  BY <1>4, ExpiresInv
<1>5. CASE UNCHANGED vars
  BY <1>5, StutterInv
<1> QED
  BY <1>1, <1>2, <1>3, <1>4, <1>5 DEF Next

\* The strengthened invariant holds of every start and every request.
THEOREM GatewayInvariance == Spec => []GatewayInv
BY GatewayInvInit, GatewayInvNext, PTL DEF Spec


-----------------------------------------------------------------------------
(* What follows                                                            *)

\* For every configuration, the context, answer, cookies and redirects have
\* their types, and a browser is never sent on more than MaxHops times.
THEOREM GatewayTypeCorrect == Spec => []TypeOK
<1>1. GatewayInv => TypeOK
  <2> SUFFICES ASSUME GatewayInv PROVE TypeOK
    OBVIOUS
  <2>1. SetupTypeOK
    BY SetupTypes DEF GatewayInv
  <2>2. /\ pc \in Places /\ subject \in SUBSET STRING /\ groups \in SUBSET (SUBSET STRING)
        /\ header \in Seq(HeaderValues) /\ deadline \in {"none", "running", "over"}
    BY DEF GatewayInv, Context
  <2>3. hops \in 0 .. MaxHops
    BY DEF GatewayInv, Asked, Rank, MaxHops
  <2>4. req \in Request /\ origin \in Request /\ \A n \in DOMAIN jar : jar[n] \in Credential
    BY DEF GatewayInv, Asked, Jar
  <2>5. /\ sent.to \in Upstreams \cup {"none"} /\ status \in Codes /\ panicked \in BOOLEAN
        /\ counted \in {0, 200, 500, 502} /\ report \in {"none", "debug", "warn", "panic"}
    BY DEF GatewayInv, Answer
  <2>6. location.to \in {"nowhere", "provider", "root", "graph", "lost"}
    BY DEF GatewayInv, Redirected
  <2> QED
    BY <2>1, <2>2, <2>3, <2>4, <2>5, <2>6 DEF TypeOK, Places, HeaderValues, Codes
<1> QED
  BY <1>1, GatewayInvariance, PTL

\* For every tenants file and RBAC file, what reaches an upstream came with a
\* credential of its tenant whose holder has a grant for it.
THEOREM NothingUnauthorized == Spec => []UpstreamAuthorized
<1>1. GatewayInv => UpstreamAuthorized
  BY DEF GatewayInv
<1> QED
  BY <1>1, GatewayInvariance, PTL

\* Whatever the client sends in the tenant header, what reaches an upstream
\* ends in the ID of its tenant.
THEOREM HeaderNamesTenant == Spec => []TenantHeader
<1>1. GatewayInv => TenantHeader
  BY DEF GatewayInv
<1> QED
  BY <1>1, GatewayInvariance, PTL

\* A request shows the method of a tenant one credential at most.
LEMMA OneUsable ==
    ASSUME GatewayInv, NEW i \in Indices
    PROVE  \A c, d \in Usable(i) : c = d
BY DEF GatewayInv, Asked, Usable, Tokens

\* Nobody with an accepted credential and a grant is answered 401 or 403.
THEOREM LegitimateAreServed == Spec => []LegitimateServed
<1>1. GatewayInv => LegitimateServed
  <2> SUFFICES ASSUME GatewayInv, NEW i \in Indices,
                      pc = "done", req.mount \in {"legacy", "metrics", "alertmanager", "logs"},
                      tenants[i].name = req.tenant, Unique(i), req.tenant \in DOMAIN middlewares,
                      NEW c \in Usable(i), c.by = i,
                      Granted(SubjectOf(c.who, i), GroupsOf(c.who, i), Wanted, Resource(req.mount), req.tenant)
               PROVE  status \notin {401, 403}
    BY DEF LegitimateServed, Usable, Wanted
  <2>1. Entry = i
    <3>1. Entry \in Indices /\ tenants[Entry].name = req.tenant
      BY EntryFacts DEF GatewayInv, Running
    <3> QED
      BY <3>1 DEF Unique
  <2>2. ~Unidentified
    BY <2>1 DEF Unidentified
  <2>3. ~Denied
    BY <2>1, OneUsable DEF Denied
  <2> QED
    BY <2>2, <2>3 DEF GatewayInv, Refusals
<1> QED
  BY <1>1, GatewayInvariance, PTL

\* Every login that the callback lets go on ends at its tenant's UI, unless
\* the cookie, the token or the grant is missing.
THEOREM LoginsLand == Spec => []LoginLands
<1>1. GatewayInv => LoginLands
  <2> SUFFICES ASSUME GatewayInv, pc = "done", location = Nowhere, origin.path = "login",
                      req.mount # "oidc", ByOIDC
               PROVE  /\ req.tenant = origin.tenant
                      /\ sent.to = "ui" \/ status \in {400, 403} \/ (status = 401 /\ req.cookie = {})
    BY DEF LoginLands, ByOIDC
  <2>1. req.tenant = origin.tenant
    BY DEF GatewayInv, LoginWay
  <2> QED
    BY <2>1 DEF GatewayInv, Lands
<1> QED
  BY <1>1, GatewayInvariance, PTL

\* Every response of 5xx, and every response that a panic broke off, is in the log
\* as a warning or a panic, and no other.
THEOREM ServerErrorsAreReported == Spec => []ServerErrorsReported
<1>1. GatewayInv => ServerErrorsReported
  BY DEF GatewayInv, Answer
<1> QED
  BY <1>1, GatewayInvariance, PTL

\* What an instrumented handler answers is counted under its status, but for
\* what Timeout writes and for panics.
THEOREM CountersTellAnswers == Spec => []CountedAsAnswered
<1>1. GatewayInv => CountedAsAnswered
  BY DEF GatewayInv, Answer
<1> QED
  BY <1>1, GatewayInvariance, PTL
=============================================================================
