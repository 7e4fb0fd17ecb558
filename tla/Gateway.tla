------------------------------ MODULE Gateway -------------------------------
(***************************************************************************)
(* A request on its way through the gateway: the router that main.go       *)
(* builds, the authentication, tenant header and authorization             *)
(* middlewares, and the handlers of internal/api, up to the upstream; and  *)
(* its answer on the way back, past the counters and the request log.      *)
(* Setup is the start that comes before, with the routes it builds.        *)
(*                                                                         *)
(* The middlewares share nothing that a request changes, so there is one   *)
(* request at a time.  Its client is a browser that keeps the cookies the  *)
(* OIDC callback sets and follows redirects, and that may also attach      *)
(* credentials of its own.                                                 *)
(***************************************************************************)
EXTENDS Setup

CONSTANTS
    People,         \* who may hold an ID token or a client certificate
    Unknown         \* a tenant name that the tenants file does not have

\* What a token or certificate says of its holder; "" is a missing or unusable
\* claim or name, groups is empty or holds the list of groups, if there is one.
Person == [sub : STRING, username : STRING, groups : SUBSET (SUBSET STRING)]

ASSUME GatewayAssumption ==
    /\ People \subseteq Person /\ People # {}
    /\ \A p \in People : \A g, h \in p.groups : g = h
    /\ \A list \in TenantLists : \A i \in DOMAIN list : list[i].name # Unknown

VARIABLES
    pc,         \* where the request is
    req,        \* what the client asks for
    subject,    \* the context's subject
    groups,     \* the context's groups: empty, or the list of them
    header,     \* the values of the tenant header
    deadline,   \* of the Timeout middleware
    sent,       \* where the request went, and with what tenant header
    status,     \* of the response, 0 before it is written
    panicked,   \* a handler did
    counted,    \* the status the instrumentation counted the request under
    report,     \* how the request was logged
    location,   \* where the response redirects to
    jar,        \* the client's cookies: tenant name -> token
    origin,     \* the request that the redirects started from
    hops        \* redirects followed since

reqVars == <<req, subject, groups, header, deadline, sent, status, location, origin, hops>>
logVars == <<panicked, counted, report>>
vars == <<setupVars, pc, reqVars, logVars, jar>>

\* A credential is signed for a tenant of the file, or (0) by nobody the
\* gateway trusts, expired ones included.
Credential == [by : Indices \cup {0}, who : People]
NoCredential == [by |-> 0, who |-> CHOOSE p \in People : TRUE]

Mounts == {"root", "oidc", "legacy", "metrics", "alertmanager", "logs"}
AllNames == {tenants[i].name : i \in Indices} \cup {Unknown}

\* "answer" stands for the parameters of a provider's answer.
Request ==
    [mount : Mounts, tenant : AllNames \cup {"graph"}, path : UNION {Paths(m) : m \in Mounts},
     method : {"GET", "POST"}, via : {"none", "malformed", "bearer", "certificate"},
     credential : Credential, cookie : SUBSET Credential, answer : {"error", "no_code", "bad_state", "code"}]

NoRequest ==
    [mount |-> "root", tenant |-> Unknown, path |-> "", method |-> "GET", via |-> "none",
     credential |-> NoCredential, cookie |-> {}, answer |-> "no_code"]
NoUpstream == [to |-> "none", tenant |-> Unknown, header |-> <<>>]
Nowhere == [to |-> "nowhere", tenant |-> Unknown]

Upstreams == {"read", "ui", "write", "remote_write", "fanout", "logs_read", "logs_tail", "logs_write"}

\* A login follows three redirects: by way of the provider to the callback, to
\* the tenant's root and to its UI.
MaxHops == 3

\* The types of a request's context and response (main.go:325-459).
TypeOK ==
    /\ SetupTypeOK
    /\ pc \in {"idle", "route", "oidc", "auth", "header", "authorize", "dispatch", "upstream",
               "unwind", "done"}
    /\ req \in Request /\ origin \in Request
    /\ subject \in SUBSET STRING /\ groups \in SUBSET (SUBSET STRING)
    /\ header \in Seq({"own"} \cup {tenants[i].id : i \in Indices})
    /\ deadline \in {"none", "running", "over"}
    /\ sent.to \in Upstreams \cup {"none"}
    /\ status \in {0, 200, 301, 302, 303, 400, 401, 403, 404, 405, 500, 502, 504}
    /\ panicked \in BOOLEAN /\ report \in {"none", "debug", "warn", "panic"}
    /\ counted \in {0, 200, 500, 502}
    /\ location.to \in {"nowhere", "provider", "root", "graph", "lost"}
    /\ \A n \in DOMAIN jar : jar[n] \in Credential
    /\ hops \in 0 .. MaxHops

Init ==
    /\ SetupInit
    /\ pc = "idle" /\ req = NoRequest /\ origin = NoRequest
    /\ subject = {} /\ groups = {} /\ header = <<>> /\ deadline = "none"
    /\ sent = NoUpstream /\ status = 0 /\ location = Nowhere /\ hops = 0
    /\ panicked = FALSE /\ counted = 0 /\ report = "none"
    /\ jar = EmptyMap

-----------------------------------------------------------------------------
(* The client                                                              *)

Cookie(n) == IF n \in DOMAIN jar THEN {jar[n]} ELSE {}

WithCookie(r) == [r EXCEPT !.cookie = Cookie(r.tenant)]

Start(r, own) ==
    /\ req' = WithCookie(r)
    /\ pc' = "route"
    /\ subject' = {} /\ groups' = {} /\ header' = own /\ deadline' = "none"
    /\ sent' = NoUpstream /\ status' = 0 /\ location' = Nowhere
    /\ panicked' = FALSE /\ counted' = 0 /\ report' = "none"
    /\ UNCHANGED <<setupVars, jar>>

Bearing(via, c) == [NoRequest EXCEPT !.via = via, !.credential = c]
Answering(a, c) == [NoRequest EXCEPT !.answer = a, !.credential = c]

\* What a request for a path may bring: nothing, an Authorization header that is
\* none, a credential, or a provider's answer.
Brought(p) ==
    {Bearing("malformed", NoCredential)}
    \cup {Bearing(via, c) :
            via \in {"bearer"} \cup (IF tlsConfig THEN {"certificate"} ELSE {}), c \in Credential}
    \cup {Answering(a, NoCredential) :
            a \in IF p = "callback" THEN {"error", "no_code", "bad_state", "code"} ELSE {"no_code"}}

Addressed(r, m, n, p, method) == [r EXCEPT !.mount = m, !.tenant = n, !.path = p, !.method = method]

\* A request of the client's own.  It may come with a value of the tenant
\* header.  Methods differ where a handler tells them apart.  The cookies of
\* other tenants play no part (each has its own name): there are none.
Arrive ==
    /\ stage = "ready" /\ pc = "idle"
    /\ \E m \in Mounts, n \in {k \in AllNames : DOMAIN jar \subseteq {k}}, own \in {<<>>, <<"own">>} :
       \E p \in Paths(m), method \in IF m \in {"oidc", "alertmanager"} THEN {"GET", "POST"} ELSE {"GET"} :
       \E r \in Brought(p) :
         LET whole == Addressed(r, m, n, p, method)
         IN Start(whole, own) /\ origin' = whole
    /\ hops' = 0

\* The client has its answer and goes no further.
Leave ==
    /\ pc = "done" /\ pc' = "idle"
    /\ req' = NoRequest /\ origin' = NoRequest
    /\ subject' = {} /\ groups' = {} /\ header' = <<>> /\ deadline' = "none"
    /\ sent' = NoUpstream /\ status' = 0 /\ location' = Nowhere /\ hops' = 0
    /\ panicked' = FALSE /\ counted' = 0 /\ report' = "none"
    /\ UNCHANGED <<setupVars, jar>>

\* The browser follows a redirect of the gateway.
Follow ==
    /\ pc = "done"
    /\ \/ location.to = "root" /\ Start(Addressed(NoRequest, "root", location.tenant, "", "GET"), <<>>)
       \/ /\ location.to = "graph"
          /\ Start(Addressed(NoRequest, "metrics", location.tenant, "graph", "GET"), <<>>)
       \/ location.to = "lost" /\ Start(Addressed(NoRequest, "metrics", "graph", "other", "GET"), <<>>)
    /\ hops' = hops + 1
    /\ UNCHANGED origin

\* The provider lets somebody log in, or reports an error, and sends the
\* browser to the tenant's redirect URL, which is its callback.
ProviderAnswers ==
    /\ pc = "done" /\ location.to = "provider"
    /\ \E a \in {"error", "code"}, p \in People :
         LET token == [by |-> oidcMiddlewares[location.tenant], who |-> p]
         IN Start(Addressed(Answering(a, token), "oidc", location.tenant, "callback", "GET"), <<>>)
    /\ hops' = hops + 1
    /\ UNCHANGED origin

\* The cookie lives as long as the access token, the ID token in it as long as
\* the provider says: either may end first.
Expires(n) ==
    /\ pc \in {"idle", "done"} /\ n \in DOMAIN jar
    /\ \/ jar' = [m \in DOMAIN jar \ {n} |-> jar[m]]
       \/ jar' = [jar EXCEPT ![n] = NoCredential]
    /\ UNCHANGED <<setupVars, pc, reqVars, logVars>>

-----------------------------------------------------------------------------
(* The router and its middlewares                                          *)

\* A handler or middleware has written a status (0: nothing) or panicked; the
\* call returns through the middlewares.
Done(code) == pc' = "unwind" /\ status' = code
Panic == pc' = "unwind" /\ panicked' = TRUE
Redirect(code, to) == Done(code) /\ location' = [to |-> to, tenant |-> req.tenant]

MutRoute ==
    /\ pc = "route"
    /\ \/ req.mount = "oidc" /\ pc' = "oidc" /\ UNCHANGED <<deadline, status>>
       \/ req.mount \in {"root", "legacy", "metrics"} /\ pc' = "auth" /\ UNCHANGED <<deadline, status>>
       \/ req.mount = "alertmanager" /\ config.alertmanagers > 0 /\ pc' = "auth" /\ UNCHANGED <<deadline, status>>
       \/ req.mount = "logs" /\ config.logsEnabled /\ pc' = "auth" /\ UNCHANGED <<deadline, status>>
       \/ /\ \/ req.mount = "alertmanager" /\ config.alertmanagers = 0
             \/ req.mount = "logs" /\ ~config.logsEnabled
          /\ Done(404)
          /\ UNCHANGED deadline
    /\ UNCHANGED <<setupVars, logVars, req, subject, groups, header, sent, location, origin, hops, jar>>

\* WithTenant, and Timeout in the metrics group.
Route ==
    /\ pc = "route"
    /\ \/ req.mount = "oidc" /\ pc' = "oidc" /\ UNCHANGED <<deadline, status>>
       \/ req.mount \in {"root", "legacy", "metrics"} /\ pc' = "auth" /\ deadline' = "running"
          /\ UNCHANGED status
       \/ req.mount = "alertmanager" /\ config.alertmanagers > 0 /\ pc' = "auth" /\ UNCHANGED <<deadline, status>>
       \/ req.mount = "logs" /\ config.logsEnabled /\ pc' = "auth" /\ UNCHANGED <<deadline, status>>
       \/ /\ \/ req.mount = "alertmanager" /\ config.alertmanagers = 0
             \/ req.mount = "logs" /\ ~config.logsEnabled
          /\ Done(404)
          /\ UNCHANGED deadline
    /\ UNCHANGED <<setupVars, logVars, req, subject, groups, header, sent, location, origin, hops, jar>>

\* WithTenantMiddlewares knows the tenant and finds this method.
Uses(method) ==
    /\ pc = "auth" /\ req.tenant \in DOMAIN middlewares
    /\ middlewares[req.tenant].method = method
Entry == middlewares[req.tenant].tenant

UnknownTenant ==
    /\ pc = "auth" /\ req.tenant \notin DOMAIN middlewares
    /\ Done(401)
    /\ UNCHANGED <<setupVars, logVars, req, subject, groups, header, deadline, sent, location, origin, hops, jar>>

\* The context gets an identity; in the alertmanager group Timeout is next.
Authenticated(sub, gs) ==
    /\ subject' = {sub} /\ groups' = gs
    /\ deadline' = IF req.mount = "alertmanager" THEN "running" ELSE deadline
    /\ pc' = "header"
    /\ UNCHANGED status

Refused(code) == Done(code) /\ UNCHANGED <<subject, groups, deadline>>

\* The Authorization header goes before the cookie.
Tokens == IF req.via = "bearer" THEN {req.credential} ELSE req.cookie

OIDCMiddleware ==
    /\ Uses("oidc")
    /\ \/ req.via = "malformed" /\ Refused(401)
       \/ req.via # "malformed" /\ Tokens = {} /\ Refused(401)
       \/ /\ req.via # "malformed"
          /\ \E token \in Tokens, c \in tenants[Entry].oidc :
               \* Verify fails: not a token of this provider and client, or the
               \* provider's keys cannot be had.  (The 500 of claims that cannot
               \* be read is left out: Verify has decoded the same JSON before.)
               \/ Refused(400)
               \/ /\ token.by = Entry
                  /\ \/ c.usernameClaim /\ token.who.username = ""
                     \/ c.groupClaim /\ token.who.groups = {}
                  /\ Refused(400)
               \/ /\ token.by = Entry
                  /\ c.usernameClaim => token.who.username # ""
                  /\ c.groupClaim => token.who.groups # {}
                  /\ Authenticated(IF c.usernameClaim THEN token.who.username ELSE token.who.sub,
                                   IF c.groupClaim THEN token.who.groups ELSE {})
    /\ UNCHANGED <<setupVars, logVars, req, header, sent, location, origin, hops, jar>>

\* Without TLS the middleware panics, and Recoverer answers.
MTLSMiddleware ==
    /\ Uses("mtls")
    /\ \/ ~tlsConfig /\ Panic /\ UNCHANGED <<subject, groups, deadline, status>>
       \/ tlsConfig /\ req.via # "certificate" /\ Refused(401) /\ UNCHANGED panicked
       \/ /\ tlsConfig /\ req.via = "certificate" /\ UNCHANGED panicked
          /\ \/ req.credential.by # Entry /\ Refused(500)
             \/ req.credential.by = Entry /\ req.credential.who.sub = "" /\ Refused(400)
             \/ /\ req.credential.by = Entry /\ req.credential.who.sub # ""
                \* Organizational units are always there, none or more.
                /\ Authenticated(req.credential.who.sub, {UNION req.credential.who.groups})
    /\ UNCHANGED <<setupVars, counted, report, req, header, sent, location, origin, hops, jar>>

MutAddHeader ==
    /\ pc = "header"
    /\ header' = IF header = <<>> THEN <<tenantIDs[req.tenant]>> ELSE header
    /\ \/ req.mount = "root" /\ Redirect(301, "graph")
       \/ req.mount = "legacy" /\ pc' = "authorize" /\ UNCHANGED <<status, location>>
       \/ req.mount \notin {"root", "legacy"} /\ pc' = "dispatch" /\ UNCHANGED <<status, location>>
    /\ UNCHANGED <<setupVars, logVars, req, subject, groups, deadline, sent, origin, hops, jar>>

MutAddHeaderLoop ==
    /\ pc = "header"
    /\ header' = Append(header, tenantIDs[req.tenant])
    /\ \/ req.mount = "root" /\ Redirect(301, "root")
       \/ req.mount = "legacy" /\ pc' = "authorize" /\ UNCHANGED <<status, location>>
       \/ req.mount \notin {"root", "legacy"} /\ pc' = "dispatch" /\ UNCHANGED <<status, location>>
    /\ UNCHANGED <<setupVars, logVars, req, subject, groups, deadline, sent, origin, hops, jar>>

\* WithTenantHeader adds a value, behind those the client sent.  The handler of
\* "/{tenant}" redirects to the UI; the legacy handler authorizes before it
\* routes, the others after.
AddHeader ==
    /\ pc = "header"
    /\ header' = Append(header, tenantIDs[req.tenant])
    /\ \/ req.mount = "root" /\ Redirect(301, "graph")
       \/ req.mount = "legacy" /\ pc' = "authorize" /\ UNCHANGED <<status, location>>
       \/ req.mount \notin {"root", "legacy"} /\ pc' = "dispatch" /\ UNCHANGED <<status, location>>
    /\ UNCHANGED <<setupVars, logVars, req, subject, groups, deadline, sent, origin, hops, jar>>

-----------------------------------------------------------------------------
(* The handlers of internal/api                                            *)

Matching == {r \in routes : r.mount = req.mount /\ r.path = req.path}
Resource(mount) == IF mount \in {"metrics", "legacy"} THEN "metrics" ELSE mount

Forward(r) ==
    /\ sent' = [to |-> r.to, tenant |-> req.tenant, header |-> header]
    /\ pc' = "upstream"
    /\ UNCHANGED <<status, location>>

\* stripTenantPrefix and the handler's router.
Dispatch ==
    /\ pc = "dispatch"
    /\ \/ Matching = {} /\ Done(404) /\ UNCHANGED <<sent, location>>
       \/ \E r \in Matching :
            \/ r.method \notin {"any", req.method} /\ Done(405) /\ UNCHANGED <<sent, location>>
            \/ /\ r.method \in {"any", req.method}
               /\ \/ /\ req.mount # "legacy"
                     /\ pc' = "authorize" /\ UNCHANGED <<sent, status, location>>
                  \/ req.mount = "legacy" /\ r.path = "query" /\ Forward(r)
                  \* The legacy /graph redirects to a path without the tenant.
                  \/ /\ req.mount = "legacy" /\ r.path = "graph"
                     /\ Redirect(301, "lost") /\ UNCHANGED sent
    /\ UNCHANGED <<setupVars, logVars, req, subject, groups, header, deadline, origin, hops, jar>>

Allowed(permission, gs) ==
    \A sub \in subject : Authorize(sub, gs, permission, Resource(req.mount), req.tenant)

MutWithAuthorizer ==
    /\ pc = "authorize"
    /\ \/ groups = {} /\ Done(403) /\ UNCHANGED <<sent, location>>
       \/ /\ groups # {} /\ req.mount # "legacy"
          /\ \E r \in Matching :
               \/ ~Allowed(r.permission, UNION groups) /\ Done(403) /\ UNCHANGED <<sent, location>>
               \/ Allowed(r.permission, UNION groups) /\ Forward(r)
       \/ /\ groups # {} /\ req.mount = "legacy"
          /\ \/ ~Allowed("read", UNION groups) /\ Done(403)
             \/ Allowed("read", UNION groups) /\ pc' = "dispatch" /\ UNCHANGED status
          /\ UNCHANGED <<sent, location>>
    /\ UNCHANGED <<setupVars, logVars, req, subject, groups, header, deadline, origin, hops, jar>>

\* A context without groups counts as one with no groups.
WithAuthorizer ==
    /\ pc = "authorize"
    /\ \/ /\ req.mount # "legacy"
          /\ \E r \in Matching :
               \/ ~Allowed(r.permission, UNION groups) /\ Done(403) /\ UNCHANGED <<sent, location>>
               \/ Allowed(r.permission, UNION groups) /\ Forward(r)
       \/ /\ req.mount = "legacy"
          /\ \/ ~Allowed("read", UNION groups) /\ Done(403)
             \/ Allowed("read", UNION groups) /\ pc' = "dispatch" /\ UNCHANGED status
          /\ UNCHANGED <<sent, location>>
    /\ UNCHANGED <<setupVars, logVars, req, subject, groups, header, deadline, origin, hops, jar>>

\* The status that the handlers in front of the upstreams write: a reverse proxy
\* passes on that of the upstream's answer (200 stands for all but server errors)
\* or writes 502 if it gets none in time; RemoteWrite writes nothing.
Outcomes ==
    CASE sent.to = "remote_write" -> {0}
      [] sent.to = "fanout" -> {200, 500, 502}
      [] OTHER -> {200, 500, 502}

MutFinish ==
    /\ pc = "upstream"
    /\ \/ \E code \in Outcomes :
            /\ Done(code)
            /\ counted' = IF sent.to = "fanout" THEN 0 ELSE 200
            /\ UNCHANGED panicked
       \/ /\ sent.to = "remote_write"
          /\ Panic /\ UNCHANGED <<status, counted>>
       \/ /\ sent.to \notin {"remote_write", "fanout"}
          /\ \E code \in Outcomes : Done(code) /\ Panic /\ UNCHANGED counted
    /\ UNCHANGED <<setupVars, report, req, subject, groups, header, deadline, sent, location, origin,
                   hops, jar>>

\* The instrumentation counts what the handler wrote, 200 if it wrote nothing.
\* Alertmanager's handler has none.  RemoteWrite may panic before anything is
\* written; a reverse proxy panics (http.ErrAbortHandler) behind the status if the
\* body breaks off: the upstream fails, the deadline passes or the client leaves.
Finish ==
    /\ pc = "upstream"
    /\ \/ \E code \in Outcomes :
            /\ Done(code)
            /\ counted' = IF sent.to = "fanout" THEN 0 ELSE IF code = 0 THEN 200 ELSE code
            /\ UNCHANGED panicked
       \/ /\ sent.to = "remote_write"
          /\ Panic /\ UNCHANGED <<status, counted>>
       \/ /\ sent.to \notin {"remote_write", "fanout"}
          /\ \E code \in Outcomes : Done(code) /\ Panic /\ UNCHANGED counted
    /\ UNCHANGED <<setupVars, report, req, subject, groups, header, deadline, sent, location, origin,
                   hops, jar>>

MutUnwind ==
    /\ pc = "unwind" /\ pc' = "done"
    /\ LET written ==
             IF status # 0 THEN status
             ELSE IF deadline = "over" THEN 504 ELSE IF panicked THEN 500 ELSE 200
       IN /\ status' = written
          /\ report' = IF panicked THEN "panic" ELSE IF status >= 500 THEN "warn" ELSE "debug"
    /\ UNCHANGED <<setupVars, panicked, counted, req, subject, groups, header, deadline, sent, location,
                   origin, hops, jar>>

\* Out through Timeout, which writes 504 if its deadline is over, Logger, which
\* a panic passes by, and Recoverer.  The first to write a status has the say,
\* and what nobody writes is 200.
Unwind ==
    /\ pc = "unwind" /\ pc' = "done"
    /\ LET written ==
             IF status # 0 THEN status
             ELSE IF deadline = "over" THEN 504 ELSE IF panicked THEN 500 ELSE 200
       IN /\ status' = written
          /\ report' = IF panicked THEN "panic" ELSE IF written >= 500 THEN "warn" ELSE "debug"
    /\ UNCHANGED <<setupVars, panicked, counted, req, subject, groups, header, deadline, sent, location,
                   origin, hops, jar>>

DeadlinePasses ==
    /\ pc \notin {"idle", "done"} /\ deadline = "running"
    /\ deadline' = "over"
    /\ UNCHANGED <<setupVars, logVars, pc, req, subject, groups, header, sent, status, location, origin, hops, jar>>

-----------------------------------------------------------------------------
(* The OIDC handler: no middleware but WithTenant                          *)

Login ==
    /\ pc = "oidc" /\ req.tenant \in DOMAIN oidcMiddlewares /\ req.path = "login"
    /\ Redirect(303, "provider")
    /\ UNCHANGED <<setupVars, logVars, req, subject, groups, header, deadline, sent, origin, hops, jar>>

MutCallback ==
    /\ pc = "oidc" /\ req.tenant \in DOMAIN oidcMiddlewares /\ req.path = "callback"
    /\ req.method = "GET" /\ req.answer = "code"
    /\ req.credential.by = oidcMiddlewares[req.tenant]
    /\ jar' = Set(jar, req.tenant, req.credential)
    /\ Redirect(302, "lost")
    /\ UNCHANGED <<setupVars, logVars, req, subject, groups, header, deadline, sent, origin, hops>>

\* The code is exchanged for an ID token that verifies, which becomes the
\* tenant's cookie.
Callback ==
    /\ pc = "oidc" /\ req.tenant \in DOMAIN oidcMiddlewares /\ req.path = "callback"
    /\ req.method = "GET" /\ req.answer = "code"
    /\ req.credential.by = oidcMiddlewares[req.tenant]
    /\ jar' = Set(jar, req.tenant, req.credential)
    /\ Redirect(302, "root")
    /\ UNCHANGED <<setupVars, logVars, req, subject, groups, header, deadline, sent, origin, hops>>

\* The tenant has no provider; the path or method is not served; or the
\* callback fails, with a code at the exchange or at the verification.
OIDCFails ==
    /\ pc = "oidc"
    /\ \/ req.tenant \notin DOMAIN oidcMiddlewares /\ Done(401)
       \/ /\ req.tenant \in DOMAIN oidcMiddlewares
          /\ \/ req.path = "other" /\ Done(404)
             \/ req.path = "callback" /\ req.method = "POST" /\ Done(405)
             \/ /\ req.path = "callback" /\ req.method = "GET"
                /\ Done(IF req.answer = "code" THEN 500 ELSE 400)
    /\ UNCHANGED <<setupVars, logVars, req, subject, groups, header, deadline, sent, location, origin, hops, jar>>

Handle ==
    \/ Route \/ UnknownTenant \/ OIDCMiddleware \/ MTLSMiddleware \/ AddHeader
    \/ Dispatch \/ WithAuthorizer \/ Login \/ Callback \/ OIDCFails \/ Unwind

Next ==
    \/ SetupNext /\ UNCHANGED <<pc, reqVars, logVars, jar>>
    \/ Handle \/ Finish \/ DeadlinePasses
    \/ Arrive \/ Leave \/ Follow \/ ProviderAnswers
    \/ \E n \in DOMAIN jar : Expires(n)

\* The server runs its handlers, the deadline passes, and a handler ends when
\* its context does; the remote-write handler does not wait for its upstreams.
\* Nothing else makes an upstream answer.
Fairness ==
    /\ WF_vars(Handle)
    /\ WF_vars(DeadlinePasses)
    /\ WF_vars((deadline = "over" \/ sent.to = "remote_write") /\ Finish)

Spec == Init /\ [][Next]_vars /\ Fairness

-----------------------------------------------------------------------------
(* Properties                                                              *)

\* The holder of a credential as tenant i's configuration names it.
SubjectOf(who, i) ==
    IF \E c \in tenants[i].oidc : c.usernameClaim THEN who.username ELSE who.sub
GroupsOf(who, i) ==
    IF \E c \in tenants[i].oidc : ~c.groupClaim THEN {} ELSE UNION who.groups

\* The credentials that came with the request.
Shown ==
    (IF req.via \in {"bearer", "certificate"} THEN {req.credential} ELSE {}) \cup req.cookie

Writes(to) == to \in {"write", "remote_write", "fanout", "logs_write"}
ResourceOf(to) ==
    IF to = "fanout" THEN "alertmanager"
    ELSE IF to \in {"logs_read", "logs_tail", "logs_write"} THEN "logs" ELSE "metrics"

\* Nothing reaches an upstream on a wrong ticket: the request came with a
\* credential for its own tenant, and the RBAC file grants its holder what the
\* upstream is for (read or write, and of which resource) on that tenant.  This
\* spans both configuration files, the merge of the middlewares, and the order
\* of middlewares and routes in main.go:373-459.
UpstreamAuthorized ==
    sent.to # "none" =>
        /\ sent.tenant = req.tenant
        /\ \E i \in Indices, c \in Shown :
             /\ tenants[i].name = req.tenant /\ c.by = i
             /\ Granted(SubjectOf(c.who, i), GroupsOf(c.who, i),
                        IF Writes(sent.to) THEN "write" ELSE "read", ResourceOf(sent.to), req.tenant)

\* Nobody is turned away wrongly: a request to a tenant that is served and has
\* a name of its own, with a credential the tenant's method accepts and a grant
\* for what it asks, is answered neither 401 nor 403.  In particular a token
\* without groups (authorization/http.go:25-28) is as good as its user.
LegitimateServed ==
    \A i \in Indices :
        LET usable == IF tenants[i].oidc # {}
                      THEN IF req.via = "malformed" THEN {} ELSE Tokens
                      ELSE IF req.via = "certificate" THEN {req.credential} ELSE {}
        IN /\ pc = "done" /\ req.mount \in {"legacy", "metrics", "alertmanager", "logs"}
           /\ tenants[i].name = req.tenant /\ Unique(i) /\ req.tenant \in DOMAIN middlewares
           /\ \E c \in usable :
                /\ c.by = i
                /\ Granted(SubjectOf(c.who, i), GroupsOf(c.who, i),
                           IF req.path \in {"receive", "alerts", "push"} THEN "write" ELSE "read",
                           Resource(req.mount), req.tenant)
           => status \notin {401, 403}

\* The value that WithTenantHeader adds is the last of the tenant header and
\* the ID that the file gives (last) to the tenant's name, whatever values the
\* client sent along.
TenantHeader ==
    sent.to # "none" =>
        \E i \in Indices :
            /\ tenants[i].name = req.tenant
            /\ \A j \in Indices : tenants[j].name = req.tenant => j <= i
            /\ sent.header # <<>> /\ sent.header[Len(sent.header)] = tenants[i].id

\* A login ends where it should.  Once the callback has let the browser go on,
\* its redirect and that of "/{tenant}" (main.go:385) take it to the UI of the
\* tenant it logged in to.  It is turned away on the way only if the cookie
\* expired, the token's claims or keys are no good, or there is no grant.
LoginLands ==
    /\ pc = "done" /\ location = Nowhere /\ origin.path = "login" /\ req.mount # "oidc"
    /\ middlewares[origin.tenant] = [tenant |-> oidcMiddlewares[origin.tenant], method |-> "oidc"]
    => /\ req.tenant = origin.tenant
       /\ sent.to = "ui" \/ status \in {400, 403} \/ (status = 401 /\ req.cookie = {})

\* Upstreams that never answer do not hold a caller for ever where a Timeout
\* middleware is in front of them (main.go:374 and 419; the logs group has
\* none), on whatever way the request takes.
Answered == pc = "route" /\ req.mount # "logs" ~> pc = "done"

\* No server error goes unseen: a response of 5xx, wherever between the
\* upstream and the outermost middleware it came from, and one that was broken
\* off, whatever its status, is in the log as a warning (instrumentation.go:110),
\* or as the panic that Recoverer caught, and no other response is.
ServerErrorsReported ==
    pc = "done" => ((status >= 500 \/ panicked) <=> report \in {"warn", "panic"})

\* The counter of requests tells what callers got: a request that reached an
\* instrumented handler is counted under the status of its response.  The
\* exceptions are a response that Timeout wrote behind the counter's back, and
\* a panic, which is not counted at all (instrumentation.go:78-88).
CountedAsAnswered ==
    pc = "done" =>
        IF sent.to \in {"none", "fanout"} \/ panicked THEN counted = 0
        ELSE counted = status \/ (counted = 200 /\ status = 504 /\ deadline = "over")

=============================================================================
