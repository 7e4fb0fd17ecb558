# A formal model of the Observatorium API gateway

The repository is the gateway in front of an Observatorium installation: one Go
process that authenticates and authorizes requests per tenant and passes them
to upstreams for metrics (Thanos), logs (Loki) and alerts (Alertmanager). This
fork adds two proxies that copy a request to several endpoints:
`internal/remotewrite` (fire and forget) and `internal/fanout` (wait for all).

These modules model the parts of the process that carry its own logic, check
them with TLC on small instances and prove the safety properties of all of them
with TLAPS for every value of the constants. All paths below are relative to
`src/`.

## 1. Inventory

| Component | Source | State | Operations | Modelled by |
|---|---|---|---|---|
| Remote-write proxy | `internal/remotewrite/proxy.go` | the slice `endpoints` shared by all handlers (the last URL is rewritten by each request), two counters | handler, forwarding goroutine per endpoint | `RemoteWrite`, `Relay` |
| Log limiter | `internal/remotewrite/logchannel.go` | per endpoint: an unbuffered channel and a `logCounter` | `InitChannels`, select loop, `checkLog`, `revertCounter` | `LogChannel` |
| Alertmanager fan-out | `internal/fanout/proxy.go` | per request: WaitGroup, atomic counter, context, response | handler, goroutine per endpoint | `Fanout`, `Broadcast` |
| RBAC | `rbac/rbac.go` | two maps of grants, by user and by group | `NewAuthorizer`, `Authorize` | `RBAC` |
| Tenant configuration | `main.go:179-375`, `internal/authentication/{http,oidc,mtls}.go` | tenants, parsed CAs, tenant IDs, middlewares by name | two loops over the tenants, `NewOIDC`, `NewMTLS`, merge | `Tenants` |
| Command line | `main.go:545-706` | configuration | `parseFlags`, additional endpoints | `Setup` |
| API routers | `internal/api/*`, `main.go:366-460` | routes, registered collectors | the four `NewHandler` | `Setup` (building), `Gateway` (serving) |
| Server TLS | `internal/tls`, `main.go:462-491` | none / a reloader | `NewServerConfig`, `NewCertReloader`, `Watch` | `Setup`, `Lifecycle` |
| Authentication | `internal/authentication` | context of a request, cookie, tenant header | `WithTenant`, tenant middlewares, `WithTenantHeader`, login, callback | `Gateway` |
| Authorization | `internal/authorization/http.go` | none | `WithAuthorizer` | `Gateway` |
| Instrumentation, logger | `internal/server`, `internal/logger.go` | metrics, log | counters, request log, with chi's Timeout and Recoverer | `Gateway`, registration in `Setup` |
| Process lifecycle | `main.go:283-543` | run group, signal channel, two servers | start, signal, drain, exit | `Lifecycle` |
| Health checks, internal server | `main.go:297-323`, `519-538` | none | library handlers | `Setup` (the check's CA), `Lifecycle` (an actor) |
| Reverse proxy directors | `internal/proxy` | none | `MiddlewareSetUpstream` ... | choice of the upstream and its counter, in `Setup` |
| Test tools, deployment | `test`, `jsonnet`, `examples` | - | - | not modelled |

**How the parts interact.** `main` reads the tenants file and the RBAC file,
builds a map of authentication middlewares by tenant name, and starts a router.
A request goes through the group's middlewares (some groups have a timeout),
`WithTenant`, the tenant's OIDC or mTLS middleware, `WithTenantHeader`, the
handler's router and `WithAuthorizer`, and ends at a reverse proxy, at the
remote-write proxy or at the fan-out. The remote-write handler starts
goroutines that outlive it; they, and the handler itself, report over unbuffered
channels to the log goroutines. `main` then runs four actors in a group (signal
handler, certificate reloader, public and internal server); the first of them to
return ends the process, which drains the servers first.

**What is hard here.**

- The remote-write handlers share a slice without a lock, and read it back while
  other requests write it.
- Nobody waits for forwarding goroutines; a panic in one ends the process, a
  panic in the handler does not.
- The handler itself sends on an unbuffered log channel that goroutines of all
  requests use.
- The log limiter is a small machine with three ways out of its reduced mode,
  two time scales and a count that survives changes of key.
- The fan-out's answer depends on the order of Add, Done, Wait, the atomic
  counter, two calls of `WriteHeader`, and on a deadline that races with late
  answers.
- The start decides in two separate loops, by different conditions, which tenant
  has a CA and which tenant uses it, and collects IDs and middlewares under
  different rules for equal names.
- The middlewares are composed in a different order in each group of routes.
- Handlers register collectors with labels that must not collide, whatever the
  flags.
- A response may be decided by the upstream, the handler, Timeout or Recoverer,
  while counters and the request log sit in between.
- The end of the process is a race of signals, failing actors, servers that may
  not yet listen, connections that the server does not know yet, and a grace
  period.
- The login is a chain of redirects over three handlers, the provider and a
  cookie.

`PROJECT.json` lists the hazards one by one, with the line where each bites and
the properties that would catch it.

**What makes each part correct.** The limiter limits, counts exactly, never goes
silent, recovers and does not panic. The remote-write proxy launches a write it
acknowledges towards every endpoint, to the right URL, and always answers. The
fan-out tells the truth and ends. `Authorize` answers what the file says. A
failed provider costs its own tenant only and every other tenant keeps its own
configuration. What reaches an upstream is authenticated and granted; what is
granted is not refused; a login lands at its tenant's UI; a server error leaves
a trace. What the flags name is served where it belongs. The process ends once
it is told to or an actor fails, finishes what it owes unless the grace period
is over, and its exit code says why.

## 2. Modules and their order

1. `LogChannel`, `LogChannelProofs`, `MCLogChannel`
2. `Relay` (abstract promise), `RemoteWrite`, `RemoteWriteProofs`,
   `MCRemoteWrite` (abstracts the limiter to a receiver that never blocks, which
   `NoPanic` of LogChannel justifies)
3. `Broadcast` (abstract promise), `Fanout`, `FanoutProofs`, `MCFanout`
4. `RBAC`, `RBACProofs`, `MCRBAC`
5. `Tenants` EXTENDS `RBAC`: what becomes of the tenants, of which building the
   authorizer is a part; `TenantsProofs` EXTENDS `RBACProofs`
6. `Setup` EXTENDS `Tenants`, `MCSetup`: the whole start; `SetupProofs` EXTENDS
   `TenantsProofs`
7. `Gateway` EXTENDS `Setup`, `MCGateway`: start and requests, with `RemoteWrite`
   and `Fanout` as the sets of answers they may give; `GatewayProofs` EXTENDS
   `SetupProofs`
8. `Lifecycle` with `Relay` for the writes in progress, `LifecycleProofs`,
   `MCLifecycle`

## 3. The modules and the code

### LogChannel

One goroutine of `InitChannels` and its `logCounter`; the variables have the
names of the fields. `ReceiveSuccess`, `ReceiveError` and `IdleTimeout` are the
cases of the select; the branches of `checkLog` are the actions `NewEvent`,
`Summarise`, `Suppress`, `StartReducing`, `SlideAndLog`, `AppendAndLog`.
`Init` reads the environment as the code does: the test is `err != nil`
(lines 52 and 58), so a value that parses is ignored and a value that does not
replaces the default by what the parser returns with its error (0, or an extreme
int). The model therefore covers `logMaxCount` 0, negative and enormous.

A time is its age in ticks. The code only compares ages with `logInterval`, so
ages saturate at `logInterval + 1`. `burst`, `window` (the ages of the last
`logMaxCount + 2` lines of the current run, which a new key or a success in
reduced mode ends) and `silent` (the ages of the events since the last line of
the log that no line was written for) are history variables: they record what a
reader of the log sees or misses, for the properties only. A line empties
`silent`; a reset of the counter writes none and leaves it.

### RemoteWrite

One request is one handler goroutine: `Arrive`, `ReadBody`, `StoreURL`,
`LoadEndpoint`, `CreateClient`, `NewRequest` or `NewRequestPanics`, `Return`;
then `Forward` per endpoint and `Receive` by the log goroutine. The store of the
Thanos URL and the copy made by `range` are not protected, so each moves the two
words of a Go string one at a time, in either order. Paths are segments and a
trailing slash, and `Join` cleans like `path.Join`: two requests that differ in
the slash get the same URL. A sender on an unbuffered channel waits in a queue,
as Go's channels serve senders in order. An endpoint need never answer: the
client has no timeout and no context.

`Relay` is what the proxy promises, and what it does not: a write that was
accepted is on its way to every endpoint, each copy at most once, and an answer
is never revised; delivery is not promised. The refinement takes a copy as sent
once its goroutine is started and as settled once its outcome is counted or
reported. A goroutine that is started with a nil client and will panic counts
as sent, too: what it does to the process is the finding of `client_failure`.

### Broadcast and Fanout

`Fanout` is one call of the handler with its goroutines; add, spawn, wait, check
and both `WriteHeader` calls are steps of their own, `Transmit` and `Decide`
separate what an endpoint does from what the goroutine learns. The context ends
by deadline or because the caller leaves. `Broadcast` says what a caller may
conclude from the answer: it is one, "all" exactly if every target has confirmed
at that step, and final, so that no target is contacted and no confirmation is
taken behind it; a target may still accept afterwards. The refinement mapping
takes an endpoint as contacted when the request was sent, as accepted when the
endpoint has accepted, and as confirmed when its 2xx was counted in
`fanoutRequests`.

### RBAC

`NewAuthorizer` is a loop over roles, later roles replacing earlier ones of the
same name, and a loop over bindings that copies grants into two maps.
`Authorize` reads the maps. `Granted` is the reference: what the two lists say,
without indices, maps or order.

### Tenants

From the tenants file to the merged middlewares: the loop that parses CAs
(with its fatal exits), the RBAC file (one step per role and binding, or a
failure), the loop that hands each tenant to a method, one step per OIDC
provider (up, down, or hanging until the client's timeout), the mTLS middlewares,
and the merge. A tenant is its index in the file, because names are not checked
to be different, and keys and CAs are represented by the index they belong to.

### Setup

`main` from the flags to `g.Run`, in its order (`stage`): `ParseFlags`; the files
(`LoadFiles`, steps of Tenants); `NewLogger`, `NewHealthchecks`,
`NewInstrumentationMiddleware`; `AddTenants` (steps of Tenants); the four
handlers; `NewServerConfig` and `NewCertReloader`. Each may end the start: fatal,
or with a panic. A handler adds its routes to `routes` and its collectors to
`registered`; the registry panics on one it has. A URL is represented by the
upstream it was given for, so that one that ends up in the wrong place shows.

### Gateway

The start, then one request at a time: the middlewares share no mutable state
except the maps fixed at the start, so requests cannot influence each other
outside the two proxies, which have modules of their own. `Arrive` chooses
mount, path, method and credential; `Route`, `UnknownTenant`, `OIDCMiddleware`,
`MTLSMiddleware`, `AddHeader`, `Dispatch`, `WithAuthorizer` and `Finish` follow
the code's order, which is different for the legacy group (it authorizes before
it routes), with the routes that Setup built. Every answer and every panic then
passes `Unwind`: Timeout writes 504 if its deadline is over and nothing was
written, Logger logs the status (a panic passes it by), Recoverer writes 500. `Login`, `Callback` and `ProviderAnswers` are the login; `Follow` is
a browser that follows a redirect with its cookies. An upstream's answer that
breaks off in its body makes the reverse proxy panic (`http.ErrAbortHandler`)
behind the status it has written; `Finish` has that outcome for every upstream
behind a reverse proxy. Signatures, certificates and
keys are abstracted to the tenant configuration that issued the credential.

### Lifecycle

The run group. `actor`, `errors`, `main`, `at`, `first` and `received` are
`Group.Run` of oklog/run: goroutines that send their error on a buffered channel,
and main, which takes the first, calls the interrupt functions one by one, takes
the others and returns the first. `Interrupt` is the function of the actor at
`at`; for a server it is `Shutdown`, which closes the listener and returns when
no connection is active (`Drained`) or its context is over. `Accept` and `Track`
are separate because a connection is accepted before its server knows of it.
Tails are taken over by the reverse proxy, after which a server no longer counts
them. A remote write in progress is an instance of `Relay`.

## 4. Runs

| Run | Module / cfg | States | Question |
|---|---|---|---|
| `log_limiter` | MCLogChannel | 16.5 k | Does the limiter limit, count exactly, stay visible, recover and not panic, under every configuration? |
| `remote_write` | MCRemoteWrite | 449 k | Does the proxy implement Relay, with intact URLs, and is each outcome counted once? |
| `remote_write_live` | MCRemoteWriteLive.cfg | 112 k | Is every caller answered, and do the log channels drain, when no upstream has to answer? |
| `client_failure` | MCClientFailure.cfg | - | Violation: a client that cannot be created ends the process. |
| `request_failure` | MCRequestFailure.cfg | - | Violation: a URL that does not parse panics the handler. |
| `fanout` | MCFanout | 44 k | Does the answer tell the truth, does the handler end last, does it implement Broadcast? |
| `rbac` | MCRBAC | 264 k | Does `Authorize` agree with the file? |
| `tenants` | MCSetup | 217 k | Do the two loops agree, do names, IDs and authentication stay together, is a failure contained, are all flags served and no collector registered twice, does the start end? |
| `alertmanager_tls` | MCAlertmanagerTLS.cfg | - | Violation: a CA or a server name for Alertmanager alone has no effect. |
| `gateway` | MCGateway | 446 k | Is everything upstream authorized, is nobody turned away wrongly, does a login land, are server errors seen, are callers answered? |
| `lifecycle` | MCLifecycle | 403 k | Is an exit orderly, does its code tell the cause, does a stop end? |
| `second_signal` | MCSecondSignal.cfg | - | Violation: a signal during the drain panics the process. |

**Bounds and why they are enough.**

- `log_limiter`: limits 3, 0, and the extremes; intervals 3 and 0; two keys.
  A limit of 3 lets the window fill, slide and overflow; two keys are needed for
  a change of key and the way back. `MaxNumber` 4 exceeds the limit, so both
  branches of a summary occur; counters of suppressed events saturate there
  together, as no comparison distinguishes larger ones. `MaxStamps` cuts the
  list of time stamps where the limit is 0 or enormous and the list grows without
  end.
- `remote_write`: two requests, since a race on one word needs one writer and
  one reader; two endpoints, one ordinary (whose client or URL may be bad) and
  Thanos; two request paths that differ in the slash. With `remote_write_live`
  there is one path: the shared URL plays no part in liveness.
- `fanout`: three endpoints allow all, some and none to accept, with one of
  them unusable. The proofs cover every N.
- `rbac`: two roles and two bindings over two role names (and one that does not
  exist), two resources and tenants, three permissions of which one is unknown
  to the code, a user and a group of one name, and an unknown kind of subject.
  The proofs cover every file.
- `tenants`: every file of up to two tenants with every combination of methods
  and CAs, and all files of three usable tenants; two names, so that names
  collide; each provider in each of its states. With a file of one usable tenant
  the flags vary: all combinations of upstreams, all of TLS, all of the
  Alertmanager client, the rest one at a time, as the code treats them one at a
  time.
- `gateway`: three tenants (OIDC with claims, mTLS, OIDC without claims), three
  people (one without claims, one without a subject), three sets of flags
  (everything with TLS; TLS and one logs endpoint; nothing extra and no TLS).
  Redirects are followed to their end; `MaxHops` is no cap but the claim, in the
  type invariant, that a login takes at most three and that no loop arises.
- `lifecycle`: one public request of any kind and one on the internal server, as
  requests do not influence each other; two endpoints, so that a write can be
  launched half; one signal, at any point. A second one changes nothing while
  the first is pending, and panics after that, which `second_signal` (two
  signals) shows.

Deadlock is checked for the log limiter, which must always be able to go on. The
other models end (all requests done, start finished or fatal, process gone), and
their cfg says so.

## 5. Fairness

Only what the code or the Go runtime guarantees:

- goroutines that can run do run (`Handler`, `Goroutine`, `Handle`, `Receive`);
- the log goroutine's select takes a timer that has fired unless a message comes
  first (`IdleTimeout`), and time passes (`Tick`);
- reading a request body ends: the server has a read timeout (`main.go:133`);
- the deadline of the Timeout middleware passes (`main.go:374`, `419`), and a
  call with that context returns after it (`DoFails` in Fanout, `Finish` in
  Gateway);
- the actors of the run group and main take their steps, and the grace period
  passes (`main.go:512`);
- contacting an OIDC provider ends: its client has a timeout of five seconds
  (`oidc.go:95`).

No upstream, endpoint, browser or client is assumed to answer or to send
anything, no request to end, and nothing to fail. The logs group has no timeout,
so `Answered` excludes it. `StopEnds` holds up to a request on the internal
server that never ends, as nothing limits its shutdown.

## 6. What is proved

Nothing is assumed beyond the ASSUMEs on the constants: types; for `LogChannel`
what the parsers return with an error; for `RemoteWrite` that the paths which
reach the handler differ in trailing slashes only (`RouteAssumption`: the one
route is `/api/v1/receive`, the tenant's prefix is stripped before it, and
StripSlashes routes both forms); for `Tenants` that a configuration pointer of a
tenant is nil or points to one configuration; for `Gateway` that somebody exists
to ask, and that no tenant of the file has the name that stands for unknown ones.

**LogChannelProofs**, for every limit, interval, set of keys and environment:
`TypeCorrect`, `PanicFree`, `LimiterLimits`, `SummariesExact`, `RunsAreLimited`.
The inductive invariant `Inv` adds to the properties:

- `ReducedShape`: in reduced mode there is a start time, no time stamp and a
  positive limit. The code never writes this down, and the dereference of the
  start time relies on it.
- `UnlimitedShape`: for a limit below 1 and a key, the list is not empty. This
  is why a limit of 0 does not index an empty slice.
- `StampsFollowBurst`: the time stamps are the last lines written, so that the
  test on the oldest stamp bounds `burst`. `RateLimited` is not inductive
  without it.

`SummariesExact` says of a summary that its number is that of the events since
the last line of the log that have no line of their own, and that its seconds
reach back to all of them and to no time before that line. A change of key or a
reset leaves an old number and start time behind, and a reset leaves events
without a line. The invariant `Tally` says why none of this gets into a summary:
as long as a time stamp is kept, no event since its line is without one
(`NothingSilent`), and reduced mode, where the number is theirs
(`SilentCounted`), is only entered with a time stamp.

`RunsAreLimited` (in any time shorter than the interval a run writes at most
`logMaxCount + 1` lines) says more than `LimiterLimits`: it counts summaries, and
lines from before the limiter left reduced mode. It has an invariant of its own
on top of `Inv`, `Paced`: the lines are in order (`OldestFirst`); none is younger
than the idle time (`SinceQuiet`) or, in reduced mode, than its start
(`SinceStart`, which also gives the other end of a summary's seconds); the time stamps are the end of the window (`StampsEndWindow`);
and the lines without a time stamp, save for one summary, are older than an
interval (`OthersOld`), since within a run reduced mode is left only after that
time.

**FanoutProofs**, for any number of endpoints: `TypeCorrect`, `OkIsHonest`,
`FailureIsHonest`, `HandlerOutlives`, `Refinement`. The invariant relates the
WaitGroup to the number of goroutines that run (plus one between Add and the go
statement), the counter to the number of goroutines past the increment, and each
goroutine's place to what its endpoint did. The two equations with
cardinalities are what makes `successCnt = N` imply that every endpoint
accepted. `Refinement` shows that initial states map to initial states of
Broadcast and each step to a step or a stutter: a goroutine in flight has no
answer behind it (`RunningUnanswered`), and a failure is told with a
confirmation missing (`FailureUnconfirmed`).

**RBACProofs**, for every file: `RBACTypeCorrect` and `AuthorizerIsExact`. The
invariant says, at each point of the two loops, that the index holds the last
role of each name read so far (`RolesIndexed`), that no binding is read before
all roles are (`BindsLast`), and that the maps hold exactly the grants of the
bindings read so far (`GrantsExact`). At the end
of the loops this is `AuthorizeExact`.

**TenantsProofs and SetupProofs**, for every tenants file, RBAC file, set of
flags and state of the providers: `SetupTypeCorrect`, `ServedCAsParsed`,
`ServedByOwnConfiguration`, `FailuresContained`, `CollectorsRegisterOnce`,
`FlagsAreServed`. `StartInv` says what each loop has done up to its index:

- `CAsParsed`: the first loop has parsed the CA of every tenant so far that has
  no OIDC. The second loop decides by another condition; that the tenants it
  hands to mTLS are among these is `ServedCAsParsed`.
- `TenantsAdded`: each tenant so far is on the list of its method and of no
  other, and each name has the ID of its last tenant. The mTLS tenants of a name
  have a last one (`HaveLast`): an induction over the list that the invariant
  carries, so that the merge is well defined.
- `ProvidersTried`: the names with an OIDC middleware are those with a provider
  that is up, and the middleware is that of such a tenant.
- `Merged`: the map that the merge makes of these.

`SetupInv` adds that the stages of `main` and the phases of the tenants go
together (`InPhase`), what the flags were parsed to (`Configured`), which routes
there are at each stage (`Routed`), and the names that may have been registered
by then (`OnceEach`): each handler's collectors are shown to be new and
different from each other for every configuration.

**GatewayProofs**, for every configuration that a start may end in and every
request: `GatewayTypeCorrect`, `NothingUnauthorized`, `HeaderNamesTenant`,
`LegitimateAreServed`, `LoginsLand`, `ServerErrorsAreReported`,
`CountersTellAnswers`. `GatewayInv` keeps `SetupInv`, which is constant once
requests are served, and follows a request:

- `Identified`: behind the authentication the context is that of a credential
  which the tenant's method accepts; behind `WithTenantHeader` the header is
  labelled; the legacy group has been authorized before it is routed. With
  `AuthorizerIsExact` at the one place where `Authorize` is called, and with
  `ServedEntry` (which tenant the middleware of a name belongs to), this gives
  `UpstreamAuthorized`.
- `Refusals`: a 401 means that nobody is known by what the request brings, a 403
  that the file does not grant somebody who is. `LegitimateServed` follows, as
  for a tenant with a name of its own the two exclude a usable credential with a
  grant.
- `Answer`: status, panic, counter and log on the way out; it contains the two
  properties about them.
- `Redirected`, `LoginWay`, `Lands`: where a redirect leads and that a login
  stays with its tenant from hop to hop. `Asked` bounds the redirects that may
  follow by a rank, so that a browser never follows more than `MaxHops`.

**RemoteWriteProofs**, for any requests and any number of endpoints:
`TypeCorrect`, `UrlCorrect`, `CountersAccurate`, `Refinement`. The invariant
`Inv` has these parts:

- `Flow`: the goroutines of exactly the endpoints before the loop variable have
  been started, and the status is sent last. `Refinement` needs it: 200 is sent
  with the loop variable past the end, so every copy is on its way.
- `Queued`: each message in a log channel belongs to a sender that waits there,
  and is there once. So a receiver never wakes a handler or goroutine that is
  somewhere else.
- `SharedURL`: a word that a handler has stored is still the word it stored, or
  has been stored again by a handler with the same string; a word it has loaded
  is that word. `UrlIntact` alone is not inductive, since it says nothing about
  the words in between.
- `Counted`: the counters of an endpoint add up to the number of forwards whose
  outcome is known, a finite set.

**LifecycleProofs**, for any requests, endpoints and number of signals:
`TypeCorrect`, `ExitCodeTells`, `ExitsInOrder`. The invariant says that each
actor that has returned has left exactly one error, in the channel or received
(`OneErrorEach`; so the channel never overflows and main waits for the right
number); that errors sent before anybody was told to stop have a cause of their
own (`Causes`); how far the interruption has come and which servers are closing
(`InOrder`); that a server past its drain owes nothing, unless the grace period
ended (`Settled`); and that a write whose handler returned was refused or has
all its copies under way (`WritesWhole`).

Together, every safety property that a run expects to hold is a theorem, and so
are the safety parts of the refinements of Relay and Broadcast.

**Only model-checked**: the liveness properties (`ErrorsStayVisible`,
`QuietRecovers`, `CallerAnswered`, `ChannelsDrain`, `EventuallyAnswered`,
`StartEnds`, `Answered`, `StopEnds`), since the provers can handle neither
ENABLED nor leads-to under fairness.

## 7. Findings

1. `internal/remotewrite/proxy.go:105`. When the HTTP client of an endpoint
   cannot be created, the handler reports it and goes on with a nil client; the
   forwarding goroutine panics, nothing recovers it, and the process ends. Run
   `client_failure`.
2. `internal/remotewrite/proxy.go:93`. `req.Header = r.Header` comes before the
   test of the error of `http.NewRequest`. With a URL that does not parse the
   handler panics, and the branch that reports the failure is never reached. Run
   `request_failure`.
3. `main.go:294`. The channel of the signal handler is closed when the group is
   interrupted, and is never unregistered (`signal.Stop`). A signal that arrives
   while the servers drain, be it a second one or the first after an actor
   failed, is sent on the closed channel: the process panics, and the requests
   in progress lose their grace period. Run `second_signal`.
4. `internal/api/alertmanager/http.go:88`. The CA file and the server name for
   Alertmanager take effect only together, while the help of the two flags
   (`main.go:626`, `628`) describes each on its own. Run `alertmanager_tls`.

## 8. Observations

What the models show of the code that no doc or test contradicts:

- `LOG_MAX_COUNT` and `LOG_INTERVAL` take effect only if they do not parse
  (`logchannel.go:52`, `58`).
- The events that are suppressed when reduced mode ends by a success, by the idle
  timer or by a different error are never reported: the next line starts from
  zero (`logchannel.go:42`, `94`).
- A remote write is answered 200 before anything has been delivered; what
  endpoints answer only reaches metrics and the log. A body that could not be
  read completely is forwarded as far as it was read (`proxy.go:49`).
- The unlocked store to the shared endpoint is a data race that does no harm:
  `path.Join` removes the only difference between the paths that reach the
  handler, so all handlers store the same string (`UrlIntact`; its mutant drops
  the cleaning). The first store is different from the initial value, but a
  handler reads only after its own store.
- A fan-out whose deadline passes answers 502, not 504, because the handler
  writes its status first; endpoints may accept afterwards.
- A tenant with both methods gets OIDC only. Two tenants of one name share the
  last one's ID, while the authentication is that of the last with mTLS, if any.
- A tenant whose provider fails at the start is left out until the next start.
- A failed mTLS verification is always answered 500: the comparison in
  `mtls.go:43` never matches. An mTLS tenant behind a server without TLS
  panics, and is answered 500.
- `WithTenantHeader` adds a value behind those the client sent.
- The legacy `/graph` redirects to a path without the tenant
  (`internal/api/metrics/legacy/http.go:108`).
- Handlers that write nothing are counted and logged as such: the counter says
  200 for a remote write that Timeout answers with 504, and the request log has
  status 0 for an implicit 200. A request whose handler panics is neither
  counted nor in the request log.
- An upstream's answer that breaks off in its body ends in a panic of the reverse
  proxy. chi's Recoverer (v4.0.2) does not tell `http.ErrAbortHandler` from other
  panics: it logs the panic and returns, so that the response, already under way
  with the upstream's status, is neither counted nor in the request log.
- At shutdown nobody waits for tails that were taken over, for forwards of
  acknowledged writes, or for a connection that was just accepted.
- A certificate that cannot be reloaded ends the process (`main.go:487`).
- A signal before the signal handler has called `Notify` kills the process, also
  while `main` still sets up.
- A cert file without a key file, or the reverse, ends the start; both empty
  turn TLS off (`internal/tls/config.go:14`). The default of `tls.min-version`
  is `VersionTLS12`, while `README.md` shows `VersionTLS13`.
- `go.mod` asks for a Go version with loop variables per iteration, so the
  closures of `NewMTLS` and of the fan-out see their own tenant or endpoint.

## 9. Not modelled, and the plan

Left out for good: wording of log lines, sizes and durations, YAML and flag
syntax, signatures and certificate chains, transports, the rewriting of paths by
the directors (string work on one request), the library handlers of the internal
server, and the generated, test and deployment files.

Left for later: `RemoteWrite` composed with `LogChannel` (the receiver with its
counter).
