------------------------------- MODULE Setup --------------------------------
(***************************************************************************)
(* The start of the gateway, main.go up to g.Run: the flags become a       *)
(* configuration, the two files are read and the tenants added (Tenants),  *)
(* the handlers of internal/api are built from the configuration, and TLS  *)
(* is set up.  Any step may end the process, with a message or a panic.    *)
(*                                                                         *)
(* A URL is known by the upstream it points to, a metric by the values of  *)
(* its constant labels where its name is not its own.                      *)
(***************************************************************************)
EXTENDS Tenants, Functions

CONSTANT FlagSets(_)    \* the flags the gateway may be started with, by tenants file

URL == {"", "bad", "good"}
Flags ==
    [read : URL, write : URL, logsRead : URL, logsTail : URL, logsWrite : URL,
     additional : {"", "unreadable", "invalid", "empty", "some"},   \* the file's content
     alertmanagers : Seq(URL), upstreamCA : {"", "missing", "bad", "good"}, upstreamName : STRING,
     logLevel : {"known", "unknown"},
     healthchecksCA : {"", "missing", "good"}, healthcheck : BOOLEAN,
     certFile : {"", "bad", "good"}, keyFile : {"", "bad", "good"},
     minVersion : {"known", "unknown"}, ciphers : {"", "known", "unknown"}]

ASSUME FlagAssumption == \A list \in TenantLists : FlagSets(list) \subseteq Flags

VARIABLES
    stage,      \* how far main has come
    flags,
    config,     \* what parseFlags makes of them
    registered, \* the collectors of the registry, in order
    routes,     \* of all handlers
    client,     \* the TLS configuration of the client for Alertmanager
    tlsConfig   \* the server has one

handlerVars == <<registered, routes, client>>
wiringVars == <<flags, config, handlerVars, tlsConfig>>
setupVars == <<startVars, stage, wiringVars>>

NoConfig == [remote |-> FALSE, alertmanagers |-> 0, logsEnabled |-> FALSE,
             logs |-> [read |-> "nil", tail |-> "nil", write |-> "nil"]]
NoClient == [roots |-> "system", name |-> ""]
Ended == {"ready", "fatal", "panicked"}
HandlerStages == {"legacy", "metrics", "alertmanager", "logs"}
Collectors ==
    {"build_info", "go", "process", "healthcheck_http",
     "requests", "request_size", "request_duration", "response_size", "metricslegacy-read",
     "metricsv1-read", "metricsv1-ui", "metricsv1-write", "metricsv1-remotewrite",
     "fanout_requests", "fanout_calls", "logsv1-read", "logsv1-tail", "logsv1-write"}

\* The types of main's state while it starts.
SetupTypeOK ==
    /\ StartTypeOK /\ flags \in Flags
    /\ stage \in {"flags", "files", "logger", "healthchecks", "instrumentation", "tenants", "tls", "reloader"}
                 \cup HandlerStages \cup Ended
    /\ config.remote \in BOOLEAN /\ config.alertmanagers \in Nat /\ config.logsEnabled \in BOOLEAN
    /\ registered \in Seq(Collectors) /\ tlsConfig \in BOOLEAN
    /\ client \in [roots : {"system", "file"}, name : {"", flags.upstreamName}]

SetupInit ==
    /\ StartInit
    /\ stage = "flags" /\ flags \in FlagSets(tenants) /\ config = NoConfig
    /\ registered = <<>> /\ routes = {} /\ client = NoClient /\ tlsConfig = FALSE

Proceed(to) == stage' = to /\ UNCHANGED <<startVars, flags>>
Die == Proceed("fatal") /\ UNCHANGED <<config, handlerVars, tlsConfig>>

-----------------------------------------------------------------------------
(* parseFlags, the files, and what is built before the tenants are added   *)

\* The first of these ends the parsing; which one is only a matter of words.
Invalid ==
    \/ flags.read # "good" \/ flags.write # "good"
    \/ flags.additional \in {"unreadable", "invalid"}
    \/ "bad" \in {flags.logsRead, flags.logsTail, flags.logsWrite}
    \/ \E i \in DOMAIN flags.alertmanagers : flags.alertmanagers[i] # "good"

Parsed(raw, upstream) == IF raw = "" THEN "nil" ELSE upstream

ParseFlags ==
    /\ stage = "flags"
    /\ \/ Invalid /\ Die
       \/ /\ ~Invalid
          /\ config' =
               [remote |-> flags.additional = "some", alertmanagers |-> Len(flags.alertmanagers),
                logsEnabled |-> {flags.logsRead, flags.logsTail, flags.logsWrite} # {""},
                logs |-> [read |-> Parsed(flags.logsRead, "logs_read"),
                          tail |-> Parsed(flags.logsTail, "logs_tail"),
                          write |-> Parsed(flags.logsWrite, "logs_write")]]
          /\ Proceed("files")
          /\ UNCHANGED <<handlerVars, tlsConfig>>

\* The tenants file with its CAs, then the RBAC file.
LoadFiles ==
    /\ stage = "files" /\ phase \in {"tenants", "rbac"} /\ Startup
    /\ stage' = CASE phase' = "fatal" -> "fatal" [] phase' = "adding" -> "logger" [] OTHER -> "files"
    /\ UNCHANGED wiringVars

\* MustRegister panics on a collector that the registry has.
Register(collectors, then) ==
    /\ registered' = registered \o collectors
    /\ Proceed(IF IsInjective(registered') THEN then ELSE "panicked")

\* An unknown log level panics.  The registry is new.
NewLogger ==
    /\ stage = "logger"
    /\ \/ /\ flags.logLevel = "unknown"
          /\ Proceed("panicked") /\ UNCHANGED registered
       \/ /\ flags.logLevel = "known"
          /\ Register(<<"build_info", "go", "process">>, "healthchecks")
    /\ UNCHANGED <<config, routes, client, tlsConfig>>

\* The check of the public server.
NewHealthchecks ==
    /\ stage = "healthchecks"
    /\ \/ flags.healthcheck /\ flags.healthchecksCA = "missing" /\ Die
       \/ /\ flags.healthcheck => flags.healthchecksCA # "missing"
          /\ Register(IF flags.healthcheck THEN <<"healthcheck_http">> ELSE <<>>, "instrumentation")
          /\ UNCHANGED <<config, routes, client, tlsConfig>>

NewInstrumentationMiddleware ==
    /\ stage = "instrumentation"
    /\ Register(<<"requests", "request_size", "request_duration", "response_size">>, "tenants")
    /\ UNCHANGED <<config, routes, client, tlsConfig>>

AddTenants ==
    /\ stage = "tenants" /\ Startup
    /\ stage' = CASE phase' = "fatal" -> "fatal" [] phase' = "serving" -> "legacy" [] OTHER -> "tenants"
    /\ UNCHANGED wiringVars

-----------------------------------------------------------------------------
(* The handlers: each has routes of its mount, and registers collectors    *)

Paths(mount) ==
    CASE mount = "root" -> {""}
      [] mount = "oidc" -> {"login", "callback", "other"}
      [] mount = "legacy" -> {"query", "graph", "other"}
      [] mount = "metrics" -> {"query", "graph", "receive", "other"}
      [] mount = "alertmanager" -> {"alerts", "other"}
      [] mount = "logs" -> {"query", "tail", "push", "other"}

To(mount, path, method, permission, upstream) ==
    [mount |-> mount, path |-> path, method |-> method, permission |-> permission, to |-> upstream]

Handler(at, paths, collectors, then) ==
    /\ stage = at
    /\ routes' = routes \cup paths
    /\ Register(collectors, then)
    /\ UNCHANGED <<config, tlsConfig>>

NewLegacyHandler ==
    /\ Handler("legacy",
               {To("legacy", "query", "any", "read", "read"), To("legacy", "graph", "any", "read", "none")},
               <<"metricslegacy-read">>, "metrics")
    /\ UNCHANGED client

MutNewMetricsHandler ==
    /\ Handler("metrics",
               {To("metrics", "query", "any", "read", "read"),
                To("metrics", "receive", "any", "write",
                   IF config.remote THEN "remote_write" ELSE "write")}
               \cup {To("metrics", p, "any", "read", "ui") : p \in Paths("metrics") \ {"query", "receive"}},
               <<"metricsv1-read", "metricsv1-ui">>
               \o (IF config.remote THEN <<"metricsv1-write", "metricsv1-remotewrite">> ELSE <<>>)
               \o <<"metricsv1-write">>,
               IF config.alertmanagers > 0 THEN "alertmanager" ELSE "logs")
    /\ UNCHANGED client

MutNewMetricsHandlerRead ==
    /\ Handler("metrics",
               {To("metrics", "query", "any", "read", "read"),
                To("metrics", "receive", "any", "read",
                   IF config.remote THEN "remote_write" ELSE "write")}
               \cup {To("metrics", p, "any", "read", "ui") : p \in Paths("metrics") \ {"query", "receive"}},
               <<"metricsv1-read", "metricsv1-ui">>
               \o IF config.remote THEN <<"metricsv1-write", "metricsv1-remotewrite">>
                  ELSE <<"metricsv1-write">>,
               IF config.alertmanagers > 0 THEN "alertmanager" ELSE "logs")
    /\ UNCHANGED client

\* Whatever is not matched goes to the UI of the read endpoint.  With
\* additional endpoints the remote-write proxy takes over, with a counter of
\* the name and labels that the reverse proxy would register, and the handler
\* is complete.
NewMetricsHandler ==
    /\ Handler("metrics",
               {To("metrics", "query", "any", "read", "read"),
                To("metrics", "receive", "any", "write",
                   IF config.remote THEN "remote_write" ELSE "write")}
               \cup {To("metrics", p, "any", "read", "ui") : p \in Paths("metrics") \ {"query", "receive"}},
               <<"metricsv1-read", "metricsv1-ui">>
               \o IF config.remote THEN <<"metricsv1-write", "metricsv1-remotewrite">>
                  ELSE <<"metricsv1-write">>,
               IF config.alertmanagers > 0 THEN "alertmanager" ELSE "logs")
    /\ UNCHANGED client

\* newHTTPClient: a CA file that cannot be used counts as none, and a CA or a
\* name alone has no effect.
NewAlertmanagerHandler ==
    /\ Handler("alertmanager", {To("alertmanager", "alerts", "POST", "write", "fanout")},
               <<"fanout_requests", "fanout_calls">>, "logs")
    /\ client' = IF flags.upstreamCA = "good" /\ flags.upstreamName # ""
                 THEN [roots |-> "file", name |-> flags.upstreamName]
                 ELSE NoClient

\* The handler takes its endpoints by position.
LogsRoutes(read, tail, write) ==
    {r \in {To("logs", "query", "any", "read", read), To("logs", "tail", "any", "read", tail),
            To("logs", "push", "any", "write", write)} : r.to # "nil"}

LogsCollectors(read, tail, write) ==
    (IF read = "nil" THEN <<>> ELSE <<"logsv1-read">>) \o (IF tail = "nil" THEN <<>> ELSE <<"logsv1-tail">>)
    \o (IF write = "nil" THEN <<>> ELSE <<"logsv1-write">>)

MutNewLogsHandler ==
    /\ stage = "logs"
    /\ \/ /\ config.logsEnabled
          /\ LET logs == config.logs IN
               Handler("logs", LogsRoutes(logs.read, logs.write, logs.tail),
                       LogsCollectors(logs.read, logs.write, logs.tail), "tls")
       \/ ~config.logsEnabled /\ Handler("logs", {}, <<>>, "tls")
    /\ UNCHANGED client

NewLogsHandler ==
    /\ stage = "logs"
    /\ \/ /\ config.logsEnabled
          /\ LET logs == config.logs IN
               Handler("logs", LogsRoutes(logs.read, logs.tail, logs.write),
                       LogsCollectors(logs.read, logs.tail, logs.write), "tls")
       \/ ~config.logsEnabled /\ Handler("logs", {}, <<>>, "tls")
    /\ UNCHANGED client

-----------------------------------------------------------------------------
(* NewServerConfig and the certificate reloader                            *)

TLSOff == flags.certFile = "" /\ flags.keyFile = ""
TLSUnusable ==
    \/ flags.certFile # "good" \/ flags.keyFile # "good"
    \/ flags.minVersion = "unknown" \/ flags.ciphers = "unknown"

NewServerConfig ==
    /\ stage = "tls"
    /\ \/ TLSOff /\ Proceed("ready") /\ UNCHANGED <<config, handlerVars, tlsConfig>>
       \/ ~TLSOff /\ TLSUnusable /\ Die
       \/ /\ ~TLSOff /\ ~TLSUnusable
          /\ tlsConfig' = TRUE
          /\ Proceed("reloader")
          /\ UNCHANGED <<config, handlerVars>>

\* It reads the files again, which may have changed.
NewCertReloader ==
    /\ stage = "reloader"
    /\ \/ Die
       \/ Proceed("ready") /\ UNCHANGED <<config, handlerVars, tlsConfig>>

SetupNext ==
    \/ ParseFlags \/ LoadFiles \/ NewLogger \/ NewHealthchecks \/ NewInstrumentationMiddleware
    \/ AddTenants
    \/ NewLegacyHandler \/ NewMetricsHandler \/ NewAlertmanagerHandler \/ NewLogsHandler
    \/ NewServerConfig \/ NewCertReloader

SetupSpec == SetupInit /\ [][SetupNext]_setupVars /\ WF_setupVars(SetupNext)

-----------------------------------------------------------------------------
(* Properties                                                              *)

\* The start ends, in a gateway that serves, with a fatal error or a panic: a
\* provider that never answers does not hold it up.
StartEnds == <>(stage \in Ended)

\* No combination of flags registers a collector twice, which would panic:
\* the remote-write proxy has the labels of the reverse proxy it replaces
\* (remotewrite/proxy.go:31 and metrics/v1/http.go:165-170).
RegistersOnce == stage = "panicked" => flags.logLevel = "unknown"

\* What each flag names is served where it belongs and nothing else is: writes
\* go to the proxy that knows the additional endpoints if there are any, each
\* path of the logs API to its own endpoint (main.go:446-449), and alerts to
\* Alertmanager if there is one.
FlagsServed ==
    LET at(mount, path) == {r.to : r \in {q \in routes : q.mount = mount /\ q.path = path}}
        if(given, upstream) == IF given THEN {upstream} ELSE {}
    IN stage = "ready" =>
        /\ at("metrics", "query") = {"read"} /\ at("legacy", "query") = {"read"}
        /\ at("metrics", "receive") = {IF flags.additional = "some" THEN "remote_write" ELSE "write"}
        /\ at("logs", "query") = if(flags.logsRead # "", "logs_read")
        /\ at("logs", "tail") = if(flags.logsTail # "", "logs_tail")
        /\ at("logs", "push") = if(flags.logsWrite # "", "logs_write")
        /\ at("alertmanager", "alerts") = if(flags.alertmanagers # <<>>, "fanout")

\* The flags of the Alertmanager client do what their help says, each for
\* itself (main.go:625-628): the CAs of a file that can be used are trusted,
\* and a name that is given is the one that is verified.
AlertmanagerTLS ==
    (stage = "ready" /\ flags.alertmanagers # <<>>) =>
        /\ flags.upstreamCA = "good" => client.roots = "file"
        /\ client.name = flags.upstreamName
=============================================================================
