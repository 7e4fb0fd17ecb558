---------------------------- MODULE SetupProofs -----------------------------
(***************************************************************************)
(* Proofs about Setup, for every combination of flags and files: what has  *)
(* been read, registered and routed at each stage of main, and so what the *)
(* gateway that comes out of it is.                                        *)
(***************************************************************************)
EXTENDS Setup, TenantsProofs

-----------------------------------------------------------------------------
(* The inductive invariant                                                 *)

BeforeHandlers == {"flags", "files", "logger", "healthchecks", "instrumentation", "tenants"}
AfterHandlers == {"tls", "reloader", "ready"}
Stages == BeforeHandlers \cup HandlerStages \cup AfterHandlers \cup {"fatal", "panicked"}

\* The stages of main and the phases of the tenants go together.
InPhase ==
    /\ stage \in Stages
    /\ stage = "flags" => phase = "tenants"
    /\ stage = "files" => phase \in {"tenants", "rbac"}
    /\ stage \in {"logger", "healthchecks", "instrumentation"} => phase = "adding"
    /\ stage = "tenants" => phase \in {"adding", "providers", "mtls"}
    /\ stage \in HandlerStages \cup AfterHandlers => phase = "serving"

\* The configuration that parseFlags returns.
ParsedConfig ==
    [remote |-> flags.additional = "some", alertmanagers |-> Len(flags.alertmanagers),
     logsEnabled |-> {flags.logsRead, flags.logsTail, flags.logsWrite} # {""},
     logs |-> [read |-> Parsed(flags.logsRead, "logs_read"),
               tail |-> Parsed(flags.logsTail, "logs_tail"),
               write |-> Parsed(flags.logsWrite, "logs_write")]]
Configured ==
    /\ flags \in Flags /\ config \in {NoConfig, ParsedConfig}
    /\ stage \notin {"flags", "fatal"} => config = ParsedConfig

\* The collectors of each stage have names of their own.
Runtime == {"build_info", "go", "process"}
Requests == {"requests", "request_size", "request_duration", "response_size"}
Writers == {"metricsv1-read", "metricsv1-ui", "metricsv1-write", "metricsv1-remotewrite"}
Fanouts == {"fanout_requests", "fanout_calls"}
NamesAt(s) ==
    CASE s \in {"flags", "files", "logger"} -> {}
      [] s = "healthchecks" -> Runtime
      [] s = "instrumentation" -> Runtime \cup {"healthcheck_http"}
      [] s \in {"tenants", "legacy"} -> Runtime \cup {"healthcheck_http"} \cup Requests
      [] s = "metrics" -> Runtime \cup {"healthcheck_http"} \cup Requests \cup {"metricslegacy-read"}
      [] s = "alertmanager" -> Runtime \cup {"healthcheck_http"} \cup Requests
                               \cup {"metricslegacy-read"} \cup Writers
      [] s = "logs" -> Runtime \cup {"healthcheck_http"} \cup Requests \cup {"metricslegacy-read"}
                       \cup Writers \cup Fanouts
      [] OTHER -> Collectors
OnceEach ==
    /\ registered \in Seq(Collectors) /\ IsInjective(registered) /\ Range(registered) \subseteq NamesAt(stage)
    /\ RegistersOnce

LegacyRoutes ==
    {To("legacy", "query", "any", "read", "read"), To("legacy", "graph", "any", "read", "none")}
MetricsRoutes ==
    {To("metrics", "query", "any", "read", "read"),
     To("metrics", "receive", "any", "write", IF config.remote THEN "remote_write" ELSE "write")}
    \cup {To("metrics", p, "any", "read", "ui") : p \in Paths("metrics") \ {"query", "receive"}}
AlertRoutes ==
    IF config.alertmanagers > 0 THEN {To("alertmanager", "alerts", "POST", "write", "fanout")} ELSE {}
LogRoutes ==
    IF config.logsEnabled THEN LogsRoutes(config.logs.read, config.logs.tail, config.logs.write) ELSE {}
Routed ==
    /\ stage \in BeforeHandlers \cup {"legacy"} => routes = {}
    /\ stage = "metrics" => routes = LegacyRoutes
    /\ stage = "alertmanager" => config.alertmanagers > 0 /\ routes = LegacyRoutes \cup MetricsRoutes
    /\ stage = "logs" => routes = LegacyRoutes \cup MetricsRoutes \cup AlertRoutes
    /\ stage \in AfterHandlers =>
         routes = LegacyRoutes \cup MetricsRoutes \cup AlertRoutes \cup LogRoutes

ClientTyped == client \in [roots : {"system", "file"}, name : {"", flags.upstreamName}]
WiringTypes == tlsConfig \in BOOLEAN /\ ClientTyped

SetupInv == StartInv /\ InPhase /\ Configured /\ OnceEach /\ Routed /\ WiringTypes

-----------------------------------------------------------------------------
(* Collectors                                                              *)

\* Two sequences without repetitions and with nothing in common make one.
LEMMA ConcatOnce ==
    ASSUME NEW S, NEW s \in Seq(S), NEW t \in Seq(S), IsInjective(s), IsInjective(t),
           Range(s) \cap Range(t) = {}
    PROVE  s \o t \in Seq(S) /\ IsInjective(s \o t) /\ Range(s \o t) = Range(s) \cup Range(t)
<1> DEFINE u == s \o t
<1>1. /\ u \in Seq(S) /\ DOMAIN u = 1 .. (Len(s) + Len(t)) /\ Len(s) \in Nat /\ Len(t) \in Nat
      /\ DOMAIN s = 1 .. Len(s) /\ DOMAIN t = 1 .. Len(t)
      /\ \A i \in 1 .. (Len(s) + Len(t)) : u[i] = IF i <= Len(s) THEN s[i] ELSE t[i - Len(s)]
  <2>1. /\ u \in Seq(S) /\ Len(u) = Len(s) + Len(t)
        /\ \A i \in 1 .. Len(s) + Len(t) : u[i] = IF i <= Len(s) THEN s[i] ELSE t[i - Len(s)]
    BY ConcatProperties
  <2> QED
    BY <2>1, LenProperties
<1> HIDE DEF u
<1>2. \A i \in DOMAIN u : \/ i \in DOMAIN s /\ u[i] = s[i]
                          \/ i - Len(s) \in DOMAIN t /\ u[i] = t[i - Len(s)] /\ ~(i <= Len(s))
  BY <1>1
<1>3. \A i \in DOMAIN s : i \in DOMAIN u /\ u[i] = s[i]
  BY <1>1
<1>4. \A i \in DOMAIN t : i + Len(s) \in DOMAIN u /\ u[i + Len(s)] = t[i]
  <2> TAKE i \in DOMAIN t
  <2>1. i + Len(s) \in DOMAIN u /\ ~(i + Len(s) <= Len(s)) /\ (i + Len(s)) - Len(s) = i
    BY <1>1
  <2> QED
    BY <1>1, <2>1
<1>5. Range(u) \subseteq Range(s) \cup Range(t)
  BY <1>2 DEF Range
<1>6. Range(s) \cup Range(t) \subseteq Range(u)
  BY <1>3, <1>4 DEF Range
<1>7. ASSUME NEW i \in DOMAIN u, NEW j \in DOMAIN u, u[i] = u[j]
      PROVE  i = j
  <2>1. CASE i \in DOMAIN s /\ u[i] = s[i] /\ j \in DOMAIN s /\ u[j] = s[j]
    BY <1>7, <2>1 DEF IsInjective
  <2>2. CASE /\ i - Len(s) \in DOMAIN t /\ u[i] = t[i - Len(s)]
             /\ j - Len(s) \in DOMAIN t /\ u[j] = t[j - Len(s)]
    <3>1. i - Len(s) = j - Len(s)
      BY <1>7, <2>2 DEF IsInjective
    <3> QED
      BY <1>1, <3>1
  <2>3. ~(/\ \/ i \in DOMAIN s /\ u[i] = s[i] /\ j - Len(s) \in DOMAIN t /\ u[j] = t[j - Len(s)]
             \/ j \in DOMAIN s /\ u[j] = s[j] /\ i - Len(s) \in DOMAIN t /\ u[i] = t[i - Len(s)])
    BY <1>7 DEF Range
  <2> QED
    BY <1>2, <2>1, <2>2, <2>3
<1>8. IsInjective(u)
  BY <1>7 DEF IsInjective
<1> QED
  BY <1>1, <1>5, <1>6, <1>8 DEF u

\* Sequences of up to three names.
LEMMA NoCollector == <<>> \in Seq(Collectors) /\ IsInjective(<<>>) /\ Range(<<>>) = {}
<1>1. <<>> \in Seq(Collectors) /\ DOMAIN <<>> = {}
  OBVIOUS
<1> QED
  BY <1>1 DEF IsInjective, Range

LEMMA OneCollector ==
    ASSUME NEW a \in Collectors
    PROVE  <<a>> \in Seq(Collectors) /\ IsInjective(<<a>>) /\ Range(<<a>>) = {a}
<1> DEFINE s == <<a>>
<1>1. s \in Seq(Collectors) /\ Len(s) = 1 /\ s[1] = a
  OBVIOUS
<1> HIDE DEF s
<1>2. DOMAIN s = {1}
  BY <1>1, LenProperties
<1>3. IsInjective(s) /\ Range(s) = {a}
  BY <1>1, <1>2 DEF IsInjective, Range
<1> QED
  BY <1>1, <1>3 DEF s

LEMMA TwoCollectors ==
    ASSUME NEW a \in Collectors, NEW b \in Collectors,
           a # b
    PROVE  <<a, b>> \in Seq(Collectors) /\ IsInjective(<<a, b>>) /\ Range(<<a, b>>) = {a, b}
<1> DEFINE s == <<a, b>>
<1>1. s \in Seq(Collectors) /\ Len(s) = 2 /\ s[1] = a /\ s[2] = b
  OBVIOUS
<1> HIDE DEF s
<1>2. DOMAIN s = {1, 2}
  BY <1>1, LenProperties
<1>3. IsInjective(s) /\ Range(s) = {a, b}
  BY <1>1, <1>2 DEF IsInjective, Range
<1> QED
  BY <1>1, <1>3 DEF s

LEMMA ThreeCollectors ==
    ASSUME NEW a \in Collectors, NEW b \in Collectors,
           NEW c \in Collectors,
           a # b, a # c, b # c
    PROVE  <<a, b, c>> \in Seq(Collectors) /\ IsInjective(<<a, b, c>>) /\ Range(<<a, b, c>>) = {a, b, c}
<1> DEFINE s == <<a, b, c>>
<1>1. s \in Seq(Collectors) /\ Len(s) = 3 /\ s[1] = a /\ s[2] = b /\ s[3] = c
  OBVIOUS
<1> HIDE DEF s
<1>2. DOMAIN s = {1, 2, 3}
  BY <1>1, LenProperties
<1>3. IsInjective(s) /\ Range(s) = {a, b, c}
  BY <1>1, <1>2 DEF IsInjective, Range
<1> QED
  BY <1>1, <1>3 DEF s

\* New names do not make MustRegister panic.
LEMMA Registering ==
    ASSUME OnceEach, NEW new \in Seq(Collectors), IsInjective(new), NEW then, then # "panicked",
           NEW names, Range(registered) \subseteq names, Range(new) \cap names = {},
           names \cup Range(new) \subseteq NamesAt(then), Register(new, then)
    PROVE  OnceEach' /\ stage' = then /\ flags' = flags /\ UNCHANGED startVars
<1>1. registered' = registered \o new
  BY DEF Register
<1>2. /\ registered' \in Seq(Collectors) /\ IsInjective(registered')
      /\ Range(registered') = Range(registered) \cup Range(new)
  BY <1>1, ConcatOnce DEF OnceEach
<1>3. stage' = then /\ flags' = flags /\ UNCHANGED startVars
  BY <1>2 DEF Register, Proceed
<1>4. Range(registered') \subseteq NamesAt(stage')
  BY <1>2, <1>3
<1> QED
  BY <1>2, <1>3, <1>4 DEF OnceEach, RegistersOnce

-----------------------------------------------------------------------------
(* The steps                                                               *)

LEMMA SetupInvInit == SetupInit => SetupInv
<1> SUFFICES ASSUME SetupInit PROVE SetupInv
  OBVIOUS
<1>1. StartInv /\ phase = "tenants" /\ tenants \in TenantLists
  BY StartInvInit DEF SetupInit, StartInit
<1>2. /\ stage = "flags" /\ flags \in FlagSets(tenants) /\ config = NoConfig
      /\ registered = <<>> /\ routes = {} /\ client = NoClient /\ tlsConfig = FALSE
  BY DEF SetupInit
<1>3. InPhase
  BY <1>1, <1>2 DEF InPhase, Stages, BeforeHandlers, HandlerStages, AfterHandlers
<1>4. Configured
  BY <1>1, <1>2, FlagAssumption DEF Configured
<1>5. OnceEach
  BY <1>2, NoCollector DEF OnceEach, RegistersOnce
<1>6. Routed
  BY <1>2 DEF Routed, AfterHandlers
<1>7. WiringTypes
  BY <1>2 DEF WiringTypes, ClientTyped, NoClient
<1> QED
  BY <1>1, <1>3, <1>4, <1>5, <1>6, <1>7 DEF SetupInv

\* Once parseFlags has returned, its result stands.
LEMMA ConfigKept ==
    ASSUME Configured, UNCHANGED <<flags, config>>, stage \notin {"flags", "fatal"} \/ stage' = "fatal"
    PROVE  Configured' /\ ParsedConfig' = ParsedConfig
<1>1. ParsedConfig' = ParsedConfig
  BY DEF ParsedConfig
<1> QED
  BY <1>1 DEF Configured

LEMMA DieInv == ASSUME SetupInv, Die PROVE SetupInv'
<1>1. /\ stage' = "fatal" /\ UNCHANGED startVars /\ flags' = flags /\ config' = config
      /\ registered' = registered /\ routes' = routes /\ client' = client /\ tlsConfig' = tlsConfig
  BY DEF Die, Proceed, handlerVars
<1>2. StartInv'
  BY <1>1, StartInvFrame DEF SetupInv
<1>3. InPhase'
  BY <1>1 DEF InPhase, Stages, BeforeHandlers, HandlerStages, AfterHandlers
<1>4. Configured'
  BY <1>1, ConfigKept DEF SetupInv
<1>5. OnceEach'
  <2>1. NamesAt("fatal") = Collectors
    BY DEF NamesAt
  <2>2. Range(registered) \subseteq Collectors
    BY DEF SetupInv, OnceEach, Range
  <2> QED
    BY <1>1, <2>1, <2>2 DEF SetupInv, OnceEach, RegistersOnce
<1>6. Routed' /\ WiringTypes'
  BY <1>1 DEF SetupInv, Routed, WiringTypes, ClientTyped, BeforeHandlers, HandlerStages, AfterHandlers
<1> QED
  BY <1>2, <1>3, <1>4, <1>5, <1>6 DEF SetupInv

LEMMA ParseFlagsInv == ASSUME SetupInv, ParseFlags PROVE SetupInv'
<1>1. CASE Die
  BY <1>1, DieInv
<1>2. CASE ~Die
  <2>1. /\ stage = "flags" /\ stage' = "files" /\ UNCHANGED startVars /\ flags' = flags
        /\ config' = ParsedConfig
        /\ registered' = registered /\ routes' = routes /\ client' = client /\ tlsConfig' = tlsConfig
    BY <1>2 DEF ParseFlags, Proceed, handlerVars, ParsedConfig
  <2>2. StartInv' /\ phase' = phase
    BY <2>1, StartInvFrame DEF SetupInv, startVars
  <2>3. InPhase'
    BY <2>1, <2>2 DEF SetupInv, InPhase, Stages, BeforeHandlers, HandlerStages, AfterHandlers
  <2>4. Configured'
    <3>1. ParsedConfig' = ParsedConfig
      BY <2>1 DEF ParsedConfig
    <3> QED
      BY <2>1, <3>1 DEF SetupInv, Configured
  <2>5. OnceEach'
    BY <2>1 DEF SetupInv, OnceEach, RegistersOnce, NamesAt
  <2>6. Routed' /\ WiringTypes'
    BY <2>1 DEF SetupInv, Routed, WiringTypes, ClientTyped, BeforeHandlers, HandlerStages, AfterHandlers
  <2> QED
    BY <2>2, <2>3, <2>4, <2>5, <2>6 DEF SetupInv
<1> QED
  BY <1>1, <1>2

\* The phases of the tenants come one after the other.
LEMMA PhaseOrder ==
    ASSUME Startup
    PROVE  \/ phase' = "fatal"
           \/ phase = "tenants" /\ phase' \in {"tenants", "rbac"}
           \/ phase = "rbac" /\ phase' \in {"rbac", "adding"}
           \/ phase = "adding" /\ phase' \in {"adding", "providers"}
           \/ phase = "providers" /\ phase' \in {"providers", "mtls"}
           \/ phase = "mtls" /\ phase' = "serving"
BY DEF Startup, ReadFails, LoadTenant, EndTenants, LoadRBAC, AddTenant, EndAdding, ProviderFails,
       NewProvider, EndProviders, Merge, Fatal, Goto, Loop

\* The two stages in which the tenants' own steps are taken.
LEMMA TenantStagesInv == ASSUME SetupInv, LoadFiles \/ AddTenants PROVE SetupInv'
<1>1. /\ flags' = flags /\ config' = config
      /\ registered' = registered /\ routes' = routes /\ client' = client /\ tlsConfig' = tlsConfig
  BY DEF LoadFiles, AddTenants, wiringVars, handlerVars
<1>2. \/ stage = "files" /\ stage' = "files" /\ phase' \in {"tenants", "rbac"}
      \/ stage = "files" /\ stage' = "logger" /\ phase' = "adding"
      \/ stage = "tenants" /\ stage' = "tenants" /\ phase' \in {"adding", "providers", "mtls"}
      \/ stage = "tenants" /\ stage' = "legacy" /\ phase' = "serving"
      \/ stage \in {"files", "tenants"} /\ stage' = "fatal" /\ phase' = "fatal"
  <2>1. CASE LoadFiles
    <3>1. /\ stage = "files" /\ phase \in {"tenants", "rbac"}
          /\ stage' = CASE phase' = "fatal" -> "fatal" [] phase' = "adding" -> "logger"
                        [] OTHER -> "files"
      BY <2>1 DEF LoadFiles
    <3>2. phase' = "fatal" \/ phase' \in {"tenants", "rbac", "adding"}
      BY <2>1, <3>1, PhaseOrder DEF LoadFiles
    <3> QED
      BY <3>1, <3>2
  <2>2. CASE AddTenants
    <3>1. /\ stage = "tenants" /\ phase \in {"adding", "providers", "mtls"}
          /\ stage' = CASE phase' = "fatal" -> "fatal" [] phase' = "serving" -> "legacy"
                        [] OTHER -> "tenants"
      BY <2>2 DEF SetupInv, InPhase, AddTenants
    <3>2. phase' = "fatal" \/ phase' \in {"adding", "providers", "mtls", "serving"}
      BY <2>2, <3>1, PhaseOrder DEF AddTenants
    <3> QED
      BY <3>1, <3>2
  <2> QED
    BY <2>1, <2>2
<1>3. StartInv'
  BY StartInvNext DEF SetupInv, LoadFiles, AddTenants
<1>4. InPhase'
  BY <1>2 DEF InPhase, Stages, BeforeHandlers, HandlerStages, AfterHandlers
<1>5. Configured'
  BY <1>1, <1>2, ConfigKept DEF SetupInv
<1>6. OnceEach'
  <2>1. Range(registered) \subseteq NamesAt(stage')
    <3>1. CASE stage' = "fatal"
      <4>1. NamesAt("fatal") = Collectors
        BY DEF NamesAt
      <4> QED
        BY <3>1, <4>1 DEF SetupInv, OnceEach, Range
    <3>2. CASE stage' # "fatal"
      <4>1. NamesAt(stage') = NamesAt(stage)
        BY <1>2, <3>2 DEF NamesAt
      <4> QED
        BY <4>1 DEF SetupInv, OnceEach
    <3> QED
      BY <3>1, <3>2
  <2> QED
    BY <1>1, <1>2, <2>1 DEF SetupInv, OnceEach, RegistersOnce
<1>7. Routed' /\ WiringTypes'
  BY <1>1, <1>2 DEF SetupInv, Routed, WiringTypes, ClientTyped, BeforeHandlers, HandlerStages, AfterHandlers
<1> QED
  BY <1>3, <1>4, <1>5, <1>6, <1>7 DEF SetupInv

\* A panic of NewLogger.
LEMMA LoggerPanicInv ==
    ASSUME SetupInv, NewLogger, flags.logLevel = "unknown"
    PROVE  SetupInv'
<1>1. /\ stage = "logger" /\ stage' = "panicked" /\ UNCHANGED startVars /\ flags' = flags
      /\ config' = config /\ registered' = registered /\ routes' = routes /\ client' = client
      /\ tlsConfig' = tlsConfig
  BY DEF NewLogger, Proceed
<1>2. StartInv'
  BY <1>1, StartInvFrame DEF SetupInv
<1>3. InPhase'
  BY <1>1 DEF InPhase, Stages, BeforeHandlers, HandlerStages, AfterHandlers
<1>4. Configured'
  BY <1>1, ConfigKept DEF SetupInv
<1>5. OnceEach'
  <2>1. NamesAt("panicked") = Collectors
    BY DEF NamesAt
  <2>2. Range(registered) \subseteq Collectors
    BY DEF SetupInv, OnceEach, Range
  <2> QED
    BY <1>1, <2>1, <2>2 DEF SetupInv, OnceEach, RegistersOnce
<1>6. Routed' /\ WiringTypes'
  BY <1>1 DEF SetupInv, Routed, WiringTypes, ClientTyped, BeforeHandlers, HandlerStages, AfterHandlers
<1> QED
  BY <1>2, <1>3, <1>4, <1>5, <1>6 DEF SetupInv

\* A step that registers new names and goes on to a stage of the same phase.
LEMMA RegisterInv ==
    ASSUME SetupInv, UNCHANGED <<config, tlsConfig>>, ClientTyped', stage \notin {"flags", "fatal"},
           NEW new \in Seq(Collectors), IsInjective(new), NEW then, then # "panicked",
           NEW names, Range(registered) \subseteq names, Range(new) \cap names = {},
           names \cup Range(new) \subseteq NamesAt(then), Register(new, then),
           stage' = then => InPhase' /\ Routed'
    PROVE  SetupInv'
<1>1. OnceEach' /\ stage' = then /\ flags' = flags /\ UNCHANGED startVars
  BY Registering DEF SetupInv
<1>2. StartInv'
  BY <1>1, StartInvFrame DEF SetupInv
<1>3. Configured'
  BY <1>1, ConfigKept DEF SetupInv
<1>4. WiringTypes'
  BY DEF SetupInv, WiringTypes
<1> QED
  BY <1>1, <1>2, <1>3, <1>4 DEF SetupInv

\* What is built before the tenants are added.
LEMMA EarlyInv ==
    ASSUME SetupInv, NewLogger \/ NewHealthchecks \/ NewInstrumentationMiddleware
    PROVE  SetupInv'
<1> DEFINE early == {"logger", "healthchecks", "instrumentation"}
<1>1. ASSUME NEW new \in Seq(Collectors), IsInjective(new), NEW then, then \in early \cup {"tenants"},
             NEW names, Range(registered) \subseteq names, Range(new) \cap names = {},
             names \cup Range(new) \subseteq NamesAt(then), Register(new, then),
             stage \in early, UNCHANGED <<config, routes, client, tlsConfig>>
      PROVE  SetupInv'
  <2>1. /\ stage' = then => phase' = phase
        /\ flags' = flags
    BY <1>1 DEF Register, Proceed, startVars
  <2>2. stage' = then => InPhase'
    BY <1>1, <2>1 DEF SetupInv, InPhase, Stages, BeforeHandlers, HandlerStages, AfterHandlers
  <2>3. stage' = then => Routed'
    BY <1>1 DEF SetupInv, Routed, BeforeHandlers, AfterHandlers
  <2>4. ClientTyped'
    BY <1>1, <2>1 DEF SetupInv, WiringTypes, ClientTyped
  <2>5. then # "panicked" /\ stage \notin {"flags", "fatal"}
    BY <1>1
  <2> QED
    BY <1>1, <2>2, <2>3, <2>4, <2>5, RegisterInv
<1> HIDE DEF early
<1>2. CASE NewLogger /\ flags.logLevel = "unknown"
  BY <1>2, LoggerPanicInv
<1>3. CASE NewLogger /\ flags.logLevel # "unknown"
  <2> DEFINE new == <<"build_info", "go", "process">>
  <2>1. /\ stage = "logger" /\ Register(new, "healthchecks")
        /\ UNCHANGED <<config, routes, client, tlsConfig>>
    BY <1>3 DEF NewLogger
  <2>2. Runtime \subseteq Collectors
    BY DEF Runtime, Collectors
  <2>3. "build_info" \in Collectors /\ "go" \in Collectors /\ "process" \in Collectors
    BY <2>2 DEF Runtime
  <2>4. new \in Seq(Collectors) /\ IsInjective(new) /\ Range(new) = {"build_info", "go", "process"}
    BY <2>3, ThreeCollectors
  <2> HIDE DEF new
  <2>6. /\ Range(registered) \subseteq {} /\ Range(new) \cap {} = {}
        /\ {} \cup Range(new) \subseteq NamesAt("healthchecks")
    BY <2>1, <2>4 DEF SetupInv, OnceEach, NamesAt, Runtime
  <2> QED
    BY <1>1, <2>1, <2>4, <2>6 DEF early
<1>4. CASE NewHealthchecks /\ Die
  BY <1>4, DieInv
<1>5. CASE NewHealthchecks /\ ~Die
  <2>1. PICK new \in {<<>>, <<"healthcheck_http">>} :
          /\ stage = "healthchecks" /\ Register(new, "instrumentation")
          /\ UNCHANGED <<config, routes, client, tlsConfig>>
    BY <1>5 DEF NewHealthchecks
  <2>2. new \in Seq(Collectors) /\ IsInjective(new) /\ Range(new) \subseteq {"healthcheck_http"}
    <3>1. "healthcheck_http" \in Collectors
      BY DEF Collectors
    <3> QED
      BY <3>1, NoCollector, OneCollector
  <2>3. /\ Range(registered) \subseteq Runtime /\ Range(new) \cap Runtime = {}
        /\ Runtime \cup Range(new) \subseteq NamesAt("instrumentation")
    BY <2>1, <2>2 DEF SetupInv, OnceEach, NamesAt, Runtime
  <2> QED
    BY <1>1, <2>1, <2>2, <2>3 DEF early
<1>6. CASE NewInstrumentationMiddleware
  <2> DEFINE new == <<"requests", "request_size", "request_duration", "response_size">>
             names == Runtime \cup {"healthcheck_http"}
  <2>1. /\ stage = "instrumentation" /\ Register(new, "tenants")
        /\ UNCHANGED <<config, routes, client, tlsConfig>>
    BY <1>6 DEF NewInstrumentationMiddleware
  <2>2. Requests \subseteq Collectors
    BY DEF Requests, Collectors
  <2>3. /\ "requests" \in Collectors /\ "request_size" \in Collectors
        /\ "request_duration" \in Collectors /\ "response_size" \in Collectors
    BY <2>2 DEF Requests
  <2>4. new \in Seq(Collectors) /\ IsInjective(new) /\ Range(new) = Requests
    <3>1. /\ new \in Seq(Collectors) /\ Len(new) = 4
          /\ new[1] = "requests" /\ new[2] = "request_size"
          /\ new[3] = "request_duration" /\ new[4] = "response_size"
      BY <2>3
    <3> HIDE DEF new
    <3>2. DOMAIN new = {1, 2, 3, 4}
      <4>1. \A i : i \in 1 .. 4 <=> i \in {1, 2, 3, 4}
        OBVIOUS
      <4> QED
        BY <3>1, <4>1, LenProperties
    <3>3. IsInjective(new)
      BY <3>1, <3>2 DEF IsInjective
    <3>4. Range(new) = Requests
      BY <3>1, <3>2 DEF Range, Requests
    <3> QED
      BY <3>1, <3>3, <3>4
  <2> HIDE DEF new
  <2>6. /\ Range(registered) \subseteq names /\ Range(new) \cap names = {}
        /\ names \cup Range(new) \subseteq NamesAt("tenants")
    BY <2>1, <2>4 DEF SetupInv, OnceEach, NamesAt, Runtime, Requests
  <2> QED
    BY <1>1, <2>1, <2>4, <2>6 DEF early
<1> QED
  BY <1>2, <1>3, <1>4, <1>5, <1>6

\* A handler, with the routes there are after it.
LEMMA HandlerInv ==
    ASSUME SetupInv, NEW at, at \in HandlerStages, NEW paths, NEW new \in Seq(Collectors),
           IsInjective(new), NEW then, then \in {"metrics", "alertmanager", "logs", "tls"},
           Range(new) \cap NamesAt(at) = {}, NamesAt(at) \cup Range(new) \subseteq NamesAt(then),
           Handler(at, paths, new, then), client' = client \/ ClientTyped',
           stage' = then /\ routes' = routes \cup paths /\ UNCHANGED <<flags, config>> => Routed'
    PROVE  SetupInv'
<1>1. /\ stage = at /\ routes' = routes \cup paths /\ Register(new, then)
      /\ config' = config /\ tlsConfig' = tlsConfig
  BY DEF Handler
<1>2. flags' = flags /\ UNCHANGED startVars
  BY <1>1 DEF Register, Proceed
<1>3. ClientTyped'
  BY <1>2 DEF SetupInv, WiringTypes, ClientTyped
<1>4. stage' = then => InPhase'
  <2>1. phase' = "serving"
    BY <1>1, <1>2 DEF SetupInv, InPhase, startVars
  <2> QED
    BY <2>1 DEF InPhase, Stages, BeforeHandlers, HandlerStages, AfterHandlers
<1>5. stage \notin {"flags", "fatal"} /\ then # "panicked" /\ Range(registered) \subseteq NamesAt(at)
  BY <1>1 DEF HandlerStages, SetupInv, OnceEach
<1>6. stage' = then => Routed'
  BY <1>1, <1>2
<1> QED
  BY <1>1, <1>3, <1>4, <1>5, <1>6, RegisterInv

\* The routes of a configuration that does not change do not change.
LEMMA RoutesKept ==
    ASSUME UNCHANGED config
    PROVE  MetricsRoutes' = MetricsRoutes /\ AlertRoutes' = AlertRoutes /\ LogRoutes' = LogRoutes
BY DEF MetricsRoutes, AlertRoutes, LogRoutes

LEMMA LegacyInv == ASSUME SetupInv, NewLegacyHandler PROVE SetupInv'
<1> DEFINE new == <<"metricslegacy-read">>
<1>1. stage = "legacy" /\ Handler("legacy", LegacyRoutes, new, "metrics") /\ client' = client
  BY DEF NewLegacyHandler, Handler, LegacyRoutes
<1>2. new \in Seq(Collectors) /\ IsInjective(new) /\ Range(new) = {"metricslegacy-read"}
  <2>1. "metricslegacy-read" \in Collectors
    BY DEF Collectors
  <2> QED
    BY <2>1, OneCollector
<1> HIDE DEF new
<1>3. /\ Range(new) \cap NamesAt("legacy") = {}
      /\ NamesAt("legacy") \cup Range(new) \subseteq NamesAt("metrics")
  BY <1>2 DEF NamesAt, Runtime, Requests
<1>4. ASSUME stage' = "metrics", routes' = routes \cup LegacyRoutes PROVE Routed'
  <2>1. routes = {}
    BY <1>1 DEF SetupInv, Routed
  <2> QED
    BY <1>4, <2>1 DEF Routed, BeforeHandlers, AfterHandlers, LegacyRoutes
<1>5. "legacy" \in HandlerStages /\ "metrics" \in {"metrics", "alertmanager", "logs", "tls"}
  BY DEF HandlerStages
<1> QED
  BY <1>1, <1>2, <1>3, <1>4, <1>5, HandlerInv

LEMMA MetricsInv == ASSUME SetupInv, NewMetricsHandler PROVE SetupInv'
<1> DEFINE new == <<"metricsv1-read", "metricsv1-ui">>
                  \o IF config.remote THEN <<"metricsv1-write", "metricsv1-remotewrite">>
                     ELSE <<"metricsv1-write">>
           then == IF config.alertmanagers > 0 THEN "alertmanager" ELSE "logs"
<1>1. stage = "metrics" /\ Handler("metrics", MetricsRoutes, new, then) /\ client' = client
  BY DEF NewMetricsHandler, Handler, MetricsRoutes
<1>2. new \in Seq(Collectors) /\ IsInjective(new) /\ Range(new) \subseteq Writers
  <2>1. /\ "metricsv1-read" \in Collectors /\ "metricsv1-ui" \in Collectors
        /\ "metricsv1-write" \in Collectors /\ "metricsv1-remotewrite" \in Collectors
    BY DEF Collectors
  <2> DEFINE one == <<"metricsv1-read", "metricsv1-ui">>
             two == IF config.remote THEN <<"metricsv1-write", "metricsv1-remotewrite">>
                    ELSE <<"metricsv1-write">>
  <2>2. one \in Seq(Collectors) /\ IsInjective(one) /\ Range(one) = {"metricsv1-read", "metricsv1-ui"}
    BY <2>1, TwoCollectors
  <2>3. /\ two \in Seq(Collectors) /\ IsInjective(two)
        /\ Range(two) \subseteq {"metricsv1-write", "metricsv1-remotewrite"}
    <3>1. CASE config.remote
      BY <2>1, <3>1, TwoCollectors
    <3>2. CASE ~config.remote
      <4>1. two = <<"metricsv1-write">>
        BY <3>2
      <4>2. /\ <<"metricsv1-write">> \in Seq(Collectors) /\ IsInjective(<<"metricsv1-write">>)
            /\ Range(<<"metricsv1-write">>) = {"metricsv1-write"}
        BY <2>1, OneCollector
      <4> QED
        BY <4>1, <4>2
    <3> QED
      BY <3>1, <3>2
  <2> HIDE DEF one, two
  <2>4. Range(one) \cap Range(two) = {}
    BY <2>2, <2>3
  <2>5. one \o two \in Seq(Collectors) /\ IsInjective(one \o two)
        /\ Range(one \o two) = Range(one) \cup Range(two)
    BY <2>2, <2>3, <2>4, ConcatOnce
  <2>6. Range(one \o two) \subseteq Writers
    BY <2>2, <2>3, <2>5 DEF Writers
  <2> QED
    BY <2>5, <2>6 DEF one, two
<1> HIDE DEF new, then
<1>3. /\ Range(new) \cap NamesAt("metrics") = {}
      /\ NamesAt("metrics") \cup Range(new) \subseteq NamesAt(then)
  BY <1>2 DEF NamesAt, Runtime, Requests, Writers, then
<1>4. ASSUME stage' = then, routes' = routes \cup MetricsRoutes, UNCHANGED config PROVE Routed'
  <2>1. routes = LegacyRoutes
    BY <1>1 DEF SetupInv, Routed
  <2>2. MetricsRoutes' = MetricsRoutes /\ AlertRoutes' = AlertRoutes
    BY <1>4, RoutesKept
  <2>3. CASE config.alertmanagers > 0
    BY <1>4, <2>1, <2>2, <2>3 DEF Routed, BeforeHandlers, AfterHandlers, LegacyRoutes, then
  <2>4. CASE ~(config.alertmanagers > 0)
    <3>1. AlertRoutes = {} /\ stage' = "logs"
      BY <1>4, <2>4 DEF AlertRoutes, then
    <3> QED
      BY <1>4, <2>1, <2>2, <3>1 DEF Routed, BeforeHandlers, AfterHandlers, LegacyRoutes
  <2> QED
    BY <2>3, <2>4
<1>5. "metrics" \in HandlerStages /\ then \in {"metrics", "alertmanager", "logs", "tls"}
  BY DEF HandlerStages, then
<1> QED
  BY <1>1, <1>2, <1>3, <1>4, <1>5, HandlerInv

LEMMA AlertmanagerInv == ASSUME SetupInv, NewAlertmanagerHandler PROVE SetupInv'
<1> DEFINE new == <<"fanout_requests", "fanout_calls">>
<1>1. stage = "alertmanager" /\ Handler("alertmanager", AlertRoutes, new, "logs")
  <2>1. config.alertmanagers > 0
    BY DEF NewAlertmanagerHandler, Handler, SetupInv, Routed
  <2> QED
    BY <2>1 DEF NewAlertmanagerHandler, Handler, AlertRoutes
<1>2. new \in Seq(Collectors) /\ IsInjective(new) /\ Range(new) = Fanouts
  <2>1. "fanout_requests" \in Collectors /\ "fanout_calls" \in Collectors
    BY DEF Collectors
  <2> QED
    BY <2>1, TwoCollectors DEF Fanouts
<1> HIDE DEF new
<1>3. /\ Range(new) \cap NamesAt("alertmanager") = {}
      /\ NamesAt("alertmanager") \cup Range(new) \subseteq NamesAt("logs")
  BY <1>2 DEF NamesAt, Runtime, Requests, Writers, Fanouts
<1>4. ASSUME stage' = "logs", routes' = routes \cup AlertRoutes, UNCHANGED config PROVE Routed'
  <2>1. config.alertmanagers > 0 /\ routes = LegacyRoutes \cup MetricsRoutes
    BY <1>1 DEF SetupInv, Routed
  <2>2. MetricsRoutes' = MetricsRoutes /\ AlertRoutes' = AlertRoutes
    BY <1>4, RoutesKept
  <2> QED
    BY <1>4, <2>1, <2>2 DEF Routed, BeforeHandlers, AfterHandlers, LegacyRoutes
<1>5. "alertmanager" \in HandlerStages /\ "logs" \in {"metrics", "alertmanager", "logs", "tls"}
  BY DEF HandlerStages
<1>6. ClientTyped'
  <2>1. flags' = flags
    BY <1>1 DEF Handler, Register, Proceed
  <2> QED
    BY <2>1 DEF NewAlertmanagerHandler, ClientTyped, NoClient
<1>7. client' = client \/ ClientTyped'
  BY <1>6
<1>8. stage' = "logs" /\ routes' = routes \cup AlertRoutes /\ UNCHANGED <<flags, config>> => Routed'
  BY <1>4
<1> QED
  BY <1>1, <1>2, <1>3, <1>5, <1>7, <1>8, HandlerInv

\* A collector for each endpoint of the logs API there is.
LEMMA LogsCollectorsOnce ==
    ASSUME NEW read, NEW tail, NEW write
    PROVE  LET new == LogsCollectors(read, tail, write) IN
           /\ new \in Seq(Collectors) /\ IsInjective(new)
           /\ Range(new) \subseteq {"logsv1-read", "logsv1-tail", "logsv1-write"}
<1> DEFINE one == IF read = "nil" THEN <<>> ELSE <<"logsv1-read">>
           two == IF tail = "nil" THEN <<>> ELSE <<"logsv1-tail">>
           three == IF write = "nil" THEN <<>> ELSE <<"logsv1-write">>
<1>1. "logsv1-read" \in Collectors /\ "logsv1-tail" \in Collectors /\ "logsv1-write" \in Collectors
  BY DEF Collectors
<1>2. one \in Seq(Collectors) /\ IsInjective(one) /\ Range(one) \subseteq {"logsv1-read"}
  BY <1>1, NoCollector, OneCollector
<1>3. two \in Seq(Collectors) /\ IsInjective(two) /\ Range(two) \subseteq {"logsv1-tail"}
  BY <1>1, NoCollector, OneCollector
<1>4. three \in Seq(Collectors) /\ IsInjective(three) /\ Range(three) \subseteq {"logsv1-write"}
  BY <1>1, NoCollector, OneCollector
<1>5. LogsCollectors(read, tail, write) = (one \o two) \o three
  BY DEF LogsCollectors
<1> HIDE DEF one, two, three
<1>6. /\ one \o two \in Seq(Collectors) /\ IsInjective(one \o two)
      /\ Range(one \o two) = Range(one) \cup Range(two)
  <2>1. Range(one) \cap Range(two) = {}
    BY <1>2, <1>3
  <2> QED
    BY <1>2, <1>3, <2>1, ConcatOnce
<1> DEFINE both == one \o two
<1> HIDE DEF both
<1>7. both \in Seq(Collectors) /\ IsInjective(both) /\ Range(both) \subseteq {"logsv1-read", "logsv1-tail"}
  BY <1>2, <1>3, <1>6 DEF both
<1>8. /\ both \o three \in Seq(Collectors) /\ IsInjective(both \o three)
      /\ Range(both \o three) = Range(both) \cup Range(three)
  <2>1. Range(both) \cap Range(three) = {}
    BY <1>4, <1>7
  <2> QED
    BY <1>4, <1>7, <2>1, ConcatOnce
<1>9. Range(both \o three) \subseteq {"logsv1-read", "logsv1-tail", "logsv1-write"}
  BY <1>4, <1>7, <1>8
<1> QED
  BY <1>5, <1>8, <1>9 DEF both

LEMMA LogsInv == ASSUME SetupInv, NewLogsHandler PROVE SetupInv'
<1> DEFINE logs == config.logs
           new == IF config.logsEnabled THEN LogsCollectors(logs.read, logs.tail, logs.write) ELSE <<>>
<1>1. stage = "logs" /\ Handler("logs", LogRoutes, new, "tls") /\ client' = client
  BY DEF NewLogsHandler, LogRoutes
<1>2. /\ new \in Seq(Collectors) /\ IsInjective(new)
      /\ Range(new) \subseteq {"logsv1-read", "logsv1-tail", "logsv1-write"}
  BY NoCollector, LogsCollectorsOnce
<1> HIDE DEF new
<1>3. Range(new) \cap NamesAt("logs") = {} /\ NamesAt("logs") \cup Range(new) \subseteq NamesAt("tls")
  <2>1. NamesAt("tls") = Collectors
    BY DEF NamesAt
  <2>2. Range(new) \cap NamesAt("logs") = {}
    BY <1>2 DEF NamesAt, Runtime, Requests, Writers, Fanouts
  <2>3. NamesAt("logs") \cup Range(new) \subseteq Collectors
    BY <1>2 DEF NamesAt, Runtime, Requests, Writers, Fanouts, Collectors
  <2> QED
    BY <2>1, <2>2, <2>3
<1>4. ASSUME stage' = "tls", routes' = routes \cup LogRoutes, UNCHANGED config PROVE Routed'
  <2>1. routes = LegacyRoutes \cup MetricsRoutes \cup AlertRoutes
    BY <1>1 DEF SetupInv, Routed
  <2>2. /\ MetricsRoutes' = MetricsRoutes /\ AlertRoutes' = AlertRoutes /\ LogRoutes' = LogRoutes
        /\ LegacyRoutes' = LegacyRoutes
    BY <1>4, RoutesKept DEF LegacyRoutes
  <2> QED
    BY <1>4, <2>1, <2>2 DEF Routed, BeforeHandlers
<1>5. "logs" \in HandlerStages /\ "tls" \in {"metrics", "alertmanager", "logs", "tls"}
  BY DEF HandlerStages
<1> QED
  BY <1>1, <1>2, <1>3, <1>4, <1>5, HandlerInv

\* The last two steps change none of the handlers.
LEMMA TLSInv == ASSUME SetupInv, NewServerConfig \/ NewCertReloader PROVE SetupInv'
<1>1. CASE Die
  BY <1>1, DieInv
<1>2. CASE ~Die
  <2>1. /\ stage \in {"tls", "reloader"} /\ stage' \in {"reloader", "ready"}
        /\ UNCHANGED startVars /\ flags' = flags /\ config' = config
        /\ registered' = registered /\ routes' = routes /\ client' = client
        /\ tlsConfig' = tlsConfig \/ tlsConfig' = TRUE
    BY <1>2 DEF NewServerConfig, NewCertReloader, Proceed, handlerVars
  <2>2. StartInv' /\ phase' = phase
    BY <2>1, StartInvFrame DEF SetupInv, startVars
  <2>3. InPhase'
    BY <2>1, <2>2 DEF SetupInv, InPhase, Stages, BeforeHandlers, HandlerStages, AfterHandlers
  <2>4. Configured'
    BY <2>1, ConfigKept DEF SetupInv
  <2>5. OnceEach'
    BY <2>1 DEF SetupInv, OnceEach, RegistersOnce, NamesAt
  <2>6. Routed'
    <3>1. /\ MetricsRoutes' = MetricsRoutes /\ AlertRoutes' = AlertRoutes /\ LogRoutes' = LogRoutes
          /\ LegacyRoutes' = LegacyRoutes
      BY <2>1, RoutesKept DEF LegacyRoutes
    <3> QED
      BY <2>1, <3>1 DEF SetupInv, Routed, BeforeHandlers, AfterHandlers
  <2>7. WiringTypes'
    BY <2>1 DEF SetupInv, WiringTypes, ClientTyped
  <2> QED
    BY <2>2, <2>3, <2>4, <2>5, <2>6, <2>7 DEF SetupInv
<1> QED
  BY <1>1, <1>2

LEMMA SetupInvNext == SetupInv /\ [SetupNext]_setupVars => SetupInv'
<1> SUFFICES ASSUME SetupInv, [SetupNext]_setupVars PROVE SetupInv'
  OBVIOUS
<1>1. CASE SetupNext
  BY <1>1, ParseFlagsInv, TenantStagesInv, EarlyInv, LegacyInv, MetricsInv, AlertmanagerInv, LogsInv,
     TLSInv DEF SetupNext
<1>2. CASE UNCHANGED setupVars
  <2>1. UNCHANGED startVars /\ UNCHANGED <<stage, flags, config, registered, routes, client, tlsConfig>>
    BY <1>2 DEF setupVars, wiringVars, handlerVars
  <2>2. StartInv' /\ phase' = phase
    BY <2>1, StartInvFrame DEF SetupInv, startVars
  <2>3. InPhase'
    BY <2>1, <2>2 DEF SetupInv, InPhase
  <2>4. Configured' /\ WiringTypes'
    BY <2>1 DEF SetupInv, Configured, ParsedConfig, WiringTypes, ClientTyped
  <2>5. OnceEach'
    BY <2>1 DEF SetupInv, OnceEach, RegistersOnce
  <2>6. Routed'
    <3>1. /\ MetricsRoutes' = MetricsRoutes /\ AlertRoutes' = AlertRoutes /\ LogRoutes' = LogRoutes
          /\ LegacyRoutes' = LegacyRoutes
      BY <2>1, RoutesKept DEF LegacyRoutes
    <3> QED
      BY <2>1, <3>1 DEF SetupInv, Routed
  <2> QED
    BY <2>2, <2>3, <2>4, <2>5, <2>6 DEF SetupInv
<1> QED
  BY <1>1, <1>2

\* The strengthened invariant holds of every start.
THEOREM SetupInvariance == SetupSpec => []SetupInv
BY SetupInvInit, SetupInvNext, PTL DEF SetupSpec

-----------------------------------------------------------------------------
(* What follows                                                            *)

LEMMA SetupTypes == SetupInv => SetupTypeOK
<1> SUFFICES ASSUME SetupInv PROVE SetupTypeOK
  OBVIOUS
<1>1. StartTypeOK
  BY StartTypeCorrect DEF SetupInv
<1>2. flags \in Flags /\ config \in {NoConfig, ParsedConfig}
  BY DEF SetupInv, Configured
<1>3. Len(flags.alertmanagers) \in Nat
  BY <1>2, LenProperties DEF Flags
<1>4. config.remote \in BOOLEAN /\ config.alertmanagers \in Nat /\ config.logsEnabled \in BOOLEAN
  <2>1. CASE config = NoConfig
    BY <2>1 DEF NoConfig
  <2>2. CASE config = ParsedConfig
    BY <1>3, <2>2 DEF ParsedConfig
  <2> QED
    BY <1>2, <2>1, <2>2
<1>5. registered \in Seq(Collectors) /\ tlsConfig \in BOOLEAN
      /\ client \in [roots : {"system", "file"}, name : {"", flags.upstreamName}]
  BY DEF SetupInv, OnceEach, WiringTypes, ClientTyped
<1>6. stage \in {"flags", "files", "logger", "healthchecks", "instrumentation", "tenants", "tls",
                 "reloader"} \cup HandlerStages \cup Ended
  BY DEF SetupInv, InPhase, Stages, BeforeHandlers, AfterHandlers, Ended
<1> QED
  BY <1>1, <1>2, <1>4, <1>5, <1>6 DEF SetupTypeOK

\* For every combination of flags and files, the state of main is well typed
\* at each of its stages.
THEOREM SetupTypeCorrect == SetupSpec => []SetupTypeOK
BY SetupInvariance, SetupTypes, PTL

\* For every tenants file, no tenant is served over mTLS with a CA that the
\* first loop has skipped.
THEOREM ServedCAsParsed == SetupSpec => []MTLSHasCA
<1>1. SetupInv => MTLSHasCA
  BY ParsedCAs DEF SetupInv
<1> QED
  BY <1>1, SetupInvariance, PTL

\* For every tenants file, a tenant with a name of its own has its own
\* configuration and its own ID.
THEOREM ServedByOwnConfiguration == SetupSpec => []OwnConfiguration
<1>1. SetupInv => OwnConfiguration
  BY OwnTenants DEF SetupInv
<1> QED
  BY <1>1, SetupInvariance, PTL

\* For every tenants file and any failures of OIDC providers, exactly the
\* tenants of those providers are left out.
THEOREM FailuresContained == SetupSpec => []FailureContained
<1>1. SetupInv => FailureContained
  BY FailedTenants DEF SetupInv
<1> QED
  BY <1>1, SetupInvariance, PTL

\* For every combination of flags, no collector is registered twice.
THEOREM CollectorsRegisterOnce == SetupSpec => []RegistersOnce
<1>1. SetupInv => RegistersOnce
  BY DEF SetupInv, OnceEach
<1> QED
  BY <1>1, SetupInvariance, PTL

\* The routes of a gateway that serves, mount by mount.
LEMMA RoutesOfMounts ==
    ASSUME SetupInv, stage \in AfterHandlers
    PROVE  \A q \in routes :
             \/ q \in LegacyRoutes /\ q.mount = "legacy"
             \/ q \in MetricsRoutes /\ q.mount = "metrics"
             \/ q \in AlertRoutes /\ q.mount = "alertmanager"
             \/ q \in LogRoutes /\ q.mount = "logs"
<1>1. routes = LegacyRoutes \cup MetricsRoutes \cup AlertRoutes \cup LogRoutes
  BY DEF SetupInv, Routed
<1>2. \A q \in LegacyRoutes : q.mount = "legacy"
  BY DEF LegacyRoutes, To
<1>3. \A q \in MetricsRoutes : q.mount = "metrics"
  BY DEF MetricsRoutes, To
<1>4. \A q \in AlertRoutes : q.mount = "alertmanager"
  BY DEF AlertRoutes, To
<1>5. \A q \in LogRoutes : q.mount = "logs"
  BY DEF LogRoutes, LogsRoutes, To
<1> QED
  BY <1>1, <1>2, <1>3, <1>4, <1>5

\* The logs endpoints pass through the configuration unchanged.
LEMMA LogsEndpoints ==
    ASSUME SetupInv, stage \in AfterHandlers
    PROVE  LogRoutes = LogsRoutes(Parsed(flags.logsRead, "logs_read"),
                                  Parsed(flags.logsTail, "logs_tail"),
                                  Parsed(flags.logsWrite, "logs_write"))
<1>1. config = ParsedConfig
  BY DEF SetupInv, Configured, AfterHandlers
<1>2. CASE config.logsEnabled
  BY <1>1, <1>2 DEF LogRoutes, ParsedConfig
<1>3. CASE ~config.logsEnabled
  <2>1. flags.logsRead = "" /\ flags.logsTail = "" /\ flags.logsWrite = ""
    BY <1>1, <1>3 DEF ParsedConfig
  <2>2. LogsRoutes("nil", "nil", "nil") = {}
    BY DEF LogsRoutes, To
  <2> QED
    BY <1>3, <2>1, <2>2 DEF LogRoutes, Parsed
<1> QED
  BY <1>2, <1>3

\* What each flag names is found at its mount and path.
LEMMA FlagsAtReady ==
    ASSUME SetupInv, stage = "ready"
    PROVE  FlagsServed
<1> DEFINE chosen(m, p) == {q \in routes : q.mount = m /\ q.path = p}
<1>1. /\ \A q \in routes : \/ q \in LegacyRoutes /\ q.mount = "legacy"
                           \/ q \in MetricsRoutes /\ q.mount = "metrics"
                           \/ q \in AlertRoutes /\ q.mount = "alertmanager"
                           \/ q \in LogRoutes /\ q.mount = "logs"
      /\ LegacyRoutes \cup MetricsRoutes \cup AlertRoutes \cup LogRoutes = routes
      /\ config = ParsedConfig
  BY RoutesOfMounts DEF SetupInv, Configured, Routed, AfterHandlers
<1>2. chosen("metrics", "query") = {To("metrics", "query", "any", "read", "read")}
  <2>1. chosen("metrics", "query") = {q \in MetricsRoutes : q.path = "query"}
    BY <1>1 DEF MetricsRoutes, To
  <2> QED
    BY <2>1 DEF MetricsRoutes, To
<1>3. chosen("legacy", "query") = {To("legacy", "query", "any", "read", "read")}
  <2>1. chosen("legacy", "query") = {q \in LegacyRoutes : q.path = "query"}
    BY <1>1 DEF LegacyRoutes, To
  <2> QED
    BY <2>1 DEF LegacyRoutes, To
<1>4. chosen("metrics", "receive") =
        {To("metrics", "receive", "any", "write", IF config.remote THEN "remote_write" ELSE "write")}
  <2>1. chosen("metrics", "receive") = {q \in MetricsRoutes : q.path = "receive"}
    BY <1>1 DEF MetricsRoutes, To
  <2> QED
    BY <2>1 DEF MetricsRoutes, To
<1>5. /\ chosen("logs", "query") = {q \in LogRoutes : q.path = "query"}
      /\ chosen("logs", "tail") = {q \in LogRoutes : q.path = "tail"}
      /\ chosen("logs", "push") = {q \in LogRoutes : q.path = "push"}
  BY <1>1 DEF LogRoutes, LogsRoutes, To
<1>6. chosen("alertmanager", "alerts") = AlertRoutes
  BY <1>1 DEF AlertRoutes, To
<1> HIDE DEF chosen
<1>7. /\ {r.to : r \in chosen("metrics", "query")} = {"read"}
      /\ {r.to : r \in chosen("legacy", "query")} = {"read"}
  <2>1. /\ To("metrics", "query", "any", "read", "read").to = "read"
        /\ To("legacy", "query", "any", "read", "read").to = "read"
    BY DEF To
  <2>2. {r.to : r \in chosen("metrics", "query")} = {"read"}
    BY <1>2, <2>1
  <2> QED
    BY <1>3, <2>1, <2>2
<1>8. {r.to : r \in chosen("metrics", "receive")} =
        {IF flags.additional = "some" THEN "remote_write" ELSE "write"}
  <2> DEFINE to == IF flags.additional = "some" THEN "remote_write" ELSE "write"
             route == To("metrics", "receive", "any", "write", to)
  <2>1. to = IF config.remote THEN "remote_write" ELSE "write"
    BY <1>1 DEF ParsedConfig
  <2>2. route.to = to
    BY DEF To
  <2>3. chosen("metrics", "receive") = {route}
    BY <1>4, <2>1
  <2> HIDE DEF route
  <2> QED
    BY <2>2, <2>3
<1>9. LogRoutes = LogsRoutes(Parsed(flags.logsRead, "logs_read"),
                              Parsed(flags.logsTail, "logs_tail"),
                              Parsed(flags.logsWrite, "logs_write"))
  BY LogsEndpoints DEF AfterHandlers
<1>10. {r.to : r \in chosen("logs", "query")} = IF flags.logsRead # "" THEN {"logs_read"} ELSE {}
  <2>1. chosen("logs", "query") =
          {r \in {To("logs", "query", "any", "read", Parsed(flags.logsRead, "logs_read"))} : r.to # "nil"}
    BY <1>5, <1>9 DEF LogsRoutes, To
  <2>2. ASSUME NEW to PROVE To("logs", "query", "any", "read", to).to = to
    BY DEF To
  <2>3. Parsed(flags.logsRead, "logs_read") = IF flags.logsRead # "" THEN "logs_read" ELSE "nil"
    BY DEF Parsed
  <2> QED
    BY <2>1, <2>2, <2>3
<1>11. {r.to : r \in chosen("logs", "tail")} = IF flags.logsTail # "" THEN {"logs_tail"} ELSE {}
  <2>1. chosen("logs", "tail") =
          {r \in {To("logs", "tail", "any", "read", Parsed(flags.logsTail, "logs_tail"))} : r.to # "nil"}
    BY <1>5, <1>9 DEF LogsRoutes, To
  <2>2. ASSUME NEW to PROVE To("logs", "tail", "any", "read", to).to = to
    BY DEF To
  <2>3. Parsed(flags.logsTail, "logs_tail") = IF flags.logsTail # "" THEN "logs_tail" ELSE "nil"
    BY DEF Parsed
  <2> QED
    BY <2>1, <2>2, <2>3
<1>12. {r.to : r \in chosen("logs", "push")} = IF flags.logsWrite # "" THEN {"logs_write"} ELSE {}
  <2>1. chosen("logs", "push") =
          {r \in {To("logs", "push", "any", "write", Parsed(flags.logsWrite, "logs_write"))} : r.to # "nil"}
    BY <1>5, <1>9 DEF LogsRoutes, To
  <2>2. ASSUME NEW to PROVE To("logs", "push", "any", "write", to).to = to
    BY DEF To
  <2>3. Parsed(flags.logsWrite, "logs_write") = IF flags.logsWrite # "" THEN "logs_write" ELSE "nil"
    BY DEF Parsed
  <2> QED
    BY <2>1, <2>2, <2>3
<1>13. {r.to : r \in chosen("alertmanager", "alerts")} =
         IF flags.alertmanagers # <<>> THEN {"fanout"} ELSE {}
  <2>1. flags.alertmanagers \in Seq(URL)
    BY DEF SetupInv, Configured, Flags
  <2>2. Len(flags.alertmanagers) > 0 <=> flags.alertmanagers # <<>>
    BY <2>1, EmptySeq, LenProperties
  <2>3. config.alertmanagers = Len(flags.alertmanagers)
    BY <1>1 DEF ParsedConfig
  <2>4. To("alertmanager", "alerts", "POST", "write", "fanout").to = "fanout"
    BY DEF To
  <2>5. CASE flags.alertmanagers # <<>>
    <3>1. chosen("alertmanager", "alerts") = {To("alertmanager", "alerts", "POST", "write", "fanout")}
      BY <1>6, <2>2, <2>3, <2>5 DEF AlertRoutes
    <3> QED
      BY <2>4, <2>5, <3>1
  <2>6. CASE flags.alertmanagers = <<>>
    <3>1. chosen("alertmanager", "alerts") = {}
      BY <1>6, <2>2, <2>3, <2>6 DEF AlertRoutes
    <3> QED
      BY <2>6, <3>1
  <2> QED
    BY <2>5, <2>6
<1> QED
  BY <1>7, <1>8, <1>10, <1>11, <1>12, <1>13 DEF FlagsServed, chosen

\* For every combination of flags, what each flag names is served where it
\* belongs and nothing else is.
THEOREM FlagsAreServed == SetupSpec => []FlagsServed
<1>1. SetupInv => FlagsServed
  BY FlagsAtReady DEF FlagsServed
<1> QED
  BY <1>1, SetupInvariance, PTL
=============================================================================
