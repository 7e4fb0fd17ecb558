------------------------------ MODULE Tenants -------------------------------
(***************************************************************************)
(* What the gateway makes of its tenants while it starts (Setup is the     *)
(* whole start).  The tenants file is read and its CAs parsed in one loop, *)
(* the RBAC file becomes an authorizer (RBAC), a second loop hands each    *)
(* tenant to one of the two authentication methods, every OIDC provider is *)
(* contacted once, and the middlewares of both methods are merged by       *)
(* tenant name.                                                            *)
(*                                                                         *)
(* A tenant is known by its index in the file: names are not checked to be *)
(* different.  Keys and certificates are represented by the index of the   *)
(* tenant whose configuration they belong to.                              *)
(***************************************************************************)
EXTENDS RBAC

CONSTANTS
    TenantLists,    \* the lists of tenants a tenants file may hold
    ProviderStates  \* what an OIDC provider may be like while the gateway starts

\* issuerCA and ca: what the file says of the CA, if anything.
OIDCConfig == [issuerCA : {"none", "good", "bad"}, usernameClaim : BOOLEAN, groupClaim : BOOLEAN]
MTLSConfig == [ca : {"good", "bad"}]
Tenant == [name : STRING, id : STRING, oidc : SUBSET OIDCConfig, mtls : SUBSET MTLSConfig]

ASSUME TenantAssumption ==
    \A list \in TenantLists :
        /\ list \in Seq(Tenant)
        \* A pointer is nil or points to one configuration.
        /\ \A i \in DOMAIN list : \A c, d \in list[i].oidc : c = d
        /\ \A i \in DOMAIN list : \A c, d \in list[i].mtls : c = d
ASSUME ProviderAssumption == ProviderStates \subseteq {"up", "down", "hangs"}

VARIABLES
    phase,              \* how far main has come
    tenants,            \* tenantsCfg.Tenants
    provider,           \* the state of each tenant's OIDC provider at the start
    next,               \* the next index of the current loop
    parsed,             \* tenants whose mTLS CA has been parsed
    tenantIDs,          \* tenant name -> ID
    oidcs,              \* indices, in order
    mTLSs,              \* indices, in order
    oidcMiddlewares,    \* tenant name -> index, those with a provider
    middlewares         \* tenant name -> index and method, merged

tenantVars == <<tenants, provider, parsed, tenantIDs, oidcs, mTLSs, oidcMiddlewares, middlewares>>
startVars == <<rbacVars, phase, next, tenantVars>>

Indices == DOMAIN tenants
Method == {"oidc", "mtls"}
EmptyMap == [n \in {} |-> n]
Set(map, key, value) == [n \in DOMAIN map \cup {key} |-> IF n = key THEN value ELSE map[n]]

\* The types of main's state while it starts (lines 179-364).
StartTypeOK ==
    /\ RBACTypeOK
    /\ phase \in {"tenants", "rbac", "adding", "providers", "mtls", "serving", "fatal"}
    /\ tenants \in Seq(Tenant) /\ next \in 1 .. (Len(tenants) + 1)
    /\ provider \in [Indices -> ProviderStates]
    /\ parsed \subseteq Indices
    /\ DOMAIN tenantIDs \subseteq {tenants[i].name : i \in Indices}
    /\ oidcs \in Seq(Indices) /\ mTLSs \in Seq(Indices)
    /\ \A n \in DOMAIN oidcMiddlewares : oidcMiddlewares[n] \in Indices
    /\ \A n \in DOMAIN middlewares : middlewares[n] \in [tenant : Indices, method : Method]

StartInit ==
    /\ RBACInit
    /\ phase = "tenants" /\ tenants \in TenantLists /\ next = 1
    /\ provider \in [Indices -> ProviderStates]
    /\ parsed = {} /\ tenantIDs = EmptyMap
    /\ oidcs = <<>> /\ mTLSs = <<>>
    /\ oidcMiddlewares = EmptyMap /\ middlewares = EmptyMap

Goto(label) == phase' = label /\ next' = 1
Loop == next' = next + 1 /\ UNCHANGED phase

Fatal == phase' = "fatal" /\ UNCHANGED <<next, tenantVars>>

\* Either file cannot be read or is not YAML.
ReadFails ==
    /\ \/ phase = "tenants" /\ next = 1
       \/ phase = "rbac" /\ loaded = 0 /\ bound = 0
    /\ Fatal
    /\ UNCHANGED rbacVars

\* The first loop.  A tenant with OIDC and no issuer CA is left at once: its
\* mTLS CA, if it has one, is not looked at.
LoadTenant ==
    /\ phase = "tenants" /\ next \in Indices
    /\ LET t == tenants[next]
           skipped == \E c \in t.oidc : c.issuerCA = "none"
           bad == \/ \E c \in t.oidc : c.issuerCA = "bad"
                  \/ ~skipped /\ \E c \in t.mtls : c.ca = "bad"
       IN \/ bad /\ Fatal
          \/ /\ ~bad
             /\ parsed' = IF skipped \/ t.mtls = {} THEN parsed ELSE parsed \cup {next}
             /\ Loop
             /\ UNCHANGED <<tenants, provider, tenantIDs, oidcs, mTLSs, oidcMiddlewares, middlewares>>
    /\ UNCHANGED rbacVars

EndTenants ==
    /\ phase = "tenants" /\ next \notin Indices
    /\ Goto("rbac")
    /\ UNCHANGED <<rbacVars, tenantVars>>

LoadRBAC ==
    /\ phase = "rbac"
    /\ \/ RBACNext /\ UNCHANGED <<phase, next>>
       \/ Loaded /\ Goto("adding") /\ UNCHANGED rbacVars
    /\ UNCHANGED tenantVars

MutAddTenant ==
    /\ phase = "adding" /\ next \in Indices
    /\ LET t == tenants[next] IN
         \/ /\ t.oidc = {} /\ t.mtls = {}
            /\ Fatal
         \/ /\ tenantIDs' = Set(tenantIDs, t.name, t.id)
            /\ \/ t.mtls # {} /\ mTLSs' = Append(mTLSs, next) /\ UNCHANGED oidcs
               \/ t.mtls = {} /\ t.oidc # {} /\ oidcs' = Append(oidcs, next) /\ UNCHANGED mTLSs
            /\ Loop
            /\ UNCHANGED <<tenants, provider, parsed, oidcMiddlewares, middlewares>>
    /\ UNCHANGED rbacVars

\* The second loop.  A tenant with both methods gets OIDC, one with neither
\* ends the process.
AddTenant ==
    /\ phase = "adding" /\ next \in Indices
    /\ LET t == tenants[next] IN
         \/ /\ t.oidc = {} /\ t.mtls = {}
            /\ Fatal
         \/ /\ tenantIDs' = Set(tenantIDs, t.name, t.id)
            /\ \/ t.oidc # {} /\ oidcs' = Append(oidcs, next) /\ UNCHANGED mTLSs
               \/ t.oidc = {} /\ t.mtls # {} /\ mTLSs' = Append(mTLSs, next) /\ UNCHANGED oidcs
            /\ Loop
            /\ UNCHANGED <<tenants, provider, parsed, oidcMiddlewares, middlewares>>
    /\ UNCHANGED rbacVars

EndAdding ==
    /\ phase = "adding" /\ next \notin Indices
    /\ Goto("providers")
    /\ UNCHANGED <<rbacVars, tenantVars>>

-----------------------------------------------------------------------------
(* NewOIDC, NewMTLS, WithTenantMiddlewares                                 *)

MutProviderFailsUntimed ==
    /\ phase = "providers" /\ next \in DOMAIN oidcs
    /\ provider[oidcs[next]] = "down"
    /\ Loop
    /\ UNCHANGED <<rbacVars, tenantVars>>

MutProviderFailsAll ==
    /\ phase = "providers" /\ next \in DOMAIN oidcs
    /\ provider[oidcs[next]] # "up"
    /\ Goto("mtls")
    /\ UNCHANGED <<rbacVars, tenantVars>>

MutProviderFailsNil ==
    /\ phase = "providers" /\ next \in DOMAIN oidcs
    /\ provider[oidcs[next]] # "up"
    /\ oidcMiddlewares' = Set(oidcMiddlewares, tenants[oidcs[next]].name, 0)
    /\ Loop
    /\ UNCHANGED <<rbacVars, tenants, provider, parsed, tenantIDs, oidcs, mTLSs, middlewares>>

\* newProvider fails, at the latest after the five seconds of its client: a
\* warning, and the tenant is left out.  It is not tried again.
ProviderFails ==
    /\ phase = "providers" /\ next \in DOMAIN oidcs
    /\ provider[oidcs[next]] # "up"
    /\ Loop
    /\ UNCHANGED <<rbacVars, tenantVars>>

NewProvider ==
    /\ phase = "providers" /\ next \in DOMAIN oidcs
    /\ provider[oidcs[next]] = "up"
    /\ oidcMiddlewares' = Set(oidcMiddlewares, tenants[oidcs[next]].name, oidcs[next])
    /\ Loop
    /\ UNCHANGED <<rbacVars, tenants, provider, parsed, tenantIDs, oidcs, mTLSs, middlewares>>

EndProviders ==
    /\ phase = "providers" /\ next \notin DOMAIN oidcs
    /\ Goto("mtls")
    /\ UNCHANGED <<rbacVars, tenantVars>>

\* The last mTLS tenant of a name, 0 if there is none.
LastMTLS(n) ==
    LET named == {k \in DOMAIN mTLSs : tenants[mTLSs[k]].name = n}
    IN IF named = {} THEN 0 ELSE mTLSs[CHOOSE k \in named : \A l \in named : l <= k]

MutMerge ==
    /\ phase = "mtls"
    /\ middlewares' =
         [n \in DOMAIN oidcMiddlewares \cup {tenants[mTLSs[k]].name : k \in DOMAIN mTLSs} |->
             IF LastMTLS(n) # 0
             THEN [tenant |-> mTLSs[Len(mTLSs)], method |-> "mtls"]
             ELSE [tenant |-> oidcMiddlewares[n], method |-> "oidc"]]
    /\ Goto("serving")
    /\ UNCHANGED <<rbacVars, tenants, provider, parsed, tenantIDs, oidcs, mTLSs, oidcMiddlewares>>

\* NewMTLS makes a middleware of each of its tenants.  In the merge the second
\* set wins: mTLS over OIDC where both have the name.
Merge ==
    /\ phase = "mtls"
    /\ middlewares' =
         [n \in DOMAIN oidcMiddlewares \cup {tenants[mTLSs[k]].name : k \in DOMAIN mTLSs} |->
             IF LastMTLS(n) # 0
             THEN [tenant |-> LastMTLS(n), method |-> "mtls"]
             ELSE [tenant |-> oidcMiddlewares[n], method |-> "oidc"]]
    /\ Goto("serving")
    /\ UNCHANGED <<rbacVars, tenants, provider, parsed, tenantIDs, oidcs, mTLSs, oidcMiddlewares>>

Startup ==
    \/ ReadFails \/ LoadTenant \/ EndTenants \/ LoadRBAC \/ AddTenant \/ EndAdding
    \/ ProviderFails \/ NewProvider \/ EndProviders \/ Merge

-----------------------------------------------------------------------------
(* Properties                                                              *)

\* The two loops of main agree (the "continue" of line 199 and those of lines
\* 354 and 361): the CA of every tenant that is served over mTLS was parsed,
\* whatever combination of methods and CAs the tenants have.
MTLSHasCA ==
    phase = "serving" =>
        \A n \in DOMAIN middlewares :
            middlewares[n].method = "mtls" => middlewares[n].tenant \in parsed

\* The name of tenant i is its own.
Unique(i) == \A j \in Indices : tenants[j].name = tenants[i].name => j = i

\* Identity and identifier stay together: requests of a tenant whose name is
\* its own are authenticated by its own configuration and carry its own ID,
\* however many other tenants are left out or share a name among them.
OwnConfiguration ==
    phase = "serving" =>
        \A i \in Indices : Unique(i) =>
            LET n == tenants[i].name IN
            /\ tenantIDs[n] = tenants[i].id
            /\ n \in DOMAIN middlewares => middlewares[n].tenant = i

\* A provider that fails (oidc.go:47) takes out its own tenant and no other: a
\* tenant is not served exactly if it has OIDC and its provider failed.
FailureContained ==
    phase = "serving" =>
        \A i \in Indices :
            LET failed == tenants[i].oidc # {} /\ provider[i] # "up"
                served == tenants[i].name \in DOMAIN middlewares
            IN (~failed => served) /\ (Unique(i) /\ failed => ~served)

=============================================================================
