--------------------------- MODULE TenantsProofs ----------------------------
(***************************************************************************)
(* Proofs about Tenants, for every tenants file, RBAC file and state of    *)
(* the OIDC providers: what the loops of main have done so far, and what   *)
(* follows for the tenants that are served.  SetupProofs turns it into     *)
(* theorems about the start.                                               *)
(***************************************************************************)
EXTENDS Tenants, RBACProofs, SequenceTheorems, TLAPS

-----------------------------------------------------------------------------
(* The inductive invariant                                                 *)

Phases == {"tenants", "rbac", "adding", "providers", "mtls", "serving", "fatal"}
StartTypes ==
    /\ phase \in Phases
    /\ tenants \in TenantLists /\ next \in 1 .. (Len(tenants) + 1)
    /\ provider \in [Indices -> ProviderStates]
    /\ parsed \subseteq Indices
    /\ oidcs \in Seq(Indices) /\ mTLSs \in Seq(Indices)

\* A tenant without OIDC leaves the first loop with its CA parsed.
ParsedUpTo(k) ==
    \A i \in 1 .. k : tenants[i].oidc = {} /\ tenants[i].mtls # {} => i \in parsed
CAsParsed ==
    /\ phase = "tenants" => ParsedUpTo(next - 1)
    /\ phase \in Phases \ {"tenants", "fatal"} => ParsedUpTo(Len(tenants))
    /\ phase \in Phases \ {"tenants", "rbac", "fatal"} => Loaded

\* The second loop has passed k tenants: each of them is on the list of its
\* method, and each name has the ID of the last of its tenants.
ListedUpTo(k) ==
    /\ Len(oidcs) <= k
    /\ \A x \in DOMAIN oidcs : oidcs[x] \in 1 .. k /\ tenants[oidcs[x]].oidc # {}
    /\ \A x \in DOMAIN mTLSs : /\ mTLSs[x] \in 1 .. k
                               /\ tenants[mTLSs[x]].oidc = {} /\ tenants[mTLSs[x]].mtls # {}
    /\ \A i \in 1 .. k : IF tenants[i].oidc # {} THEN \E x \in DOMAIN oidcs : oidcs[x] = i
                         ELSE \E x \in DOMAIN mTLSs : mTLSs[x] = i
IdentifiedUpTo(k) ==
    /\ \A i \in 1 .. k : tenants[i].name \in DOMAIN tenantIDs
    /\ \A n \in DOMAIN tenantIDs : \E i \in 1 .. k :
         /\ tenants[i].name = n /\ tenantIDs[n] = tenants[i].id
         /\ \A j \in 1 .. k : tenants[j].name = n => j <= i
\* The mTLS tenants of a name have a last one.
LastOfName(k) == \A l \in DOMAIN mTLSs : tenants[mTLSs[l]].name = tenants[mTLSs[k]].name => l <= k
HaveLast ==
    \A x \in DOMAIN mTLSs : \E k \in DOMAIN mTLSs :
        tenants[mTLSs[k]].name = tenants[mTLSs[x]].name /\ LastOfName(k)
AddedUpTo(k) == ListedUpTo(k) /\ IdentifiedUpTo(k)
TenantsAdded ==
    /\ HaveLast
    /\ DOMAIN tenantIDs \subseteq {tenants[i].name : i \in Indices}
    /\ phase \in {"tenants", "rbac"} => AddedUpTo(0)
    /\ phase = "adding" => AddedUpTo(next - 1)
    /\ phase \in {"providers", "mtls", "serving"} => AddedUpTo(Len(tenants))

\* NewOIDC has passed k tenants: the names with a middleware are those with a
\* provider that is up, and the middleware is that of such a tenant.
TriedUpTo(k) ==
    /\ \A n \in DOMAIN oidcMiddlewares : \E x \in 1 .. k :
         /\ oidcMiddlewares[n] = oidcs[x]
         /\ tenants[oidcs[x]].name = n /\ provider[oidcs[x]] = "up"
    /\ \A x \in 1 .. k : provider[oidcs[x]] = "up" => tenants[oidcs[x]].name \in DOMAIN oidcMiddlewares
ProvidersTried ==
    /\ \A n \in DOMAIN oidcMiddlewares : oidcMiddlewares[n] \in Indices
    /\ phase \in {"tenants", "rbac", "adding"} => oidcMiddlewares = EmptyMap
    /\ phase = "providers" => next \in 1 .. (Len(oidcs) + 1) /\ TriedUpTo(next - 1)
    /\ phase \in {"mtls", "serving"} => TriedUpTo(Len(oidcs))

MTLSNames == {tenants[mTLSs[k]].name : k \in DOMAIN mTLSs}
MergedMap ==
    [n \in DOMAIN oidcMiddlewares \cup MTLSNames |->
        IF LastMTLS(n) # 0 THEN [tenant |-> LastMTLS(n), method |-> "mtls"]
        ELSE [tenant |-> oidcMiddlewares[n], method |-> "oidc"]]
Merged == middlewares = IF phase = "serving" THEN MergedMap ELSE EmptyMap

StartInv ==
    /\ RBACInv /\ StartTypes /\ CAsParsed /\ TenantsAdded /\ ProvidersTried /\ Merged

-----------------------------------------------------------------------------
(* The lists and maps                                                      *)

LEMMA TenantFacts ==
    ASSUME StartTypes
    PROVE  /\ tenants \in Seq(Tenant) /\ Len(tenants) \in Nat /\ Indices = 1 .. Len(tenants)
           /\ \A i \in Indices : tenants[i] \in Tenant
           /\ \A i \in Indices : \A c, d \in tenants[i].oidc : c = d
           /\ next \in Nat \ {0}
<1>1. tenants \in TenantLists /\ next \in 1 .. (Len(tenants) + 1)
  BY DEF StartTypes
<1>2. tenants \in Seq(Tenant) /\ \A i \in DOMAIN tenants : \A c, d \in tenants[i].oidc : c = d
  BY <1>1, TenantAssumption
<1>3. Len(tenants) \in Nat /\ Indices = 1 .. Len(tenants)
  BY <1>2 DEF Indices
<1> QED
  BY <1>1, <1>2, <1>3 DEF Indices

\* t is s with e appended.
Extended(s, t, e) ==
    /\ Len(t) = Len(s) + 1 /\ Len(s) \in Nat
    /\ DOMAIN s = 1 .. Len(s) /\ DOMAIN t = 1 .. (Len(s) + 1)
    /\ t[Len(s) + 1] = e
    /\ \A i \in DOMAIN s : t[i] = s[i] /\ i \in DOMAIN t
    /\ \A i \in DOMAIN t : i \in DOMAIN s \/ i = Len(s) + 1
    /\ \A i \in DOMAIN t : i <= Len(s) + 1

LEMMA Appended ==
    ASSUME NEW S, NEW s \in Seq(S), NEW e \in S
    PROVE  Append(s, e) \in Seq(S) /\ Extended(s, Append(s, e), e)
<1>1. /\ Append(s, e) \in Seq(S) /\ Len(Append(s, e)) = Len(s) + 1 /\ Len(s) \in Nat
      /\ DOMAIN s = 1 .. Len(s)
      /\ \A i \in 1 .. Len(s) : Append(s, e)[i] = s[i]
      /\ Append(s, e)[Len(s) + 1] = e
  BY AppendProperties, LenProperties
<1>2. DOMAIN Append(s, e) = 1 .. (Len(s) + 1)
  BY <1>1, LenProperties
<1> QED
  BY <1>1, <1>2 DEF Extended

-----------------------------------------------------------------------------
(* The steps                                                               *)

LEMMA StartInvInit == StartInit => StartInv
<1> SUFFICES ASSUME StartInit PROVE StartInv
  OBVIOUS
<1>1. RBACInv
  BY RBACInvInit DEF StartInit
<1>2. /\ phase = "tenants" /\ tenants \in TenantLists /\ next = 1 /\ parsed = {}
      /\ provider \in [Indices -> ProviderStates] /\ tenantIDs = EmptyMap
      /\ oidcs = <<>> /\ mTLSs = <<>>
      /\ oidcMiddlewares = EmptyMap /\ middlewares = EmptyMap
  BY DEF StartInit
<1>3. tenants \in Seq(Tenant) /\ Len(tenants) \in Nat
  BY <1>2, TenantAssumption
<1>4. /\ oidcs \in Seq(Indices) /\ mTLSs \in Seq(Indices) /\ DOMAIN oidcs = {} /\ DOMAIN mTLSs = {}
      /\ Len(oidcs) = 0
  BY <1>2
<1>5. StartTypes
  BY <1>2, <1>3, <1>4 DEF StartTypes, Phases
<1>6. CAsParsed
  BY <1>2 DEF CAsParsed, ParsedUpTo
<1>7. DOMAIN EmptyMap = {}
  BY DEF EmptyMap
<1>8. AddedUpTo(0) /\ HaveLast
  BY <1>2, <1>4, <1>7 DEF AddedUpTo, ListedUpTo, IdentifiedUpTo, HaveLast
<1>9. TenantsAdded
  BY <1>2, <1>7, <1>8 DEF TenantsAdded
<1>10. ProvidersTried /\ Merged
  BY <1>2, <1>7 DEF ProvidersTried, Merged
<1> QED
  BY <1>1, <1>5, <1>6, <1>9, <1>10 DEF StartInv

\* A fatal exit leaves everything else as it is.
LEMMA FatalInv ==
    ASSUME StartInv, Fatal, RBACInv', phase # "serving"
    PROVE  StartInv'
<1>1. /\ phase' = "fatal" /\ next' = next /\ tenants' = tenants /\ provider' = provider
      /\ parsed' = parsed /\ tenantIDs' = tenantIDs /\ oidcs' = oidcs /\ mTLSs' = mTLSs
      /\ oidcMiddlewares' = oidcMiddlewares /\ middlewares' = middlewares
  BY DEF Fatal, tenantVars
<1>2. StartTypes'
  BY <1>1 DEF StartInv, StartTypes, Phases, Indices
<1>3. CAsParsed'
  BY <1>1 DEF CAsParsed
<1>4. TenantsAdded'
  BY <1>1 DEF StartInv, TenantsAdded, HaveLast, LastOfName, Indices
<1>5. ProvidersTried' /\ Merged'
  BY <1>1 DEF StartInv, ProvidersTried, Merged, Indices
<1> QED
  BY <1>2, <1>3, <1>4, <1>5 DEF StartInv

LEMMA ReadFailsInv == ASSUME StartInv, ReadFails PROVE StartInv'
<1>1. Fatal /\ phase # "serving" /\ UNCHANGED rbacVars
  BY DEF ReadFails
<1> QED
  BY <1>1, FatalInv, RBACInvNext DEF StartInv

\* The first loop parses the CA of a tenant unless it has OIDC.
LEMMA LoadTenantInv == ASSUME StartInv, LoadTenant PROVE StartInv'
<1>0. RBACInv'
  BY RBACInvNext DEF StartInv, LoadTenant
<1>1. CASE Fatal
  BY <1>0, <1>1, FatalInv DEF LoadTenant
<1>2. CASE ~Fatal
  <2>1. /\ phase = "tenants" /\ phase' = "tenants" /\ next \in Indices /\ next' = next + 1
        /\ parsed' = IF (\E c \in tenants[next].oidc : c.issuerCA = "none") \/ tenants[next].mtls = {}
                     THEN parsed ELSE parsed \cup {next}
        /\ tenants' = tenants /\ provider' = provider
        /\ tenantIDs' = tenantIDs /\ oidcs' = oidcs /\ mTLSs' = mTLSs
        /\ oidcMiddlewares' = oidcMiddlewares /\ middlewares' = middlewares
    BY <1>2 DEF LoadTenant, Loop
  <2>2. Len(tenants) \in Nat /\ Indices = 1 .. Len(tenants) /\ next \in Nat
    BY TenantFacts DEF StartInv
  <2>3. StartTypes'
    BY <2>1, <2>2 DEF StartInv, StartTypes, Phases, Indices
  <2>4. CAsParsed'
    <3>1. ASSUME NEW i \in 1 .. next, tenants[i].oidc = {}, tenants[i].mtls # {}
          PROVE  i \in parsed'
      <4>1. CASE i = next
        BY <2>1, <3>1, <4>1
      <4>2. CASE i # next
        <5>1. i \in 1 .. (next - 1)
          BY <2>2, <4>2
        <5> QED
          BY <2>1, <3>1, <5>1 DEF StartInv, CAsParsed, ParsedUpTo
      <4> QED
        BY <4>1, <4>2
    <3>2. next' - 1 = next
      BY <2>1, <2>2
    <3>3. ParsedUpTo(next - 1)'
      BY <2>1, <3>1, <3>2 DEF ParsedUpTo
    <3> QED
      BY <2>1, <3>3 DEF CAsParsed
  <2>5. TenantsAdded'
    BY <2>1 DEF StartInv, TenantsAdded, HaveLast, LastOfName, Indices, AddedUpTo, ListedUpTo,
                IdentifiedUpTo
  <2>6. ProvidersTried' /\ Merged'
    BY <2>1 DEF StartInv, ProvidersTried, Merged, Indices
  <2> QED
    BY <1>0, <2>3, <2>4, <2>5, <2>6 DEF StartInv
<1> QED
  BY <1>1, <1>2

LEMMA EndTenantsInv == ASSUME StartInv, EndTenants PROVE StartInv'
<1>0. RBACInv'
  BY RBACInvNext DEF StartInv, EndTenants
<1>1. /\ phase = "tenants" /\ phase' = "rbac" /\ next \notin Indices /\ next' = 1
      /\ tenants' = tenants /\ provider' = provider /\ parsed' = parsed
      /\ tenantIDs' = tenantIDs /\ oidcs' = oidcs /\ mTLSs' = mTLSs
      /\ oidcMiddlewares' = oidcMiddlewares /\ middlewares' = middlewares
  BY DEF EndTenants, Goto, tenantVars
<1>2. Len(tenants) \in Nat /\ Indices = 1 .. Len(tenants) /\ next \in 1 .. (Len(tenants) + 1)
  BY TenantFacts DEF StartInv, StartTypes
<1>3. StartTypes'
  BY <1>1, <1>2 DEF StartInv, StartTypes, Phases, Indices
<1>4. next - 1 = Len(tenants)
  BY <1>1, <1>2
<1>5. CAsParsed'
  BY <1>1, <1>4 DEF StartInv, CAsParsed, ParsedUpTo
<1>6. TenantsAdded'
  BY <1>1 DEF StartInv, TenantsAdded, HaveLast, LastOfName, Indices, AddedUpTo, ListedUpTo,
              IdentifiedUpTo
<1>7. ProvidersTried' /\ Merged'
  BY <1>1 DEF StartInv, ProvidersTried, Merged, Indices
<1> QED
  BY <1>0, <1>3, <1>5, <1>6, <1>7 DEF StartInv

\* NewAuthorizer reads the RBAC file; the second loop begins when it is done.
LEMMA LoadRBACInv == ASSUME StartInv, LoadRBAC PROVE StartInv'
<1>0. RBACInv'
  BY RBACInvNext DEF StartInv, LoadRBAC
<1>1. /\ phase = "rbac"
      /\ tenants' = tenants /\ provider' = provider /\ parsed' = parsed
      /\ tenantIDs' = tenantIDs /\ oidcs' = oidcs /\ mTLSs' = mTLSs
      /\ oidcMiddlewares' = oidcMiddlewares /\ middlewares' = middlewares
  BY DEF LoadRBAC, tenantVars
<1>2. \/ phase' = "rbac" /\ next' = next
      \/ phase' = "adding" /\ next' = 1 /\ Loaded'
  BY <1>1 DEF LoadRBAC, Goto, Loaded, rbacVars
<1>3. Len(tenants) \in Nat /\ 1 \in 1 .. (Len(tenants) + 1)
  BY TenantFacts DEF StartInv
<1>4. StartTypes'
  BY <1>1, <1>2, <1>3 DEF StartInv, StartTypes, Phases, Indices
<1>5. CAsParsed'
  BY <1>1, <1>2 DEF StartInv, CAsParsed, ParsedUpTo, Phases
<1>6. AddedUpTo(0)' /\ HaveLast'
  BY <1>1 DEF StartInv, TenantsAdded, HaveLast, LastOfName, Indices, AddedUpTo, ListedUpTo,
              IdentifiedUpTo
<1>7. TenantsAdded'
  <2>1. next' = 1 => next' - 1 = 0
    OBVIOUS
  <2> QED
    BY <1>1, <1>2, <1>6, <2>1 DEF StartInv, TenantsAdded, Indices
<1>8. ProvidersTried' /\ Merged'
  BY <1>1, <1>2 DEF StartInv, ProvidersTried, Merged, Indices
<1> QED
  BY <1>0, <1>4, <1>5, <1>7, <1>8 DEF StartInv

LEMMA EndAddingInv == ASSUME StartInv, EndAdding PROVE StartInv'
<1>0. RBACInv'
  BY RBACInvNext DEF StartInv, EndAdding
<1>1. /\ phase = "adding" /\ phase' = "providers" /\ next \notin Indices /\ next' = 1
      /\ tenants' = tenants /\ provider' = provider /\ parsed' = parsed
      /\ tenantIDs' = tenantIDs /\ oidcs' = oidcs /\ mTLSs' = mTLSs
      /\ oidcMiddlewares' = oidcMiddlewares /\ middlewares' = middlewares
      /\ loaded' = loaded /\ roles' = roles /\ bound' = bound /\ bindings' = bindings
  BY DEF EndAdding, Goto, tenantVars, rbacVars
<1>2. /\ Len(tenants) \in Nat /\ Indices = 1 .. Len(tenants) /\ next \in 1 .. (Len(tenants) + 1)
      /\ Len(oidcs) \in Nat
  BY TenantFacts DEF StartInv, StartTypes
<1>3. StartTypes'
  BY <1>1, <1>2 DEF StartInv, StartTypes, Phases, Indices
<1>4. next - 1 = Len(tenants)
  BY <1>1, <1>2
<1>5. CAsParsed'
  BY <1>1 DEF StartInv, CAsParsed, ParsedUpTo, Phases, Loaded
<1>6. TenantsAdded'
  <2>0. AddedUpTo(Len(tenants)) /\ HaveLast
    BY <1>1, <1>4 DEF StartInv, TenantsAdded
  <2>1. AddedUpTo(Len(tenants))' /\ HaveLast'
    BY <1>1, <2>0 DEF HaveLast, LastOfName, AddedUpTo, ListedUpTo, IdentifiedUpTo
  <2> QED
    BY <1>1, <2>1 DEF StartInv, TenantsAdded, Indices
<1>7. ProvidersTried'
  <2>1. oidcMiddlewares' = EmptyMap /\ DOMAIN EmptyMap = {}
    BY <1>1 DEF StartInv, ProvidersTried, EmptyMap
  <2>2. next' - 1 = 0 /\ next' \in 1 .. (Len(oidcs') + 1)
    BY <1>1, <1>2
  <2> QED
    BY <1>1, <2>1, <2>2 DEF ProvidersTried, TriedUpTo
<1>8. Merged'
  BY <1>1 DEF StartInv, Merged
<1> QED
  BY <1>0, <1>3, <1>5, <1>6, <1>7, <1>8 DEF StartInv

\* The second loop, on a tenant with a method.
LEMMA AddTenantInv == ASSUME StartInv, AddTenant PROVE StartInv'
<1>0. RBACInv'
  BY RBACInvNext DEF StartInv, AddTenant
<1>1. CASE Fatal
  BY <1>0, <1>1, FatalInv DEF AddTenant
<1>2. CASE ~Fatal
  <2>1. /\ phase = "adding" /\ phase' = "adding" /\ next \in Indices /\ next' = next + 1
        /\ tenants' = tenants /\ provider' = provider /\ parsed' = parsed
        /\ tenantIDs' = Set(tenantIDs, tenants[next].name, tenants[next].id)
        /\ oidcMiddlewares' = oidcMiddlewares /\ middlewares' = middlewares
        /\ loaded' = loaded /\ roles' = roles /\ bound' = bound /\ bindings' = bindings
    BY <1>2 DEF AddTenant, Loop, rbacVars
  <2>2. \/ tenants[next].oidc # {} /\ oidcs' = Append(oidcs, next) /\ mTLSs' = mTLSs
        \/ tenants[next].oidc = {} /\ tenants[next].mtls # {}
           /\ mTLSs' = Append(mTLSs, next) /\ oidcs' = oidcs
    BY <1>2 DEF AddTenant
  <2>3. /\ Len(tenants) \in Nat /\ Indices = 1 .. Len(tenants) /\ next \in 1 .. Len(tenants)
        /\ oidcs \in Seq(Indices) /\ mTLSs \in Seq(Indices) /\ next \in Indices
    BY <2>1, TenantFacts DEF StartInv, StartTypes
  <2>4. next' - 1 = next /\ \A i : i \in 1 .. next <=> i \in 1 .. (next - 1) \/ i = next
    BY <2>1, <2>3
  <2>5. AddedUpTo(next - 1) /\ HaveLast
    BY <2>1 DEF StartInv, TenantsAdded
  <2>a. /\ Append(oidcs, next) \in Seq(Indices) /\ Append(mTLSs, next) \in Seq(Indices)
        /\ Extended(oidcs, Append(oidcs, next), next) /\ Extended(mTLSs, Append(mTLSs, next), next)
    BY <2>3, Appended
  <2>b. \/ tenants[next].oidc # {} /\ Extended(oidcs, oidcs', next) /\ mTLSs' = mTLSs
        \/ tenants[next].oidc = {} /\ tenants[next].mtls # {}
           /\ Extended(mTLSs, mTLSs', next) /\ oidcs' = oidcs
    BY <2>2, <2>a
  <2>6. oidcs' \in Seq(Indices) /\ mTLSs' \in Seq(Indices)
    BY <2>2, <2>3, <2>a
  <2>7. StartTypes'
    BY <2>1, <2>3, <2>6 DEF StartInv, StartTypes, Phases, Indices
  <2>8. CAsParsed'
    BY <2>1 DEF StartInv, CAsParsed, ParsedUpTo, Phases, Loaded
  <2>9. ListedUpTo(next - 1)'
    <3>1. Len(oidcs') <= next
      <4>1. Len(oidcs) <= next - 1 /\ Len(oidcs) \in Nat
        BY <2>3, <2>5 DEF AddedUpTo, ListedUpTo
      <4>2. Len(oidcs') = Len(oidcs) \/ Len(oidcs') = Len(oidcs) + 1
        BY <2>b DEF Extended
      <4> QED
        BY <2>3, <4>1, <4>2
    <3>2. ASSUME NEW x \in DOMAIN oidcs' PROVE oidcs'[x] \in 1 .. next /\ tenants[oidcs'[x]].oidc # {}
      <4>1. CASE x \in DOMAIN oidcs /\ oidcs'[x] = oidcs[x]
        BY <2>4, <2>5, <4>1 DEF AddedUpTo, ListedUpTo
      <4>2. CASE oidcs'[x] = next /\ tenants[next].oidc # {}
        BY <2>3, <4>2
      <4> QED
        BY <2>b, <4>1, <4>2 DEF Extended
    <3>3. ASSUME NEW x \in DOMAIN mTLSs'
          PROVE  /\ mTLSs'[x] \in 1 .. next
                 /\ tenants[mTLSs'[x]].oidc = {} /\ tenants[mTLSs'[x]].mtls # {}
      <4>1. CASE x \in DOMAIN mTLSs /\ mTLSs'[x] = mTLSs[x]
        BY <2>4, <2>5, <4>1 DEF AddedUpTo, ListedUpTo
      <4>2. CASE mTLSs'[x] = next /\ tenants[next].oidc = {} /\ tenants[next].mtls # {}
        BY <2>3, <4>2
      <4> QED
        BY <2>b, <4>1, <4>2 DEF Extended
    <3>4. /\ \A x \in DOMAIN oidcs : x \in DOMAIN oidcs' /\ oidcs'[x] = oidcs[x]
          /\ \A x \in DOMAIN mTLSs : x \in DOMAIN mTLSs' /\ mTLSs'[x] = mTLSs[x]
      BY <2>b DEF Extended
    <3>5. ASSUME NEW i \in 1 .. next
          PROVE  IF tenants[i].oidc # {} THEN \E x \in DOMAIN oidcs' : oidcs'[x] = i
                 ELSE \E x \in DOMAIN mTLSs' : mTLSs'[x] = i
      <4>1. CASE i = next
        <5>1. CASE tenants[next].oidc # {} /\ Extended(oidcs, oidcs', next)
          <6>1. Len(oidcs) + 1 \in DOMAIN oidcs' /\ oidcs'[Len(oidcs) + 1] = next
            BY <5>1 DEF Extended
          <6> QED
            BY <4>1, <5>1, <6>1
        <5>2. CASE tenants[next].oidc = {} /\ Extended(mTLSs, mTLSs', next)
          <6>1. Len(mTLSs) + 1 \in DOMAIN mTLSs' /\ mTLSs'[Len(mTLSs) + 1] = next
            BY <5>2 DEF Extended
          <6> QED
            BY <4>1, <5>2, <6>1
        <5> QED
          BY <2>b, <5>1, <5>2
      <4>2. CASE i \in 1 .. (next - 1)
        BY <2>5, <3>4, <4>2 DEF AddedUpTo, ListedUpTo
      <4> QED
        BY <2>4, <4>1, <4>2
    <3> QED
      BY <2>1, <2>4, <3>1, <3>2, <3>3, <3>5 DEF ListedUpTo
  <2>10. IdentifiedUpTo(next - 1)'
    <3> DEFINE name == tenants[next].name
    <3>1. /\ DOMAIN tenantIDs' = DOMAIN tenantIDs \cup {name} /\ tenantIDs'[name] = tenants[next].id
          /\ \A n \in DOMAIN tenantIDs : n # name => tenantIDs'[n] = tenantIDs[n]
      BY <2>1 DEF Set
    <3>2. ASSUME NEW i \in 1 .. next PROVE tenants[i].name \in DOMAIN tenantIDs'
      BY <2>4, <2>5, <3>1 DEF AddedUpTo, IdentifiedUpTo
    <3>3. ASSUME NEW n \in DOMAIN tenantIDs'
          PROVE  \E i \in 1 .. next : /\ tenants[i].name = n /\ tenantIDs'[n] = tenants[i].id
                                      /\ \A j \in 1 .. next : tenants[j].name = n => j <= i
      <4>1. CASE n = name
        <5>1. next \in 1 .. next /\ \A j \in 1 .. next : j <= next
          BY <2>3
        <5> QED
          BY <3>1, <4>1, <5>1
      <4>2. CASE n # name
        <5>1. PICK i \in 1 .. (next - 1) :
                /\ tenants[i].name = n /\ tenantIDs[n] = tenants[i].id
                /\ \A j \in 1 .. (next - 1) : tenants[j].name = n => j <= i
          BY <2>5, <3>1, <4>2 DEF AddedUpTo, IdentifiedUpTo
        <5>2. \A j \in 1 .. next : tenants[j].name = n => j <= i
          BY <2>4, <4>2, <5>1
        <5> QED
          BY <2>4, <3>1, <4>2, <5>1, <5>2
      <4> QED
        BY <4>1, <4>2
    <3> QED
      BY <2>1, <2>4, <3>2, <3>3 DEF IdentifiedUpTo
  <2>11. HaveLast'
    <3>1. CASE mTLSs' = mTLSs
      BY <2>1, <2>5, <3>1 DEF HaveLast, LastOfName
    <3>2. CASE Extended(mTLSs, mTLSs', next)
      <4> DEFINE end == Len(mTLSs) + 1
      <4>1. /\ end \in DOMAIN mTLSs' /\ mTLSs'[end] = next
            /\ \A x \in DOMAIN mTLSs : x \in DOMAIN mTLSs' /\ mTLSs'[x] = mTLSs[x]
            /\ \A x \in DOMAIN mTLSs' : x \in DOMAIN mTLSs \/ x = end
            /\ \A x \in DOMAIN mTLSs' : x <= end
        BY <3>2 DEF Extended
      <4> HIDE DEF end
      <4>2. ASSUME NEW x \in DOMAIN mTLSs'
            PROVE  \E k \in DOMAIN mTLSs' : /\ tenants[mTLSs'[k]].name = tenants[mTLSs'[x]].name
                                            /\ LastOfName(k)'
        <5>1. CASE tenants[mTLSs'[x]].name = tenants[next].name
          BY <2>1, <4>1, <5>1 DEF LastOfName
        <5>2. CASE tenants[mTLSs'[x]].name # tenants[next].name
          <6>1. x \in DOMAIN mTLSs
            BY <4>1, <5>2
          <6>2. PICK k \in DOMAIN mTLSs :
                  tenants[mTLSs[k]].name = tenants[mTLSs[x]].name /\ LastOfName(k)
            BY <2>5, <6>1 DEF HaveLast
          <6>3. LastOfName(k)'
            BY <2>1, <4>1, <5>2, <6>1, <6>2 DEF LastOfName
          <6> QED
            BY <4>1, <6>1, <6>2, <6>3
        <5> QED
          BY <5>1, <5>2
      <4> QED
        BY <2>1, <4>2 DEF HaveLast
    <3> QED
      BY <2>b, <3>1, <3>2
  <2>12. TenantsAdded'
    <3>1. DOMAIN tenantIDs' \subseteq {tenants[i].name : i \in Indices}
      BY <2>1 DEF Set, StartInv, TenantsAdded
    <3> QED
      BY <2>1, <2>9, <2>10, <2>11, <3>1 DEF TenantsAdded, AddedUpTo, Indices
  <2>13. ProvidersTried' /\ Merged'
    BY <2>1 DEF StartInv, ProvidersTried, Merged, Indices
  <2> QED
    BY <1>0, <2>7, <2>8, <2>12, <2>13 DEF StartInv
<1> QED
  BY <1>1, <1>2

\* In the loop of NewOIDC every index is on the list.
LEMMA ProviderPlace ==
    ASSUME StartInv, phase = "providers"
    PROVE  /\ Len(oidcs) \in Nat /\ DOMAIN oidcs = 1 .. Len(oidcs)
           /\ Len(tenants) \in Nat /\ Len(oidcs) <= Len(tenants)
           /\ next \in 1 .. (Len(oidcs) + 1) /\ TriedUpTo(next - 1)
           /\ \A x \in DOMAIN oidcs : oidcs[x] \in Indices
<1>1. oidcs \in Seq(Indices) /\ Len(tenants) \in Nat
  BY TenantFacts DEF StartInv, StartTypes
<1>2. Len(oidcs) <= Len(tenants)
  BY DEF StartInv, TenantsAdded, AddedUpTo, ListedUpTo
<1> QED
  BY <1>1, <1>2, LenProperties DEF StartInv, ProvidersTried

\* A provider that fails changes nothing; one that does not gets a middleware.
LEMMA ProviderInv == ASSUME StartInv, ProviderFails \/ NewProvider PROVE StartInv'
<1>0. RBACInv'
  BY RBACInvNext DEF StartInv, ProviderFails, NewProvider
<1>1. /\ phase = "providers" /\ phase' = "providers" /\ next' = next + 1 /\ next \in DOMAIN oidcs
      /\ tenants' = tenants /\ provider' = provider /\ parsed' = parsed
      /\ tenantIDs' = tenantIDs /\ oidcs' = oidcs /\ mTLSs' = mTLSs /\ middlewares' = middlewares
      /\ loaded' = loaded /\ roles' = roles /\ bound' = bound /\ bindings' = bindings
  BY DEF ProviderFails, NewProvider, Loop, tenantVars, rbacVars
<1>2. \/ provider[oidcs[next]] # "up" /\ oidcMiddlewares' = oidcMiddlewares
      \/ /\ provider[oidcs[next]] = "up"
         /\ oidcMiddlewares' = Set(oidcMiddlewares, tenants[oidcs[next]].name, oidcs[next])
  BY DEF ProviderFails, NewProvider, tenantVars
<1>3. /\ Len(oidcs) \in Nat /\ DOMAIN oidcs = 1 .. Len(oidcs)
      /\ Len(tenants) \in Nat /\ Len(oidcs) <= Len(tenants)
      /\ next \in 1 .. Len(oidcs) /\ TriedUpTo(next - 1)
      /\ \A x \in DOMAIN oidcs : oidcs[x] \in Indices
  BY <1>1, ProviderPlace
<1>4. /\ next' - 1 = next /\ next' \in 1 .. (Len(oidcs) + 1) /\ next' \in 1 .. (Len(tenants) + 1)
      /\ next \in 1 .. next
      /\ \A x : x \in 1 .. next <=> x \in 1 .. (next - 1) \/ x = next
  BY <1>1, <1>3
<1>5. StartTypes'
  BY <1>1, <1>4 DEF StartInv, StartTypes, Phases, Indices
<1>6. CAsParsed'
  BY <1>1 DEF StartInv, CAsParsed, ParsedUpTo, Phases, Loaded
<1>7. TenantsAdded'
  <2>0. AddedUpTo(Len(tenants)) /\ HaveLast
    BY <1>1 DEF StartInv, TenantsAdded
  <2>1. AddedUpTo(Len(tenants))' /\ HaveLast'
    BY <1>1, <2>0 DEF HaveLast, LastOfName, AddedUpTo, ListedUpTo, IdentifiedUpTo
  <2> QED
    BY <1>1, <2>1 DEF StartInv, TenantsAdded, Indices
<1>8. TriedUpTo(next - 1)' /\ \A n \in DOMAIN oidcMiddlewares' : oidcMiddlewares'[n] \in Indices
  <2>1. CASE provider[oidcs[next]] # "up" /\ oidcMiddlewares' = oidcMiddlewares
    <3>1. TriedUpTo(next)
      <4>1. ASSUME NEW n \in DOMAIN oidcMiddlewares
            PROVE  \E x \in 1 .. next : /\ oidcMiddlewares[n] = oidcs[x]
                                        /\ tenants[oidcs[x]].name = n /\ provider[oidcs[x]] = "up"
        BY <1>3, <1>4 DEF TriedUpTo
      <4>2. ASSUME NEW x \in 1 .. next, provider[oidcs[x]] = "up"
            PROVE  tenants[oidcs[x]].name \in DOMAIN oidcMiddlewares
        <5>1. x \in 1 .. (next - 1)
          BY <1>4, <2>1, <4>2
        <5> QED
          BY <1>3, <4>2, <5>1 DEF TriedUpTo
      <4> QED
        BY <4>1, <4>2 DEF TriedUpTo
    <3>2. TriedUpTo(next - 1)'
      BY <1>1, <1>4, <2>1, <3>1 DEF TriedUpTo
    <3>3. \A n \in DOMAIN oidcMiddlewares' : oidcMiddlewares'[n] \in Indices
      BY <2>1 DEF StartInv, ProvidersTried
    <3> QED
      BY <3>2, <3>3
  <2>2. CASE /\ provider[oidcs[next]] = "up"
             /\ oidcMiddlewares' = Set(oidcMiddlewares, tenants[oidcs[next]].name, oidcs[next])
    <3> DEFINE name == tenants[oidcs[next]].name
    <3>1. /\ DOMAIN oidcMiddlewares' = DOMAIN oidcMiddlewares \cup {name}
          /\ oidcMiddlewares'[name] = oidcs[next]
          /\ \A n \in DOMAIN oidcMiddlewares : n # name => oidcMiddlewares'[n] = oidcMiddlewares[n]
      BY <2>2 DEF Set
    <3>2. ASSUME NEW n \in DOMAIN oidcMiddlewares'
          PROVE  \E x \in 1 .. next : /\ oidcMiddlewares'[n] = oidcs[x]
                                      /\ tenants[oidcs[x]].name = n /\ provider[oidcs[x]] = "up"
      <4>1. CASE n = name
        BY <1>4, <2>2, <3>1, <4>1
      <4>2. CASE n # name
        BY <1>3, <1>4, <3>1, <4>2 DEF TriedUpTo
      <4> QED
        BY <4>1, <4>2
    <3>3. ASSUME NEW x \in 1 .. next, provider[oidcs[x]] = "up"
          PROVE  tenants[oidcs[x]].name \in DOMAIN oidcMiddlewares'
      BY <1>3, <1>4, <3>1, <3>3 DEF TriedUpTo
    <3>4. \A n \in DOMAIN oidcMiddlewares' : oidcMiddlewares'[n] \in Indices
      BY <1>3, <1>4, <3>2
    <3> QED
      BY <1>1, <1>4, <3>2, <3>3, <3>4 DEF TriedUpTo
  <2> QED
    BY <1>2, <2>1, <2>2
<1>9. ProvidersTried'
  BY <1>1, <1>4, <1>8 DEF ProvidersTried, Indices
<1>10. Merged'
  BY <1>1 DEF StartInv, Merged
<1> QED
  BY <1>0, <1>5, <1>6, <1>7, <1>9, <1>10 DEF StartInv

\* The last two steps change no list.
LEMMA EndProvidersInv == ASSUME StartInv, EndProviders \/ Merge PROVE StartInv'
<1>0. RBACInv'
  BY RBACInvNext DEF StartInv, EndProviders, Merge
<1>1. /\ \/ phase = "providers" /\ phase' = "mtls" /\ next \notin DOMAIN oidcs
            /\ middlewares' = middlewares
         \/ phase = "mtls" /\ phase' = "serving" /\ middlewares' = MergedMap
      /\ next' = 1
      /\ tenants' = tenants /\ provider' = provider /\ parsed' = parsed
      /\ tenantIDs' = tenantIDs /\ oidcs' = oidcs /\ mTLSs' = mTLSs
      /\ oidcMiddlewares' = oidcMiddlewares
      /\ loaded' = loaded /\ roles' = roles /\ bound' = bound /\ bindings' = bindings
  BY DEF EndProviders, Merge, Goto, tenantVars, rbacVars, MergedMap, MTLSNames
<1>2. Len(tenants) \in Nat /\ 1 \in 1 .. (Len(tenants) + 1)
  BY TenantFacts DEF StartInv
<1>3. StartTypes'
  BY <1>1, <1>2 DEF StartInv, StartTypes, Phases, Indices
<1>4. CAsParsed'
  BY <1>1 DEF StartInv, CAsParsed, ParsedUpTo, Phases, Loaded
<1>5. TenantsAdded'
  <2>0. AddedUpTo(Len(tenants)) /\ HaveLast
    BY <1>1 DEF StartInv, TenantsAdded
  <2>1. AddedUpTo(Len(tenants))' /\ HaveLast'
    BY <1>1, <2>0 DEF HaveLast, LastOfName, AddedUpTo, ListedUpTo, IdentifiedUpTo
  <2> QED
    BY <1>1, <2>1 DEF StartInv, TenantsAdded, Indices
<1>6. ProvidersTried'
  <2>1. TriedUpTo(Len(oidcs))
    <3>1. CASE phase = "mtls"
      BY <3>1 DEF StartInv, ProvidersTried
    <3>2. CASE phase = "providers" /\ next \notin DOMAIN oidcs
      <4>1. next - 1 = Len(oidcs) /\ TriedUpTo(next - 1)
        BY <3>2, ProviderPlace
      <4> QED
        BY <4>1
    <3> QED
      BY <1>1, <3>1, <3>2
  <2>2. TriedUpTo(Len(oidcs))'
    BY <1>1, <2>1 DEF TriedUpTo
  <2> QED
    BY <1>1, <2>2 DEF StartInv, ProvidersTried, Indices
<1>7. Merged'
  <2>1. MergedMap' = MergedMap
    BY <1>1 DEF MergedMap, MTLSNames, LastMTLS
  <2> QED
    BY <1>1, <2>1 DEF StartInv, Merged
<1> QED
  BY <1>0, <1>3, <1>4, <1>5, <1>6, <1>7 DEF StartInv

\* No step of the start breaks the invariant.
LEMMA StartInvNext == StartInv /\ Startup => StartInv'
BY ReadFailsInv, LoadTenantInv, EndTenantsInv, LoadRBACInv, AddTenantInv, EndAddingInv, ProviderInv,
   EndProvidersInv DEF Startup

\* It is a matter of the start's own variables.
LEMMA StartInvFrame == StartInv /\ UNCHANGED startVars => StartInv'
<1> SUFFICES ASSUME StartInv, UNCHANGED startVars PROVE StartInv'
  OBVIOUS
<1>0. /\ phase' = phase /\ next' = next /\ UNCHANGED rbacVars
      /\ tenants' = tenants /\ provider' = provider /\ parsed' = parsed
      /\ tenantIDs' = tenantIDs /\ oidcs' = oidcs /\ mTLSs' = mTLSs
      /\ oidcMiddlewares' = oidcMiddlewares /\ middlewares' = middlewares
  BY DEF startVars, tenantVars
<1>1. RBACInv' /\ StartTypes'
  BY <1>0, RBACInvNext DEF StartInv, StartTypes, Indices
<1>2. CAsParsed'
  <2>1. Loaded' <=> Loaded
    BY <1>0 DEF Loaded, rbacVars
  <2> QED
    BY <1>0, <2>1 DEF StartInv, CAsParsed, ParsedUpTo
<1>3. TenantsAdded'
  <2>1. \A k : AddedUpTo(k) => AddedUpTo(k)'
    BY <1>0 DEF AddedUpTo, ListedUpTo, IdentifiedUpTo
  <2>2. HaveLast'
    BY <1>0 DEF StartInv, TenantsAdded, HaveLast, LastOfName
  <2> QED
    BY <1>0, <2>1, <2>2 DEF StartInv, TenantsAdded, Indices
<1>4. ProvidersTried'
  BY <1>0 DEF StartInv, ProvidersTried, TriedUpTo, Indices
<1>5. Merged'
  BY <1>0 DEF StartInv, Merged, MergedMap, MTLSNames, LastMTLS
<1> QED
  BY <1>1, <1>2, <1>3, <1>4, <1>5 DEF StartInv


-----------------------------------------------------------------------------
(* What is served                                                          *)

\* LastMTLS finds an mTLS tenant of the name if there is one.
LEMMA LastMTLSFound ==
    ASSUME StartInv, NEW n
    PROVE  IF n \in MTLSNames
           THEN \E k \in DOMAIN mTLSs : LastMTLS(n) = mTLSs[k] /\ tenants[mTLSs[k]].name = n
           ELSE LastMTLS(n) = 0
<1> DEFINE named == {k \in DOMAIN mTLSs : tenants[mTLSs[k]].name = n}
           last(k) == \A l \in named : l <= k
<1>1. CASE n \notin MTLSNames
  <2>1. named = {}
    BY <1>1 DEF MTLSNames
  <2> QED
    BY <1>1, <2>1 DEF LastMTLS
<1>2. CASE n \in MTLSNames
  <2>1. PICK x \in DOMAIN mTLSs : tenants[mTLSs[x]].name = n
    BY <1>2 DEF MTLSNames
  <2>2. PICK k \in DOMAIN mTLSs : tenants[mTLSs[k]].name = n /\ LastOfName(k)
    BY <2>1 DEF StartInv, TenantsAdded, HaveLast
  <2>3. k \in named /\ last(k)
    BY <2>2 DEF LastOfName
  <2>4. LastMTLS(n) = mTLSs[CHOOSE y \in named : last(y)]
    BY <2>3 DEF LastMTLS
  <2> HIDE DEF last
  <2>5. (CHOOSE y \in named : last(y)) \in named
    BY <2>3
  <2> QED
    BY <1>2, <2>4, <2>5
<1> QED
  BY <1>1, <1>2

\* The merged middlewares, by method.
LEMMA Served ==
    ASSUME StartInv, phase = "serving", NEW n \in DOMAIN middlewares
    PROVE  \/ /\ middlewares[n].method = "mtls" /\ n \in MTLSNames
              /\ \E k \in DOMAIN mTLSs :
                   middlewares[n].tenant = mTLSs[k] /\ tenants[mTLSs[k]].name = n
           \/ /\ middlewares[n].method = "oidc" /\ n \in DOMAIN oidcMiddlewares
              /\ middlewares[n].tenant = oidcMiddlewares[n]
              /\ \E x \in DOMAIN oidcs : /\ oidcMiddlewares[n] = oidcs[x]
                                         /\ tenants[oidcs[x]].name = n /\ provider[oidcs[x]] = "up"
<1>1. /\ n \in DOMAIN oidcMiddlewares \cup MTLSNames
      /\ middlewares[n] = IF LastMTLS(n) # 0 THEN [tenant |-> LastMTLS(n), method |-> "mtls"]
                          ELSE [tenant |-> oidcMiddlewares[n], method |-> "oidc"]
  BY DEF StartInv, Merged, MergedMap
<1>2. \A k \in DOMAIN mTLSs : mTLSs[k] # 0
  <2>1. mTLSs \in Seq(Indices) /\ Len(tenants) \in Nat /\ Indices = 1 .. Len(tenants)
    BY TenantFacts DEF StartInv, StartTypes
  <2> QED
    BY <2>1
<1>3. CASE n \in MTLSNames
  <2>1. PICK k \in DOMAIN mTLSs : LastMTLS(n) = mTLSs[k] /\ tenants[mTLSs[k]].name = n
    BY <1>3, LastMTLSFound
  <2> QED
    BY <1>1, <1>2, <1>3, <2>1
<1>4. CASE n \notin MTLSNames
  <2>1. LastMTLS(n) = 0
    BY <1>4, LastMTLSFound
  <2>2. n \in DOMAIN oidcMiddlewares /\ middlewares[n] = [tenant |-> oidcMiddlewares[n], method |-> "oidc"]
    BY <1>1, <1>4, <2>1
  <2>3. TriedUpTo(Len(oidcs)) /\ DOMAIN oidcs = 1 .. Len(oidcs)
    BY LenProperties DEF StartInv, StartTypes, ProvidersTried
  <2> QED
    BY <2>2, <2>3 DEF TriedUpTo
<1> QED
  BY <1>3, <1>4

\* Every name that is served is that of the tenant whose configuration it has,
\* and the method is one that tenant has.
LEMMA ServedEntry ==
    ASSUME StartInv, phase = "serving", NEW n \in DOMAIN middlewares
    PROVE  LET e == middlewares[n].tenant IN
           /\ e \in Indices /\ tenants[e].name = n /\ middlewares[n].method \in Method
           /\ middlewares[n] = [tenant |-> e, method |-> middlewares[n].method]
           /\ middlewares[n].method = "mtls" => tenants[e].oidc = {} /\ tenants[e].mtls # {}
           /\ middlewares[n].method = "oidc" => tenants[e].oidc # {} /\ provider[e] = "up"
<1>1. /\ ListedUpTo(Len(tenants)) /\ Len(tenants) \in Nat /\ Indices = 1 .. Len(tenants)
      /\ middlewares[n] = IF LastMTLS(n) # 0 THEN [tenant |-> LastMTLS(n), method |-> "mtls"]
                          ELSE [tenant |-> oidcMiddlewares[n], method |-> "oidc"]
  BY TenantFacts DEF StartInv, TenantsAdded, AddedUpTo, Merged, MergedMap
<1>2. middlewares[n] = [tenant |-> middlewares[n].tenant, method |-> middlewares[n].method]
  BY <1>1
<1>3. CASE /\ middlewares[n].method = "mtls"
           /\ \E k \in DOMAIN mTLSs : middlewares[n].tenant = mTLSs[k] /\ tenants[mTLSs[k]].name = n
  BY <1>1, <1>2, <1>3 DEF ListedUpTo, Method
<1>4. CASE /\ middlewares[n].method = "oidc"
           /\ \E x \in DOMAIN oidcs : /\ middlewares[n].tenant = oidcs[x]
                                      /\ tenants[oidcs[x]].name = n /\ provider[oidcs[x]] = "up"
  BY <1>1, <1>2, <1>4 DEF ListedUpTo, Method
<1> QED
  BY <1>3, <1>4, Served

LEMMA StartTypeCorrect == StartInv => StartTypeOK
<1> SUFFICES ASSUME StartInv PROVE StartTypeOK
  OBVIOUS
<1>1. /\ phase \in Phases /\ tenants \in Seq(Tenant) /\ next \in 1 .. (Len(tenants) + 1)
      /\ provider \in [Indices -> ProviderStates] /\ parsed \subseteq Indices
      /\ oidcs \in Seq(Indices) /\ mTLSs \in Seq(Indices) /\ RBACTypeOK
  BY TenantFacts DEF StartInv, StartTypes, RBACInv
<1>2. ASSUME NEW n \in DOMAIN middlewares PROVE middlewares[n] \in [tenant : Indices, method : Method]
  <2>1. CASE phase = "serving"
    BY <1>2, <2>1, ServedEntry
  <2>2. CASE phase # "serving"
    BY <1>2, <2>2 DEF StartInv, Merged, EmptyMap
  <2> QED
    BY <2>1, <2>2
<1> QED
  BY <1>1, <1>2 DEF StartInv, TenantsAdded, ProvidersTried, StartTypeOK, Phases

LEMMA ParsedCAs == StartInv => MTLSHasCA
<1> SUFFICES ASSUME StartInv, phase = "serving", NEW n \in DOMAIN middlewares,
                    middlewares[n].method = "mtls"
             PROVE  middlewares[n].tenant \in parsed
  BY DEF MTLSHasCA
<1>1. ParsedUpTo(Len(tenants)) /\ Indices = 1 .. Len(tenants)
  BY TenantFacts DEF StartInv, CAsParsed, Phases
<1> QED
  BY <1>1, ServedEntry DEF ParsedUpTo

LEMMA OwnTenants == StartInv => OwnConfiguration
<1> SUFFICES ASSUME StartInv, phase = "serving", NEW i \in Indices, Unique(i)
             PROVE  /\ tenantIDs[tenants[i].name] = tenants[i].id
                    /\ tenants[i].name \in DOMAIN middlewares =>
                         middlewares[tenants[i].name].tenant = i
  BY DEF OwnConfiguration
<1>1. IdentifiedUpTo(Len(tenants)) /\ Indices = 1 .. Len(tenants)
  BY TenantFacts DEF StartInv, TenantsAdded, AddedUpTo
<1>2. tenantIDs[tenants[i].name] = tenants[i].id
  <2>1. tenants[i].name \in DOMAIN tenantIDs
    BY <1>1 DEF IdentifiedUpTo
  <2>2. PICK j \in Indices : tenants[j].name = tenants[i].name
                             /\ tenantIDs[tenants[i].name] = tenants[j].id
    BY <1>1, <2>1 DEF IdentifiedUpTo
  <2>3. j = i
    BY <2>2 DEF Unique
  <2> QED
    BY <2>2, <2>3
<1>3. ASSUME tenants[i].name \in DOMAIN middlewares
      PROVE  middlewares[tenants[i].name].tenant = i
  BY <1>3, ServedEntry DEF Unique
<1> QED
  BY <1>2, <1>3

\* A tenant of the mTLS list is served under its name; a tenant of the OIDC
\* list is if its provider is up.
LEMMA FailedTenants == StartInv => FailureContained
<1> SUFFICES ASSUME StartInv, phase = "serving", NEW i \in Indices
             PROVE  LET failed == tenants[i].oidc # {} /\ provider[i] # "up"
                        served == tenants[i].name \in DOMAIN middlewares
                    IN (~failed => served) /\ (Unique(i) /\ failed => ~served)
  BY DEF FailureContained
<1>1. /\ ListedUpTo(Len(tenants)) /\ Indices = 1 .. Len(tenants)
      /\ TriedUpTo(Len(oidcs)) /\ DOMAIN oidcs = 1 .. Len(oidcs)
      /\ DOMAIN middlewares = DOMAIN oidcMiddlewares \cup MTLSNames
  BY TenantFacts, LenProperties DEF StartInv, StartTypes, TenantsAdded, AddedUpTo, ProvidersTried,
                                    Merged, MergedMap
<1>2. ASSUME tenants[i].oidc = {} PROVE tenants[i].name \in DOMAIN middlewares
  <2>1. PICK x \in DOMAIN mTLSs : mTLSs[x] = i
    BY <1>1, <1>2 DEF ListedUpTo
  <2> QED
    BY <1>1, <2>1 DEF MTLSNames
<1>3. ASSUME tenants[i].oidc # {}, provider[i] = "up" PROVE tenants[i].name \in DOMAIN middlewares
  <2>1. PICK x \in DOMAIN oidcs : oidcs[x] = i
    BY <1>1, <1>3 DEF ListedUpTo
  <2> QED
    BY <1>1, <1>3, <2>1 DEF TriedUpTo
<1>4. ASSUME Unique(i), tenants[i].oidc # {}, provider[i] # "up",
             tenants[i].name \in DOMAIN middlewares
      PROVE  FALSE
  <2> DEFINE e == middlewares[tenants[i].name].tenant
  <2>1. /\ e \in Indices /\ tenants[e].name = tenants[i].name
        /\ middlewares[tenants[i].name].method \in Method
        /\ middlewares[tenants[i].name].method = "mtls" => tenants[e].oidc = {}
        /\ middlewares[tenants[i].name].method = "oidc" => provider[e] = "up"
    BY <1>4, ServedEntry
  <2>2. e = i
    BY <1>4, <2>1 DEF Unique
  <2> QED
    BY <1>4, <2>1, <2>2 DEF Method
<1> QED
  BY <1>2, <1>3, <1>4
=============================================================================
