----------------------------- MODULE RBACProofs -----------------------------
(***************************************************************************)
(* Proofs about RBAC, for every RBAC file: the maps that NewAuthorizer     *)
(* builds hold exactly the grants of the file.                             *)
(***************************************************************************)
EXTENDS RBAC, TLAPS

\* The index of the first loop: it has the name of every role it has passed,
\* and stands for the last of them with that name.
RolesIndexed ==
    /\ \A i \in 1 .. loaded : roles[i].name \in DOMAIN rs
    /\ \A n \in DOMAIN rs : \E i \in 1 .. loaded :
         /\ rs[n] = roles[i] /\ roles[i].name = n
         /\ \A j \in 1 .. loaded : roles[j].name = n => j <= i

\* Binding b gives g through role i.
Gives(b, i, g) ==
    /\ roles[i].name \in bindings[b].roles /\ InForce(i)
    /\ g.permission \in roles[i].permissions /\ g.resource \in roles[i].resources
    /\ g.tenant \in roles[i].tenants /\ g.subject \in bindings[b].subjects

\* The maps of the second loop: exactly what the bindings passed so far give.
GrantsExact ==
    \A g \in Grant : g \in grants <=> \E b \in 1 .. bound, i \in DOMAIN roles : Gives(b, i, g)

BindsLast == bound = 0 \/ loaded = Len(roles)

RBACInv == RBACTypeOK /\ RolesIndexed /\ GrantsExact /\ BindsLast

\* NewAuthorizer starts with empty maps, which satisfy the invariant.
LEMMA RBACInvInit == RBACInit => RBACInv
<1> SUFFICES ASSUME RBACInit PROVE RBACInv
  OBVIOUS
<1>1. RBACTypeOK
  BY FileAssumption DEF RBACInit, RBACTypeOK
<1>2. RolesIndexed
  BY DEF RBACInit, RolesIndexed
<1>3. GrantsExact
  BY DEF RBACInit, GrantsExact
<1>4. BindsLast
  BY DEF RBACInit, BindsLast
<1> QED
  BY <1>1, <1>2, <1>3, <1>4 DEF RBACInv

\* A pass of the first loop replaces an earlier role of the same name, and keeps
\* the invariant.
LEMMA InvLoadRole == RBACInv /\ LoadRole => RBACInv'
<1> SUFFICES ASSUME RBACInv, LoadRole PROVE RBACInv'
  OBVIOUS
<1> DEFINE k == loaded + 1
           role == roles[k]
<1>1. /\ roles' = roles /\ bindings' = bindings /\ bound' = bound /\ grants' = grants
      /\ loaded' = k /\ loaded \in Nat /\ k \in 1 .. Len(roles) /\ role \in Role
      /\ DOMAIN roles = 1 .. Len(roles)
  BY DEF RBACInv, RBACTypeOK, LoadRole
<1>2. /\ DOMAIN rs' = DOMAIN rs \cup {role.name}
      /\ rs'[role.name] = role
      /\ \A n \in DOMAIN rs : n # role.name => rs'[n] = rs[n]
  BY DEF LoadRole
<1>3. bound = 0
  <2>1. loaded < Len(roles) /\ Len(roles) \in Nat /\ loaded \in Nat
    BY DEF RBACInv, RBACTypeOK, LoadRole
  <2> QED
    BY <2>1 DEF RBACInv, BindsLast
<1>4. RolesIndexed'
  <2>1. ASSUME NEW i \in 1 .. loaded' PROVE roles'[i].name \in DOMAIN rs'
    <3>1. CASE i = k
      BY <3>1, <1>1, <1>2
    <3>2. CASE i # k
      <4>1. i \in 1 .. loaded
        BY <3>2, <1>1
      <4> QED
        BY <4>1, <1>1, <1>2 DEF RBACInv, RolesIndexed
    <3> QED
      BY <3>1, <3>2
  <2>2. ASSUME NEW n \in DOMAIN rs'
        PROVE \E i \in 1 .. loaded' :
                /\ rs'[n] = roles'[i] /\ roles'[i].name = n
                /\ \A j \in 1 .. loaded' : roles'[j].name = n => j <= i
    <3>1. CASE n = role.name
      <4>1. k \in 1 .. loaded' /\ \A j \in 1 .. loaded' : j <= k
        BY <1>1
      <4> QED
        BY <3>1, <4>1, <1>1, <1>2
    <3>2. CASE n # role.name
      <4>1. PICK i \in 1 .. loaded : /\ rs[n] = roles[i] /\ roles[i].name = n
                                     /\ \A j \in 1 .. loaded : roles[j].name = n => j <= i
        BY <3>2, <1>2 DEF RBACInv, RolesIndexed
      <4>2. i \in 1 .. loaded' /\ \A j \in 1 .. loaded' : j = k \/ j \in 1 .. loaded
        BY <1>1
      <4> QED
        BY <3>2, <4>1, <4>2, <1>1, <1>2
    <3> QED
      BY <3>1, <3>2
  <2> QED
    BY <2>1, <2>2 DEF RolesIndexed
<1>5. RBACTypeOK'
  <2>1. \A n \in DOMAIN rs' : \E i \in 1 .. loaded' : rs'[n] = roles'[i] /\ roles'[i].name = n
    BY <1>4 DEF RolesIndexed
  <2> QED
    BY <2>1, <1>1 DEF RBACInv, RBACTypeOK
<1>6. GrantsExact'
  BY <1>1 DEF RBACInv, GrantsExact, Gives, InForce
<1>7. BindsLast'
  BY <1>1, <1>3 DEF BindsLast
<1> QED
  BY <1>4, <1>5, <1>6, <1>7 DEF RBACInv

\* Once all roles are loaded, the index and the roles in force are the same.
LEMMA IndexIsForce ==
    ASSUME RBACInv, loaded = Len(roles)
    PROVE  /\ \A n \in DOMAIN rs : \E i \in DOMAIN roles :
                 rs[n] = roles[i] /\ roles[i].name = n /\ InForce(i)
           /\ \A i \in DOMAIN roles : InForce(i) => /\ roles[i].name \in DOMAIN rs
                                                   /\ rs[roles[i].name] = roles[i]
<1>1. DOMAIN roles = 1 .. loaded
  BY DEF RBACInv, RBACTypeOK
<1>2. ASSUME NEW n \in DOMAIN rs
      PROVE \E i \in DOMAIN roles : rs[n] = roles[i] /\ roles[i].name = n /\ InForce(i)
  BY <1>1 DEF RBACInv, RolesIndexed, InForce
<1>3. ASSUME NEW i \in DOMAIN roles, InForce(i)
      PROVE roles[i].name \in DOMAIN rs /\ rs[roles[i].name] = roles[i]
  <2>1. roles[i].name \in DOMAIN rs
    BY <1>1 DEF RBACInv, RolesIndexed
  <2>2. PICK j \in DOMAIN roles :
          rs[roles[i].name] = roles[j] /\ roles[j].name = roles[i].name /\ InForce(j)
    BY <1>2, <2>1
  <2>3. i = j
    BY <2>2, <1>3, <1>1 DEF InForce, RBACInv, RBACTypeOK
  <2> QED
    BY <2>1, <2>2, <2>3
<1> QED
  BY <1>2, <1>3

\* A pass of the second loop adds exactly what its binding gives.
LEMMA InvBind == RBACInv /\ Bind => RBACInv'
<1> SUFFICES ASSUME RBACInv, Bind PROVE RBACInv'
  OBVIOUS
<1> DEFINE k == bound + 1
           rb == bindings[k]
           new == UNION {Entries(rs[n], rb) : n \in rb.roles \cap DOMAIN rs}
<1>1. /\ roles' = roles /\ bindings' = bindings /\ loaded' = loaded /\ rs' = rs
      /\ loaded = Len(roles) /\ bound \in Nat /\ bound' = k
      /\ k \in 1 .. Len(bindings) /\ rb \in RoleBinding
      /\ roles \in Seq(Role) /\ DOMAIN roles = 1 .. Len(roles)
  BY DEF RBACInv, RBACTypeOK, Bind
<1>2. grants' = grants \cup new
  BY DEF Bind
<1>3. ASSUME NEW i \in DOMAIN roles
      PROVE  roles[i] \in Role
  BY <1>1
<1>4. ASSUME NEW n \in rb.roles \cap DOMAIN rs
      PROVE  Entries(rs[n], rb) \subseteq Grant
  <2>1. PICK i \in DOMAIN roles : rs[n] = roles[i]
    BY <1>1, IndexIsForce
  <2>2. rs[n] \in Role
    BY <2>1, <1>3
  <2> QED
    BY <2>2, <1>1 DEF Entries, Grant, Role, RoleBinding, Permissions
<1>5. new \subseteq Grant
  BY <1>4
<1>6. ASSUME NEW g \in Grant
      PROVE  g \in new <=> \E i \in DOMAIN roles : Gives(k, i, g)
  <2>1. ASSUME NEW role \in Role
        PROVE  g \in Entries(role, rb) <=>
                 /\ g.permission \in role.permissions /\ g.resource \in role.resources
                 /\ g.tenant \in role.tenants /\ g.subject \in rb.subjects
    <3>1. ASSUME g \in Entries(role, rb)
          PROVE /\ g.permission \in role.permissions /\ g.resource \in role.resources
                /\ g.tenant \in role.tenants /\ g.subject \in rb.subjects
      BY <3>1 DEF Entries
    <3>2. ASSUME g.permission \in role.permissions, g.resource \in role.resources,
                 g.tenant \in role.tenants, g.subject \in rb.subjects
          PROVE g \in Entries(role, rb)
      <4>1. g = [resource |-> g.resource, tenant |-> g.tenant, permission |-> g.permission,
                 subject |-> g.subject]
        BY DEF Grant
      <4>2. g.permission \in role.permissions \cap Permissions
        BY <3>2 DEF Grant
      <4> QED
        BY <4>1, <4>2, <3>2 DEF Entries
    <3> QED
      BY <3>1, <3>2
  <2>2. ASSUME g \in new PROVE \E i \in DOMAIN roles : Gives(k, i, g)
    <3>1. PICK n \in rb.roles \cap DOMAIN rs : g \in Entries(rs[n], rb)
      BY <2>2
    <3>2. PICK i \in DOMAIN roles : rs[n] = roles[i] /\ roles[i].name = n /\ InForce(i)
      BY <1>1, IndexIsForce
    <3> QED
      BY <3>1, <3>2, <2>1, <1>3 DEF Gives
  <2>3. ASSUME NEW i \in DOMAIN roles, Gives(k, i, g) PROVE g \in new
    <3>1. roles[i].name \in rb.roles \cap DOMAIN rs /\ rs[roles[i].name] = roles[i]
      BY <2>3, <1>1, IndexIsForce DEF Gives
    <3>2. g \in Entries(rs[roles[i].name], rb)
      BY <3>1, <2>3, <2>1, <1>3 DEF Gives
    <3> QED
      BY <3>1, <3>2
  <2> QED
    BY <2>2, <2>3
<1>7. GrantsExact'
  <2> SUFFICES ASSUME NEW g \in Grant
               PROVE  g \in grants' <=> \E b \in 1 .. bound', i \in DOMAIN roles' : Gives(b, i, g)'
    BY DEF GrantsExact
  <2>1. \A b \in 1 .. bound', i \in DOMAIN roles : Gives(b, i, g)' <=> Gives(b, i, g)
    BY <1>1 DEF Gives, InForce
  <2>2. g \in grants <=> \E b \in 1 .. bound, i \in DOMAIN roles : Gives(b, i, g)
    BY DEF RBACInv, GrantsExact
  <2>3. \A b : b \in 1 .. bound' <=> b \in 1 .. bound \/ b = k
    BY <1>1
  <2> QED
    BY <2>1, <2>2, <2>3, <1>1, <1>2, <1>6
<1>8. RBACTypeOK'
  BY <1>1, <1>2, <1>5 DEF RBACInv, RBACTypeOK
<1>9. RolesIndexed' /\ BindsLast'
  BY <1>1 DEF RBACInv, RolesIndexed, BindsLast
<1> QED
  BY <1>7, <1>8, <1>9 DEF RBACInv

\* Both loops keep the invariant.
LEMMA RBACInvNext == RBACInv /\ [RBACNext]_rbacVars => RBACInv'
<1> SUFFICES ASSUME RBACInv, [RBACNext]_rbacVars PROVE RBACInv'
  OBVIOUS
<1>1. CASE LoadRole
  BY <1>1, InvLoadRole
<1>2. CASE Bind
  BY <1>2, InvBind
<1>3. CASE UNCHANGED rbacVars
  BY <1>3 DEF rbacVars, RBACInv, RBACTypeOK, RolesIndexed, GrantsExact, Gives, InForce, BindsLast
<1> QED
  BY <1>1, <1>2, <1>3 DEF RBACNext

\* The strengthened invariant holds of every behaviour of NewAuthorizer.
THEOREM RBACInvariance == RBACSpec => []RBACInv
BY RBACInvInit, RBACInvNext, PTL DEF RBACSpec

\* Parse and NewAuthorizer keep their state well typed: the index holds roles of
\* the file under their names, and only known permissions become grants.
THEOREM RBACTypeCorrect == RBACSpec => []RBACTypeOK
<1>1. RBACInv => RBACTypeOK
  BY DEF RBACInv
<1> QED
  BY <1>1, RBACInvariance, PTL

\* A look-up in the maps succeeds exactly if the grant is there.
LEMMA LookUp ==
    ASSUME RBACInv, NEW p \in Permissions, NEW r \in STRING, NEW t \in STRING, NEW s \in Subject
    PROVE  s \in {g.subject : g \in {h \in grants : /\ h.resource = r /\ h.tenant = t
                                                    /\ h.permission = p}}
           <=> \E b \in 1 .. bound, i \in DOMAIN roles :
                 Gives(b, i, [resource |-> r, tenant |-> t, permission |-> p, subject |-> s])
<1> DEFINE G == [resource |-> r, tenant |-> t, permission |-> p, subject |-> s]
<1>1. G \in Grant
  BY DEF Grant
<1>2. G \in grants <=> \E b \in 1 .. bound, i \in DOMAIN roles : Gives(b, i, G)
  BY <1>1 DEF RBACInv, GrantsExact
<1>3. ASSUME NEW g \in grants, g.resource = r, g.tenant = t, g.permission = p, g.subject = s
      PROVE  g = G
  <2>1. g \in Grant
    BY DEF RBACInv, RBACTypeOK
  <2> QED
    BY <2>1, <1>3 DEF Grant
<1> QED
  BY <1>2, <1>3

\* Once all bindings are read, the maps answer what the file says, also about
\* names that the file does not have.
LEMMA ExactForAll ==
    ASSUME RBACInv, Loaded, NEW s, NEW gs, NEW p \in Permissions, NEW r, NEW t
    PROVE  Authorize(s, gs, p, r, t) <=> Granted(s, gs, p, r, t)
<1>1. bound = Len(bindings) /\ DOMAIN bindings = 1 .. bound
  BY DEF RBACInv, RBACTypeOK, Loaded
<1> DEFINE U == [name |-> s, kind |-> "user"]
           Grp(x) == [name |-> x, kind |-> "group"]
           pmap == {g.subject : g \in {h \in grants : /\ h.resource = r /\ h.tenant = t
                                                      /\ h.permission = p}}
           Fits(i) == /\ InForce(i) /\ p \in roles[i].permissions
                      /\ r \in roles[i].resources /\ t \in roles[i].tenants
           Has(x) == \E b \in DOMAIN bindings, i \in DOMAIN roles :
                       x \in bindings[b].subjects /\ roles[i].name \in bindings[b].roles /\ Fits(i)
<1>2. ASSUME NEW x, x \in pmap PROVE x \in Subject /\ r \in STRING /\ t \in STRING
  BY <1>2 DEF RBACInv, RBACTypeOK, Grant
<1>3. ASSUME NEW x, Has(x) PROVE x \in Subject /\ r \in STRING /\ t \in STRING
  <2>1. /\ \A b \in DOMAIN bindings : bindings[b] \in RoleBinding
        /\ \A i \in DOMAIN roles : roles[i] \in Role
    BY DEF RBACInv, RBACTypeOK
  <2> QED
    BY <1>3, <2>1 DEF Role, RoleBinding
<1>4. ASSUME NEW x PROVE x \in pmap <=> Has(x)
  <2>1. ASSUME x \in Subject, r \in STRING, t \in STRING PROVE x \in pmap <=> Has(x)
    <3>1. x \in pmap <=> \E b \in 1 .. bound, i \in DOMAIN roles :
            Gives(b, i, [resource |-> r, tenant |-> t, permission |-> p, subject |-> x])
      BY <2>1, LookUp
    <3> QED
      BY <3>1, <1>1 DEF Gives
  <2> HIDE DEF pmap, Has
  <2> QED
    BY <1>2, <1>3, <2>1
<1>5. Authorize(s, gs, p, r, t) <=> U \in pmap \/ \E x \in gs : Grp(x) \in pmap
  BY DEF Authorize
<1>6. Granted(s, gs, p, r, t) <=> Has(U) \/ \E x \in gs : Has(Grp(x))
  BY DEF Granted, Holds
<1> QED
  BY <1>4, <1>5, <1>6

LEMMA ExactFromInv == RBACInv => AuthorizeExact
<1> SUFFICES ASSUME RBACInv, Loaded,
                    NEW s \in Names, NEW gs \in SUBSET Names, NEW p \in Permissions,
                    NEW r \in Resources, NEW t \in TenantNames
             PROVE  Authorize(s, gs, p, r, t) <=> Granted(s, gs, p, r, t)
  BY DEF AuthorizeExact
<1> QED
  BY ExactForAll

\* For every RBAC file, Authorize answers what the file says: the maps that the
\* nested loops of NewAuthorizer build have lost and added nothing.
THEOREM AuthorizerIsExact == RBACSpec => []AuthorizeExact
BY RBACInvariance, ExactFromInv, PTL

=============================================================================
