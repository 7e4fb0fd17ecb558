-------------------------------- MODULE RBAC --------------------------------
(***************************************************************************)
(* The authorizer: rbac/rbac.go.  Parse hands the roles and the bindings   *)
(* of the RBAC file to NewAuthorizer, which indexes the roles by name and  *)
(* then turns every binding into entries of nested maps: resource, tenant, *)
(* permission, subject.  Authorize looks a request up in them.             *)
(*                                                                         *)
(* The nested maps are the set "grants" of their entries.  The lists in a  *)
(* role or a binding are sets: neither order nor repetition matters.       *)
(***************************************************************************)
EXTENDS Naturals, Sequences

CONSTANTS
    RoleLists,      \* the lists of roles an RBAC file may hold
    BindingLists,   \* the lists of role bindings an RBAC file may hold
    Kinds           \* the kinds of subjects an RBAC file may name

Permissions == {"read", "write"}

\* A file may name permissions and kinds of subjects that the code does not know.
Subject == [name : STRING, kind : Kinds]
Role == [name : STRING, resources : SUBSET STRING, tenants : SUBSET STRING,
         permissions : SUBSET STRING]
RoleBinding == [subjects : SUBSET Subject, roles : SUBSET STRING]

ASSUME KindAssumption == {"user", "group"} \subseteq Kinds
ASSUME FileAssumption ==
    RoleLists \subseteq Seq(Role) /\ BindingLists \subseteq Seq(RoleBinding)

VARIABLES
    roles,      \* the roles of the file
    bindings,   \* the role bindings of the file
    loaded,     \* how many roles the first loop has passed
    bound,      \* how many bindings the second loop has passed
    rs,         \* role name -> role
    grants      \* the entries of the maps

rbacVars == <<roles, bindings, loaded, bound, rs, grants>>

Grant == [resource : STRING, tenant : STRING, permission : Permissions, subject : Subject]

\* The types of NewAuthorizer's state (lines 106-114).
RBACTypeOK ==
    /\ roles \in Seq(Role) /\ bindings \in Seq(RoleBinding)
    /\ loaded \in 0 .. Len(roles) /\ bound \in 0 .. Len(bindings)
    /\ \A n \in DOMAIN rs : \E i \in 1 .. loaded : rs[n] = roles[i] /\ roles[i].name = n
    /\ grants \subseteq Grant

RBACInit ==
    /\ roles \in RoleLists /\ bindings \in BindingLists
    /\ loaded = 0 /\ bound = 0
    /\ rs = [n \in {} |-> n]
    /\ grants = {}

MutLoadRole ==
    /\ loaded < Len(roles)
    /\ LET role == roles[loaded + 1] IN
         rs' = [n \in DOMAIN rs \cup {role.name} |-> IF n \in DOMAIN rs THEN rs[n] ELSE role]
    /\ loaded' = loaded + 1
    /\ UNCHANGED <<roles, bindings, bound, grants>>

\* A later role replaces an earlier one of the same name.
LoadRole ==
    /\ loaded < Len(roles)
    /\ LET role == roles[loaded + 1] IN
         rs' = [n \in DOMAIN rs \cup {role.name} |-> IF n = role.name THEN role ELSE rs[n]]
    /\ loaded' = loaded + 1
    /\ UNCHANGED <<roles, bindings, bound, grants>>

MutEntries(role, rb) ==
    {[resource |-> r, tenant |-> t, permission |-> p, subject |-> s] :
        r \in role.resources, t \in role.tenants,
        p \in role.permissions, s \in rb.subjects}

\* What a role gives to the subjects of a binding.  Permissions that the code
\* does not know give nothing.
Entries(role, rb) ==
    {[resource |-> r, tenant |-> t, permission |-> p, subject |-> s] :
        r \in role.resources, t \in role.tenants,
        p \in role.permissions \cap Permissions, s \in rb.subjects}

\* Role names that no role has are skipped.
Bind ==
    /\ loaded = Len(roles) /\ bound < Len(bindings)
    /\ LET rb == bindings[bound + 1] IN
         grants' = grants \cup UNION {Entries(rs[n], rb) : n \in rb.roles \cap DOMAIN rs}
    /\ bound' = bound + 1
    /\ UNCHANGED <<roles, bindings, loaded, rs>>

Loaded == loaded = Len(roles) /\ bound = Len(bindings)

\* Can the subject, as a user or through one of the groups, do this?
Authorize(subject, groups, permission, resource, tenant) ==
    LET pmap == {g.subject : g \in {h \in grants : /\ h.resource = resource
                                                   /\ h.tenant = tenant
                                                   /\ h.permission = permission}}
    IN \/ [name |-> subject, kind |-> "user"] \in pmap
       \/ \E group \in groups : [name |-> group, kind |-> "group"] \in pmap

RBACNext == LoadRole \/ Bind

RBACSpec == RBACInit /\ [][RBACNext]_rbacVars

-----------------------------------------------------------------------------
(* Properties                                                              *)

\* roles[i] is the one its name stands for: no later role has the name.
InForce(i) == \A j \in DOMAIN roles : roles[j].name = roles[i].name => j <= i

Holds(subject, groups, rb) ==
    \/ [name |-> subject, kind |-> "user"] \in rb.subjects
    \/ \E group \in groups : [name |-> group, kind |-> "group"] \in rb.subjects

\* What the file says, whatever the order of its bindings: some binding of the
\* subject or of one of its groups names a role in force that has it all.
Granted(subject, groups, permission, resource, tenant) ==
    \E b \in DOMAIN bindings, i \in DOMAIN roles :
        /\ Holds(subject, groups, bindings[b])
        /\ roles[i].name \in bindings[b].roles /\ InForce(i)
        /\ permission \in roles[i].permissions
        /\ resource \in roles[i].resources /\ tenant \in roles[i].tenants

Names == UNION {{s.name : s \in bindings[b].subjects} : b \in DOMAIN bindings}
Resources == UNION {roles[i].resources : i \in DOMAIN roles}
TenantNames == UNION {roles[i].tenants : i \in DOMAIN roles}

\* Authorize (lines 69-102) answers exactly as the file says once NewAuthorizer
\* has built its maps: no binding, duplicate role name, unknown role or unknown
\* permission makes the two nested loops add or lose a grant, and a user never
\* passes for a group of the same name.
AuthorizeExact ==
    Loaded =>
        \A s \in Names, gs \in SUBSET Names, p \in Permissions, r \in Resources, t \in TenantNames :
            Authorize(s, gs, p, r, t) <=> Granted(s, gs, p, r, t)

=============================================================================
