------------------------------- MODULE MCRBAC -------------------------------
(* Model checking of RBAC: up to two roles that may share a name, up to two *)
(* bindings, a user and a group of the same name, missing roles, and        *)
(* permissions and subject kinds the code does not know.                    *)
EXTENDS RBAC, SequencesExt

MCRoles ==
    [name : {"a", "b"}, resources : {{"metrics"}, {"metrics", "logs"}},
     tenants : {{"t"}, {"t", "u"}}, permissions : {{"read"}, {"write"}, {"read", "admin"}}]
MCSubjects == {[name |-> "x", kind |-> "user"], [name |-> "x", kind |-> "group"],
               [name |-> "y", kind |-> "robot"]}
MCBindings ==
    [subjects : {{s} : s \in MCSubjects}, roles : {{"a"}, {"a", "b"}, {"c"}}]
MCRoleLists == SeqOf(MCRoles, 2)
MCBindingLists == SeqOf(MCBindings, 2)
=============================================================================
