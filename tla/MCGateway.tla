----------------------------- MODULE MCGateway ------------------------------
(* Model checking of Gateway: a tenant with OIDC and claims, one with mTLS,  *)
(* one with OIDC and no claims, two people, and roles that differ by tenant, *)
(* permission, resource, user and group.  The flags are of three kinds: with  *)
(* TLS and everything, with TLS and one logs endpoint, with nothing extra.    *)
EXTENDS Gateway

MCTenantLists ==
    {<<[name |-> "a", id |-> "1", mtls |-> {},
        oidc |-> {[issuerCA |-> "none", usernameClaim |-> TRUE, groupClaim |-> TRUE]}],
       [name |-> "b", id |-> "2", mtls |-> {[ca |-> "good"]}, oidc |-> {}],
       [name |-> "c", id |-> "3", mtls |-> {},
        oidc |-> {[issuerCA |-> "good", usernameClaim |-> FALSE, groupClaim |-> FALSE]}]>>}

MCPeople ==
    {[sub |-> "u1", username |-> "ann", groups |-> {{"dev"}}],
     [sub |-> "u2", username |-> "", groups |-> {}],
     [sub |-> "", username |-> "bob", groups |-> {{}}]}

MCRole(name, resources, names, permissions) ==
    [name |-> name, resources |-> resources, tenants |-> names, permissions |-> permissions]
MCRoleLists ==
    {<<MCRole("reader", {"metrics", "logs"}, {"a", "b"}, {"read"}),
       MCRole("writer", {"metrics", "logs", "alertmanager"}, {"a", "c"}, {"write"}),
       MCRole("reader-c", {"metrics"}, {"c"}, {"read"})>>}
MCBindingLists ==
    {<<[subjects |-> {[name |-> "dev", kind |-> "group"]}, roles |-> {"reader"}],
       [subjects |-> {[name |-> "ann", kind |-> "user"], [name |-> "u2", kind |-> "user"]},
        roles |-> {"writer"}],
       [subjects |-> {[name |-> "u1", kind |-> "user"]}, roles |-> {"reader-c"}]>>}

MCFlagSets(list) ==
    LET usual == [read |-> "good", write |-> "good", logsRead |-> "", logsTail |-> "", logsWrite |-> "",
                  additional |-> "", alertmanagers |-> <<>>, upstreamCA |-> "", upstreamName |-> "",
                  logLevel |-> "known", healthchecksCA |-> "", healthcheck |-> TRUE,
                  certFile |-> "", keyFile |-> "", minVersion |-> "known", ciphers |-> ""]
        tls == [usual EXCEPT !.certFile = "good", !.keyFile = "good"]
    IN {[tls EXCEPT !.additional = "some", !.alertmanagers = <<"good">>, !.logsRead = "good",
                    !.logsWrite = "good"],
        [tls EXCEPT !.logsTail = "good"],
        usual}
=============================================================================
