------------------------------ MODULE MCSetup -------------------------------
(* Model checking of Setup and Tenants: every file of up to two tenants     *)
(* with any combination of methods and CAs, files of three tenants with     *)
(* usable ones, shared names, and providers that are up, down or hang.      *)
(* With a file of one usable tenant, the flags vary too.                    *)
EXTENDS Setup

OIDC(cas) == {{}} \cup {{[issuerCA |-> ca, usernameClaim |-> FALSE, groupClaim |-> FALSE]} : ca \in cas}
MTLS(cas) == {{}} \cup {{[ca |-> ca]} : ca \in cas}
Ids == <<"1", "2", "3">>

TenantsOf(oidc, mtls) == [name : {"a", "b"}, id : {""}, oidc : oidc, mtls : mtls]
Lists(n, entries) == {[i \in 1 .. n |-> [e[i] EXCEPT !.id = Ids[i]]] : e \in [1 .. n -> entries]}
Plain == <<[name |-> "a", id |-> "1", oidc |-> {}, mtls |-> {[ca |-> "good"]}]>>

MCTenantLists ==
    LET all == TenantsOf(OIDC({"none", "good", "bad"}), MTLS({"good", "bad"}))
        usable == {t \in TenantsOf(OIDC({"none"}), MTLS({"good"})) : t.oidc # {} \/ t.mtls # {}}
    IN Lists(0, all) \cup Lists(1, all) \cup Lists(2, all) \cup Lists(3, usable)

MCRoleLists ==
    {<<[name |-> "reader", resources |-> {"metrics"}, tenants |-> {"a"}, permissions |-> {"read"}]>>}
MCBindingLists ==
    {<<[subjects |-> {[name |-> "u", kind |-> "user"]}, roles |-> {"reader"}]>>}

Usual ==
    [read |-> "good", write |-> "good", logsRead |-> "good", logsTail |-> "", logsWrite |-> "",
     additional |-> "", alertmanagers |-> <<"good">>, upstreamCA |-> "good", upstreamName |-> "am",
     logLevel |-> "known", healthchecksCA |-> "", healthcheck |-> TRUE,
     certFile |-> "", keyFile |-> "", minVersion |-> "known", ciphers |-> ""]

\* Which upstreams there are, in all combinations; TLS and the client for
\* Alertmanager in all combinations; the rest one flag at a time.
MCFlagSets(list) ==
    IF list # Plain THEN {Usual}
    ELSE {[Usual EXCEPT !.additional = a, !.logsRead = r, !.logsTail = t, !.logsWrite = w,
                        !.alertmanagers = m] :
             a \in {"", "unreadable", "invalid", "empty", "some"}, r \in URL, t \in URL, w \in URL,
             m \in {<<>>, <<"good">>, <<"good", "">>, <<"bad">>}}
         \cup {[Usual EXCEPT !.certFile = c, !.keyFile = k, !.minVersion = v, !.ciphers = s] :
                  c \in {"", "bad", "good"}, k \in {"", "bad", "good"}, v \in {"known", "unknown"},
                  s \in {"", "known", "unknown"}}
         \cup {[Usual EXCEPT !.upstreamCA = c, !.upstreamName = n] :
                  c \in {"", "missing", "bad", "good"}, n \in {"", "am"}}
         \cup {[Usual EXCEPT !.read = u] : u \in URL} \cup {[Usual EXCEPT !.write = u] : u \in URL}
         \cup {[Usual EXCEPT !.logLevel = "unknown"]}
         \cup {[Usual EXCEPT !.healthchecksCA = c, !.healthcheck = h] :
                  c \in {"", "missing", "good"}, h \in BOOLEAN}
=============================================================================
