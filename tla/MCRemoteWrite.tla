--------------------------- MODULE MCRemoteWrite ---------------------------
(* Model checking of RemoteWrite: one additional endpoint and Thanos. *)
EXTENDS RemoteWrite

MCWriteURL == [seg |-> <<"base">>, slash |-> TRUE]

\* StripSlashes routes both; r.URL.Path keeps the slash.
MCPaths == {[seg |-> <<"api", "v1", "receive">>, slash |-> b] : b \in BOOLEAN}
\* For liveness the shared URL plays no part: one path is enough.
MCOnePath == {[seg |-> <<"receive">>, slash |-> TRUE]}
=============================================================================
