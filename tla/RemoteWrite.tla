---------------------------- MODULE RemoteWrite ----------------------------
(***************************************************************************)
(* The remote-write proxy: internal/remotewrite/proxy.go.  Every write     *)
(* request is copied to each configured endpoint, and last to the Thanos   *)
(* receiver, by one goroutine per endpoint that nobody waits for.  All     *)
(* handlers share the slice of endpoints: each of them stores the URL of   *)
(* the Thanos endpoint before it ranges over the slice.  The forwarding    *)
(* goroutines, and the handler itself, report to one goroutine per         *)
(* endpoint over an unbuffered channel (LogChannel).                       *)
(*                                                                         *)
(* A Go string is two words, the bytes and their number, that unlocked     *)
(* loads and stores move one at a time.  The bytes of a URL are modelled   *)
(* by its path: the segments and whether a slash follows them.             *)
(***************************************************************************)
EXTENDS Naturals, Sequences, FiniteSets, SequencesExt

CONSTANTS
    Requests,       \* write requests, each handled by its own goroutine
    N,              \* len(endpoints), the Thanos endpoint included
    HasWrite,       \* write != nil: the last endpoint is Thanos
    WriteURL,       \* path of the write endpoint
    Paths,          \* paths a request can reach the handler with
    FlakyClient,    \* endpoints whose ClientConfig may fail to load
    MayBeBad        \* endpoints whose URL may not parse

Endpoints == 1 .. N
Path == [seg : Seq(STRING), slash : BOOLEAN]

ASSUME EndpointAssumption == N \in Nat \ {0} /\ HasWrite \in BOOLEAN
ASSUME ThanosAssumption ==
    \* The Thanos endpoint has no ClientConfig, and its URL comes from url.URL.
    HasWrite => N \notin FlakyClient /\ N \notin MayBeBad
ASSUME PathAssumption == WriteURL \in Path /\ Paths \subseteq Path
ASSUME RouteAssumption ==
    \* One route leads to the handler: its paths differ in trailing slashes.
    \A p, q \in Paths : p.seg = q.seg
ASSUME FaultAssumption == FlakyClient \subseteq Endpoints /\ MayBeBad \subseteq Endpoints

VARIABLES
    up,         \* the process runs
    badUrl,     \* endpoints with a URL that does not parse, from the config file
    pc,         \* where the handler of a request is
    path,       \* r.URL.Path
    idx,        \* the loop variable i
    words,      \* words of a string that are still to be stored or loaded
    copy,       \* endpoint.URL in the handler's copy of the element
    client,     \* whether the handler has a client for the endpoint
    expired,    \* the deadline of the request's context is over
    status,     \* the status line sent to the caller
    url,        \* the URL of the last element of endpoints
    fwd,        \* the forwarding goroutine of a request and an endpoint
    queue,      \* senders that wait on LogChannels[e], in order of arrival
    requests,   \* http_proxy_requests_total
    forwarded   \* remote_write_requests_total

handler == <<pc, path, idx, words, copy, client, expired, status>>
goroutines == <<fwd, queue>>
counters == <<requests, forwarded>>
vars == <<up, badUrl, handler, url, goroutines, counters>>

Codes == {"<error>", "2xx", "other"}
Message == [req : Requests, by : {"handler", "forward"}]

Len2(p) == Len(p.seg) + IF p.slash THEN 1 ELSE 0
Str(p) == [ptr |-> p, len |-> Len2(p)]

\* path.Join cleans its result: no trailing slash.
MutJoin(p, q) == [seg |-> p.seg \o q.seg, slash |-> q.slash]
Join(p, q) == [seg |-> p.seg \o q.seg, slash |-> FALSE]

NoPath == [seg |-> <<>>, slash |-> FALSE]
NoString == Str(NoPath)
Words == {"ptr", "len"}
URLs == {NoPath, WriteURL} \cup {Join(WriteURL, p) : p \in Paths}

\* The types of the handlers' and goroutines' state (lines 45-143); queues hold
\* at most one message of a request and endpoint.
TypeOK ==
    /\ up \in BOOLEAN /\ badUrl \subseteq MayBeBad
    /\ pc \in [Requests -> {"idle", "read", "store", "load", "client", "blocked",
                            "request", "return", "done", "panicked"}]
    /\ path \in [Requests -> Paths \cup {NoPath}]
    /\ idx \in [Requests -> 1 .. (N + 1)]
    /\ words \in [Requests -> SUBSET Words]
    /\ copy \in [Requests -> [ptr : URLs, len : Nat]]
    /\ url \in [ptr : URLs, len : Nat]
    /\ client \in [Requests -> BOOLEAN]
    /\ expired \in [Requests -> BOOLEAN]
    /\ status \in [Requests -> {0, 200, 500, 504}]
    /\ fwd \in [Requests -> [Endpoints -> {"none", "nil client", "send",
                                           "log", "done"}]]
    /\ \A e \in Endpoints : IsInjective(queue[e]) /\ ToSet(queue[e]) \subseteq Message
    /\ requests \in Nat
    /\ forwarded \in [Endpoints -> [Codes -> Nat]]

Init ==
    /\ up = TRUE /\ badUrl \in SUBSET MayBeBad
    /\ pc = [r \in Requests |-> "idle"] /\ path = [r \in Requests |-> NoPath]
    /\ idx = [r \in Requests |-> 1]
    /\ words = [r \in Requests |-> {}] /\ copy = [r \in Requests |-> NoString]
    /\ client = [r \in Requests |-> FALSE]
    /\ expired = [r \in Requests |-> FALSE] /\ status = [r \in Requests |-> 0]
    /\ url = Str(WriteURL)
    /\ fwd = [r \in Requests |-> [e \in Endpoints |-> "none"]]
    /\ queue = [e \in Endpoints |-> <<>>]
    /\ requests = 0
    /\ forwarded = [e \in Endpoints |-> [c \in Codes |-> 0]]

-----------------------------------------------------------------------------
(* The handler                                                             *)

Goto(r, label) == pc' = [pc EXCEPT ![r] = label]
Send(e, m) == queue' = [queue EXCEPT ![e] = Append(@, m)]

Arrive(r) ==
    /\ pc[r] = "idle"
    /\ \E p \in Paths : path' = [path EXCEPT ![r] = p]
    /\ requests' = requests + 1
    /\ Goto(r, "read")
    /\ UNCHANGED <<idx, words, copy, client, expired, status, url, goroutines, forwarded>>

\* io.ReadAll ends with the body or with an error, which the code drops: what was
\* read is forwarded to every endpoint either way.
ReadBody(r) ==
    /\ pc[r] = "read"
    /\ words' = [words EXCEPT ![r] = Words]
    /\ Goto(r, IF HasWrite THEN "store" ELSE "load")
    /\ UNCHANGED <<path, idx, copy, client, expired, status, url, goroutines, counters>>

\* endpoints[len(endpoints)-1].URL = ..., one word at a time.
StoreURL(r) ==
    /\ pc[r] = "store"
    /\ \E w \in words[r] :
         /\ url' = [url EXCEPT ![w] = Str(Join(WriteURL, path[r]))[w]]
         /\ words' = [words EXCEPT ![r] = IF words[r] = {w} THEN Words ELSE @ \ {w}]
    /\ Goto(r, IF Cardinality(words[r]) = 1 THEN "load" ELSE "store")
    /\ UNCHANGED <<path, idx, copy, client, expired, status, goroutines, counters>>

\* The range clause copies the element.  Only the last one is ever written.
LoadEndpoint(r) ==
    /\ pc[r] = "load"
    /\ IF HasWrite /\ idx[r] = N
       THEN \E w \in words[r] :
              /\ copy' = [copy EXCEPT ![r][w] = url[w]]
              /\ words' = [words EXCEPT ![r] = @ \ {w}]
              /\ Goto(r, IF words[r] = {w} THEN "client" ELSE "load")
       ELSE Goto(r, "client") /\ UNCHANGED <<copy, words>>
    /\ UNCHANGED <<path, idx, client, expired, status, url, goroutines, counters>>

\* NewClientFromConfig may fail: the handler itself sends to the log channel,
\* waits until the message is taken, and goes on without a client.
CreateClient(r) ==
    /\ pc[r] = "client"
    /\ \/ /\ client' = [client EXCEPT ![r] = TRUE]
          /\ Goto(r, "request")
          /\ UNCHANGED queue
       \/ /\ idx[r] \in FlakyClient
          /\ client' = [client EXCEPT ![r] = FALSE]
          /\ Send(idx[r], [req |-> r, by |-> "handler"])
          /\ Goto(r, "blocked")
    /\ UNCHANGED <<path, idx, words, copy, expired, status, url, fwd, counters>>

MutNewRequest(r) ==
    /\ pc[r] = "request" /\ idx[r] \notin badUrl
    /\ fwd' = IF client[r] THEN [fwd EXCEPT ![r][idx[r]] = "send"] ELSE fwd
    /\ idx' = [idx EXCEPT ![r] = @ + 1]
    /\ Goto(r, IF idx[r] = N THEN "return" ELSE "load")
    /\ UNCHANGED <<path, words, copy, client, expired, status, url,
                   queue, counters>>

\* http.NewRequest succeeds: launch the forwarding goroutine, whatever became
\* of the client.
NewRequest(r) ==
    /\ pc[r] = "request" /\ idx[r] \notin badUrl
    /\ fwd' = [fwd EXCEPT ![r][idx[r]] = IF client[r] THEN "send" ELSE "nil client"]
    /\ idx' = [idx EXCEPT ![r] = @ + 1]
    /\ Goto(r, IF idx[r] = N THEN "return" ELSE "load")
    /\ UNCHANGED <<path, words, copy, client, expired, status, url,
                   queue, counters>>

\* http.NewRequest fails and returns nil: the assignment to req.Header panics
\* before the error is looked at.  chi's Timeout and Recoverer answer.
NewRequestPanics(r) ==
    /\ pc[r] = "request" /\ idx[r] \in badUrl
    /\ status' = [status EXCEPT ![r] = IF expired[r] THEN 504 ELSE 500]
    /\ Goto(r, "panicked")
    /\ UNCHANGED <<path, idx, words, copy, client, expired, url, goroutines, counters>>

MutReturn(r) ==
    /\ pc[r] = "return" /\ \A e \in Endpoints : fwd[r][e] # "send"
    /\ status' = [status EXCEPT ![r] = IF expired[r] THEN 504 ELSE 200]
    /\ Goto(r, "done")
    /\ UNCHANGED <<path, idx, words, copy, client, expired, url, goroutines, counters>>

\* The handler writes no status: net/http answers 200, unless the Timeout
\* middleware finds the deadline exceeded.
Return(r) ==
    /\ pc[r] = "return"
    /\ status' = [status EXCEPT ![r] = IF expired[r] THEN 504 ELSE 200]
    /\ Goto(r, "done")
    /\ UNCHANGED <<path, idx, words, copy, client, expired, url, goroutines, counters>>

\* The deadline of middleware.Timeout passes while the handler runs.
Expire(r) ==
    /\ pc[r] \notin {"idle", "done", "panicked"} /\ ~expired[r]
    /\ expired' = [expired EXCEPT ![r] = TRUE]
    /\ UNCHANGED <<pc, path, idx, words, copy, client, status, url, goroutines, counters>>

Handle(r) ==
    \/ ReadBody(r) \/ StoreURL(r) \/ LoadEndpoint(r) \/ CreateClient(r)
    \/ NewRequest(r) \/ NewRequestPanics(r) \/ Return(r)

-----------------------------------------------------------------------------
(* The forwarding goroutine                                                *)

MutReport(r, e, code) ==
    /\ fwd' = [fwd EXCEPT ![r][e] = "log"]
    /\ forwarded' = IF code = "<error>" THEN forwarded
                    ELSE [forwarded EXCEPT ![e][code] = @ + 1]
    /\ Send(e, [req |-> r, by |-> "forward"])
    /\ UNCHANGED <<handler, url, requests>>

MutReportAgain(r, e, code) ==
    /\ forwarded' = [forwarded EXCEPT ![e][code] = @ + 1]
    /\ Send(e, [req |-> r, by |-> "forward"])
    /\ UNCHANGED <<handler, url, fwd, requests>>

\* Count the outcome, then send it to the log channel under a key that depends
\* on the outcome and on whether the upstream's answer could be read.
Report(r, e, code) ==
    /\ fwd' = [fwd EXCEPT ![r][e] = "log"]
    /\ forwarded' = [forwarded EXCEPT ![e][code] = @ + 1]
    /\ Send(e, [req |-> r, by |-> "forward"])
    /\ UNCHANGED <<handler, url, requests>>

\* client.Do fails, or the upstream answers.  The request's own context is not
\* used and the client has no timeout: nothing ends the wait for an answer.
Forward(r, e) ==
    /\ fwd[r][e] = "send"
    /\ \E code \in Codes : Report(r, e, code)

\* Do on a nil *http.Client panics in a goroutine without recover: the process
\* ends.
NilClientPanics(r, e) ==
    /\ fwd[r][e] = "nil client"
    /\ up' = FALSE
    /\ UNCHANGED <<badUrl, handler, url, goroutines, counters>>

MutReceiveOffByOne(e) ==
    /\ queue[e] # <<>> /\ e < N
    /\ LET m == Head(queue[e]) IN
         /\ queue' = [queue EXCEPT ![e] = Tail(@)]
         /\ IF m.by = "forward"
            THEN fwd' = [fwd EXCEPT ![m.req][e] = "done"] /\ UNCHANGED pc
            ELSE Goto(m.req, "request") /\ UNCHANGED fwd
    /\ UNCHANGED <<path, idx, words, copy, client, expired, status, url, counters>>

\* The goroutine of LogChannels[e] takes the message of the sender that has
\* waited longest; checkLog and revertCounter never block.
Receive(e) ==
    /\ queue[e] # <<>>
    /\ LET m == Head(queue[e]) IN
         /\ queue' = [queue EXCEPT ![e] = Tail(@)]
         /\ IF m.by = "forward"
            THEN fwd' = [fwd EXCEPT ![m.req][e] = "done"] /\ UNCHANGED pc
            ELSE Goto(m.req, "request") /\ UNCHANGED fwd
    /\ UNCHANGED <<path, idx, words, copy, client, expired, status, url, counters>>

Step ==
    \/ \E r \in Requests : Arrive(r) \/ Handle(r) \/ Expire(r)
    \/ \E r \in Requests, e \in Endpoints : Forward(r, e)
    \/ \E e \in Endpoints : Receive(e)

Next ==
    \/ up /\ Step /\ UNCHANGED <<up, badUrl>>
    \/ \E r \in Requests, e \in Endpoints : up /\ NilClientPanics(r, e)

\* The scheduler runs handlers and log goroutines, and the read timeout of the
\* server ends io.ReadAll.  Nothing makes an upstream answer.
Fairness ==
    /\ \A r \in Requests : WF_vars(up /\ Handle(r) /\ UNCHANGED <<up, badUrl>>)
    /\ \A e \in Endpoints : WF_vars(up /\ Receive(e) /\ UNCHANGED <<up, badUrl>>)

Spec == Init /\ [][Next]_vars /\ Fairness

-----------------------------------------------------------------------------
(* Properties                                                              *)

\* The proxy, seen as copies on their way and answers.
copies ==
    [r \in Requests |-> [e \in Endpoints |->
        IF fwd[r][e] = "none" THEN "none"
        ELSE IF fwd[r][e] \in {"send", "nil client"} THEN "sent" ELSE "settled"]]
answers ==
    [r \in Requests |->
        IF status[r] = 0 THEN "none" ELSE IF status[r] = 200 THEN "accepted" ELSE "failed"]
R == INSTANCE Relay WITH Messages <- Requests, Targets <- Endpoints

\* remoteWrite keeps the promise of Relay: 200 (its implicit status) is sent only
\* once a copy is on its way to every endpoint, the Thanos receiver included, so
\* no failure makes the loop skip one; nothing is launched after the answer;
\* each copy settles once; and only the end of the process loses one.
ImplementsRelay == R!Spec

\* The unlocked store to the shared endpoint (line 58) and the copies of other
\* handlers (line 62) never produce a mixed or a foreign URL: every forward to
\* the Thanos receiver goes to the write endpoint's path joined with the
\* request's own path.
UrlIntact ==
    \A r \in Requests :
        HasWrite /\ fwd[r][N] # "none" => copy[r] = Str(Join(WriteURL, path[r]))

\* remote_write_requests_total counts each forward once: the counters of an
\* endpoint add up to the forwards whose outcome is known.
Accounted ==
    \A e \in Endpoints :
        forwarded[e]["<error>"] + forwarded[e]["2xx"] + forwarded[e]["other"]
            = Cardinality({r \in Requests : fwd[r][e] \in {"log", "done"}})

\* Upstreams that never answer, other requests and the log channels never hold
\* up a caller: the handler of every request ends (or the process does).
CallerAnswered ==
    \A r \in Requests : pc[r] # "idle" ~> (pc[r] \in {"done", "panicked"} \/ ~up)

\* The senders of a log channel are all served again and again (the unbuffered
\* channels of line 63 of logchannel.go): no forwarding goroutine and no handler
\* stays blocked on one for ever.
ChannelsDrain == \A e \in Endpoints : []<>(queue[e] = <<>> \/ ~up)

\* The failure of one endpoint's client is reported (proxy.go:83-88) and stays
\* with that endpoint: it does not end the process.
ClientFailureContained == up

\* The failure to create a forward request is reported on the endpoint's log
\* channel (proxy.go:95-100), not answered with a panic.
RequestFailureReported == \A r \in Requests : pc[r] # "panicked"

=============================================================================
