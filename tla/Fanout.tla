------------------------------- MODULE Fanout -------------------------------
(***************************************************************************)
(* The Alertmanager fan-out: FanoutRequestToEndpoints of                   *)
(* internal/fanout/proxy.go, for one request.  The handler starts one      *)
(* goroutine per endpoint, waits for all of them with a WaitGroup, and     *)
(* answers from an atomic count of the endpoints that replied 2xx.  Every  *)
(* call uses the request's context, which ends with the deadline of chi's  *)
(* Timeout middleware or when the caller goes away.                        *)
(***************************************************************************)
EXTENDS Integers, FiniteSets

CONSTANTS
    N,              \* len(endpoints)
    MayBeBad        \* endpoints for which building a request may fail

Endpoints == 1 .. N

ASSUME NAssumption == N \in Nat
ASSUME BadAssumption == MayBeBad \subseteq Endpoints

VARIABLES
    pc,             \* the handler
    spawned,        \* endpoints the loop has passed
    g,              \* the goroutine of each endpoint
    net,            \* the request to an endpoint, as the endpoint sees it
    fanoutRequests, \* the code under which fanout_requests_total counts it
    wg,             \* the counter of the WaitGroup
    successCnt,
    ctx,            \* the request's context
    status          \* the status line, 0 before the first WriteHeader

vars == <<pc, spawned, g, net, fanoutRequests, wg, successCnt, ctx, status>>

Running == {"begin", "flight", "counted", "ending"}

\* The types of the handler's and its goroutines' state (lines 40-106).
TypeOK ==
    /\ pc \in {"read", "loop", "go", "wait", "check", "ok", "return", "done"}
    /\ spawned \in 0 .. N
    /\ g \in [Endpoints -> Running \cup {"none", "ended"}]
    /\ net \in [Endpoints -> {"none", "sent", "accepted", "refused"}]
    /\ fanoutRequests \in [Endpoints -> {"none", "<error>", "2xx", "other"}]
    /\ wg \in Nat
    /\ successCnt \in Nat
    /\ ctx \in {"live", "deadline", "canceled"}
    /\ status \in {0, 200, 400, 500, 502, 504}

Init ==
    /\ pc = "read" /\ spawned = 0
    /\ g = [e \in Endpoints |-> "none"]
    /\ net = [e \in Endpoints |-> "none"]
    /\ fanoutRequests = [e \in Endpoints |-> "none"]
    /\ wg = 0 /\ successCnt = 0 /\ ctx = "live" /\ status = 0

-----------------------------------------------------------------------------
(* The handler                                                             *)

\* Only the first WriteHeader of a response counts.
WriteHeader(code) == status' = IF status = 0 THEN code ELSE status

ReadFails ==
    /\ pc = "read"
    /\ WriteHeader(500)
    /\ pc' = "return"
    /\ UNCHANGED <<spawned, g, net, fanoutRequests, wg, successCnt, ctx>>

ReadBody ==
    /\ pc = "read"
    /\ IF N = 0
       THEN WriteHeader(400) /\ pc' = "return"
       ELSE UNCHANGED status /\ pc' = "loop"
    /\ UNCHANGED <<spawned, g, net, fanoutRequests, wg, successCnt, ctx>>

MutAdd ==
    /\ pc = "loop" /\ spawned < N
    /\ pc' = "go"
    /\ UNCHANGED <<spawned, g, net, fanoutRequests, wg, successCnt, ctx, status>>

\* wg.Add(1) comes before the go statement.
Add ==
    /\ pc = "loop" /\ spawned < N
    /\ wg' = wg + 1
    /\ pc' = "go"
    /\ UNCHANGED <<spawned, g, net, fanoutRequests, successCnt, ctx, status>>

Spawn ==
    /\ pc = "go"
    /\ spawned' = spawned + 1
    /\ g' = [g EXCEPT ![spawned + 1] = "begin"]
    /\ pc' = "loop"
    /\ UNCHANGED <<net, fanoutRequests, wg, successCnt, ctx, status>>

EndLoop ==
    /\ pc = "loop" /\ spawned = N
    /\ pc' = "wait"
    /\ UNCHANGED <<spawned, g, net, fanoutRequests, wg, successCnt, ctx, status>>

MutWait ==
    /\ pc = "wait"
    /\ pc' = "check"
    /\ UNCHANGED <<spawned, g, net, fanoutRequests, wg, successCnt, ctx, status>>

MutWaitOrContext ==
    /\ pc = "wait" /\ (wg = 0 \/ ctx # "live")
    /\ pc' = "check"
    /\ UNCHANGED <<spawned, g, net, fanoutRequests, wg, successCnt, ctx, status>>

Wait ==
    /\ pc = "wait" /\ wg = 0
    /\ pc' = "check"
    /\ UNCHANGED <<spawned, g, net, fanoutRequests, wg, successCnt, ctx, status>>

MutCheck ==
    /\ pc = "check"
    /\ IF successCnt < 1 THEN WriteHeader(502) ELSE UNCHANGED status
    /\ pc' = "ok"
    /\ UNCHANGED <<spawned, g, net, fanoutRequests, wg, successCnt, ctx>>

MutCheckOffByOne ==
    /\ pc = "check"
    /\ IF successCnt <= N THEN WriteHeader(502) ELSE UNCHANGED status
    /\ pc' = "ok"
    /\ UNCHANGED <<spawned, g, net, fanoutRequests, wg, successCnt, ctx>>

Check ==
    /\ pc = "check"
    /\ IF successCnt < N THEN WriteHeader(502) ELSE UNCHANGED status
    /\ pc' = "ok"
    /\ UNCHANGED <<spawned, g, net, fanoutRequests, wg, successCnt, ctx>>

\* Reached after the 502 too.
WriteOK ==
    /\ pc = "ok"
    /\ WriteHeader(200)
    /\ pc' = "return"
    /\ UNCHANGED <<spawned, g, net, fanoutRequests, wg, successCnt, ctx>>

\* The Timeout middleware writes 504 if the deadline is over.
Return ==
    /\ pc = "return"
    /\ IF ctx = "deadline" THEN WriteHeader(504) ELSE UNCHANGED status
    /\ pc' = "done"
    /\ UNCHANGED <<spawned, g, net, fanoutRequests, wg, successCnt, ctx>>

Handler ==
    \/ ReadFails \/ ReadBody \/ Add \/ Spawn \/ EndLoop \/ Wait \/ Check \/ WriteOK \/ Return

-----------------------------------------------------------------------------
(* The goroutine of endpoint e                                             *)

handlerVars == <<pc, spawned, ctx, status>>

\* url.JoinPath and http.NewRequestWithContext.
Build(e) ==
    /\ g[e] = "begin"
    /\ \/ g' = [g EXCEPT ![e] = "flight"]
       \/ e \in MayBeBad /\ g' = [g EXCEPT ![e] = "ending"]
    /\ UNCHANGED <<handlerVars, net, fanoutRequests, wg, successCnt>>

\* client.Do writes the request.
Transmit(e) ==
    /\ g[e] = "flight" /\ net[e] = "none"
    /\ net' = [net EXCEPT ![e] = "sent"]
    /\ UNCHANGED <<handlerVars, g, fanoutRequests, wg, successCnt>>

MutDoFails(e) ==
    /\ g[e] = "flight" /\ ctx = "live"
    /\ fanoutRequests' = [fanoutRequests EXCEPT ![e] = "<error>"]
    /\ g' = [g EXCEPT ![e] = "ending"]
    /\ UNCHANGED <<handlerVars, net, wg, successCnt>>

\* client.Do fails: the network, the deadline or the caller.
DoFails(e) ==
    /\ g[e] = "flight"
    /\ fanoutRequests' = [fanoutRequests EXCEPT ![e] = "<error>"]
    /\ g' = [g EXCEPT ![e] = "ending"]
    /\ UNCHANGED <<handlerVars, net, wg, successCnt>>

\* client.Do returns the endpoint's response, which is counted by its code.
Respond(e) ==
    /\ g[e] = "flight" /\ net[e] \in {"accepted", "refused"}
    /\ \/ /\ net[e] = "refused"
          /\ fanoutRequests' = [fanoutRequests EXCEPT ![e] = "other"]
          /\ g' = [g EXCEPT ![e] = "ending"]
       \/ /\ net[e] = "accepted"
          /\ fanoutRequests' = [fanoutRequests EXCEPT ![e] = "2xx"]
          /\ g' = [g EXCEPT ![e] = "counted"]
    /\ UNCHANGED <<handlerVars, net, wg, successCnt>>

AddSuccess(e) ==
    /\ g[e] = "counted"
    /\ successCnt' = successCnt + 1
    /\ g' = [g EXCEPT ![e] = "ending"]
    /\ UNCHANGED <<handlerVars, net, fanoutRequests, wg>>

\* The deferred wg.Done.
Done(e) ==
    /\ g[e] = "ending"
    /\ wg' = wg - 1
    /\ g' = [g EXCEPT ![e] = "ended"]
    /\ UNCHANGED <<handlerVars, net, fanoutRequests, successCnt>>

Goroutine(e) == Build(e) \/ Transmit(e) \/ Respond(e) \/ AddSuccess(e) \/ Done(e)

-----------------------------------------------------------------------------
(* The environment                                                         *)

\* An endpoint decides on a request it got, also after the caller gave up.
Decide(e) ==
    /\ net[e] = "sent"
    /\ \E verdict \in {"accepted", "refused"} : net' = [net EXCEPT ![e] = verdict]
    /\ UNCHANGED <<handlerVars, g, fanoutRequests, wg, successCnt>>

Expire ==
    /\ ctx = "live" /\ pc # "done"
    /\ ctx' = "deadline"
    /\ UNCHANGED <<pc, spawned, g, net, fanoutRequests, wg, successCnt, status>>

CallerLeaves ==
    /\ ctx = "live" /\ pc # "done"
    /\ ctx' = "canceled"
    /\ UNCHANGED <<pc, spawned, g, net, fanoutRequests, wg, successCnt, status>>

Next ==
    \/ Handler
    \/ \E e \in Endpoints : Goroutine(e) \/ DoFails(e) \/ Decide(e)
    \/ Expire
    \/ CallerLeaves

\* The scheduler runs the handler and its goroutines, the deadline passes, and
\* client.Do returns once its context is over.  No endpoint has to answer.
Fairness ==
    /\ WF_vars(Handler)
    /\ \A e \in Endpoints :
         /\ WF_vars(Goroutine(e))
         /\ WF_vars(ctx # "live" /\ DoFails(e))
    /\ WF_vars(Expire)

Spec == Init /\ [][Next]_vars /\ Fairness

-----------------------------------------------------------------------------
(* Properties                                                              *)

\* A caller that is told 200 (lines 100-104) was not told so too early or in
\* spite of a failure: every endpoint has accepted the request.
OkMeansAll == status = 200 => N > 0 /\ \A e \in Endpoints : net[e] = "accepted"

\* A caller that is told 502 had at least one endpoint that did not confirm
\* (comment of line 97); the WriteHeader(200) that follows does not hide it.
FailureMeansSome ==
    status = 502 => \E e \in Endpoints : fanoutRequests[e] # "2xx"

\* The goroutines use the handler's request and response, so none of them may
\* outlive it: wg.Wait returns after the last of them has ended.
NoOrphans ==
    pc \in {"check", "ok", "return", "done"} => \A e \in Endpoints : g[e] \notin Running

\* Endpoints that never answer do not hold the caller for ever: the context's
\* deadline ends every call, each goroutine signals the WaitGroup whatever its
\* outcome, and the handler returns.
EventuallyAnswered == <>(pc = "done" /\ status # 0)

\* The fan-out, seen as the requests at the endpoints, the confirmations that came
\* back and the caller's answer.
answer == IF status = 0 THEN "none" ELSE IF status = 200 THEN "all" ELSE "failed"
B == INSTANCE Broadcast WITH
        Targets <- Endpoints,
        contacted <- {e \in Endpoints : net[e] # "none"},
        accepted <- {e \in Endpoints : net[e] = "accepted"},
        confirmed <- {e \in Endpoints : fanoutRequests[e] = "2xx"},
        answer <- answer

\* FanoutRequestToEndpoints implements Broadcast: the caller's answer agrees with
\* the confirmations counted at that very step, in both directions, and it is the
\* last word, although deadline, late verdicts and goroutines race with it: no
\* alert leaves for an endpoint, and no reply is counted, behind it.
ImplementsBroadcast == B!Spec

=============================================================================
