----------------------------- MODULE Lifecycle ------------------------------
(***************************************************************************)
(* The process once it is set up: the run.Group of main.go:283-543.  Its   *)
(* actors (the signal handler, the certificate reloader if TLS is on, the  *)
(* public and the internal server) run in goroutines of their own.  The    *)
(* first to return ends the group: main interrupts the actors in the order *)
(* they were added, waits for all of them and exits.                       *)
(*                                                                         *)
(* A request is a connection of its own.  What happens to a remote write   *)
(* is Relay, which RemoteWrite implements: its copies are carried by       *)
(* goroutines that no server knows of.                                     *)
(***************************************************************************)
EXTENDS Naturals, Sequences

CONSTANTS
    PublicRequests, InternalRequests,
    Endpoints,      \* of a remote write
    MaxSignals      \* interrupts and SIGTERMs the process gets at most

ASSUME LifecycleAssumption ==
    /\ PublicRequests \cap InternalRequests = {}
    /\ MaxSignals \in Nat

VARIABLES
    tls,        \* TLS is on: the reloader is in the group
    actor,      \* how far each actor is
    errors,     \* the channel the actors send their errors on
    main,       \* what Group.Run does
    at,         \* the actor it interrupts
    first,      \* the error it returns
    received,   \* errors it has received
    sig,        \* the channel of the signal handler
    signals,    \* signals so far
    canceled,   \* the reloader's context
    closing,    \* servers on which Shutdown was called
    grace,      \* the context of the public server's Shutdown
    conn,       \* the connection of each request
    kind,       \* what each public request is
    copies, answers,    \* of the remote writes (Relay)
    ended,      \* how the process ended
    owed,       \* requests in progress when the Shutdown of their server began
    failed      \* actors that returned an error before they were told to stop

groupVars == <<actor, errors, main, at, first, received, failed>>
signalVars == <<sig, signals>>
serverVars == <<canceled, closing, grace, owed>>
requestVars == <<conn, kind, copies, answers>>
vars == <<tls, groupVars, signalVars, serverVars, requestVars, ended>>

R == INSTANCE Relay WITH Messages <- PublicRequests, Targets <- Endpoints, up <- (ended = "no")

Servers == {"public", "internal"}
Actors == IF tls THEN <<"signal", "reloader", "public", "internal">>
          ELSE <<"signal", "public", "internal">>
Kinds == {"proxied", "tail", "write"}
Requests == PublicRequests \cup InternalRequests
Of(s) == IF s = "public" THEN PublicRequests ELSE InternalRequests
Untracked(s) == {r \in Of(s) : conn[r] = "accepted"}
Active(s) == {r \in Of(s) : conn[r] = "active"}

\* Types, and the capacity of the channel of Group.Run: it holds one error of
\* each actor, so none of them ever blocks on it (main.go:284, 540).
TypeOK ==
    /\ tls \in BOOLEAN
    /\ actor \in [{"signal", "reloader", "public", "internal"} ->
                  {"started", "notified", "listening", "serving", "returned"}]
    /\ errors \in Seq({"nil", "error"}) /\ received + Len(errors) <= Len(Actors)
    /\ main \in {"waiting", "interrupting", "draining"}
    /\ at \in 1 .. (Len(Actors) + 1) /\ received \in 0 .. Len(Actors)
    /\ first \in {"none", "nil", "error"}
    /\ sig \in [pending : BOOLEAN, closed : BOOLEAN, delivered : BOOLEAN]
    /\ signals \in 0 .. MaxSignals /\ canceled \in BOOLEAN
    /\ closing \subseteq Servers /\ grace \in {"unset", "running", "over", "stopped"}
    /\ conn \in [Requests -> {"none", "accepted", "active", "hijacked", "done"}]
    /\ kind \in [PublicRequests -> Kinds \cup {"unknown"}]
    /\ owed \subseteq Requests /\ failed \subseteq {"reloader"} \cup Servers
    /\ ended \in {"no", "exit 0", "exit 1", "killed", "panicked"}

Init ==
    /\ tls \in BOOLEAN
    /\ actor = [a \in {"signal", "reloader", "public", "internal"} |-> "started"]
    /\ errors = <<>> /\ main = "waiting" /\ at = 1 /\ first = "none" /\ received = 0
    /\ sig = [pending |-> FALSE, closed |-> FALSE, delivered |-> FALSE] /\ signals = 0
    /\ canceled = FALSE /\ closing = {} /\ grace = "unset"
    /\ conn = [r \in Requests |-> "none"] /\ kind = [r \in PublicRequests |-> "unknown"]
    /\ ended = "no" /\ owed = {} /\ failed = {}
    /\ R!Init

-----------------------------------------------------------------------------
(* The actors: each sends its error on the channel when it returns         *)

Return(a, err) ==
    /\ ended = "no" /\ actor[a] # "returned"
    /\ actor' = [actor EXCEPT ![a] = "returned"]
    /\ errors' = Append(errors, err)
    /\ UNCHANGED <<main, at, first, received>>

\* It returns an error although nobody has told it to stop.
Fail(a) == Return(a, "error") /\ failed' = failed \cup {a}

Goto(a, place) ==
    /\ ended = "no"
    /\ actor' = [actor EXCEPT ![a] = place]
    /\ UNCHANGED <<errors, main, at, first, received, failed>>

Notify ==
    /\ actor["signal"] = "started"
    /\ Goto("signal", "notified")
    /\ UNCHANGED <<tls, signalVars, serverVars, requestVars, ended>>

MutCaught ==
    /\ ended = "no" /\ actor["signal"] = "notified" /\ (sig.pending \/ sig.closed)
    /\ sig' = [sig EXCEPT !.pending = FALSE]
    /\ errors' = Append(errors, "nil")
    /\ UNCHANGED <<tls, actor, main, at, first, received, failed, signals, serverVars, requestVars, ended>>

Caught ==
    /\ actor["signal"] = "notified" /\ (sig.pending \/ sig.closed)
    /\ sig' = [sig EXCEPT !.pending = FALSE]
    /\ Return("signal", "nil")
    /\ UNCHANGED <<tls, failed, signals, serverVars, requestVars, ended>>

\* CertReloader.Watch: a reload that fails ends it, and so the process.  Its
\* ticker may be as fast as the cancellation.
Watch ==
    /\ tls /\ canceled
    /\ \E err \in {"nil", "error"} : Return("reloader", err)
    /\ UNCHANGED <<tls, failed, signalVars, serverVars, requestVars, ended>>

ReloadFails ==
    /\ tls /\ ~canceled /\ Fail("reloader")
    /\ UNCHANGED <<tls, signalVars, serverVars, requestVars, ended>>

\* ListenAndServe.  A server that was shut down before it listens, or between
\* that and Serve, does not serve.
Listen(s) ==
    /\ actor[s] = "started"
    /\ \/ s \in closing /\ Return(s, "error") /\ UNCHANGED failed
       \/ s \notin closing /\ Fail(s)
       \/ s \notin closing /\ Goto(s, "listening")
    /\ UNCHANGED <<tls, signalVars, serverVars, requestVars, ended>>

Serve(s) ==
    /\ actor[s] = "listening"
    /\ \/ s \in closing /\ Return(s, "error") /\ UNCHANGED failed
       \/ s \notin closing /\ Goto(s, "serving")
    /\ UNCHANGED <<tls, signalVars, serverVars, requestVars, ended>>

\* The connection is accepted, but Shutdown does not know of it yet; then its
\* handler begins.
Accept(r, s) ==
    /\ ended = "no" /\ r \in Of(s) /\ conn[r] = "none"
    /\ actor[s] = "serving" /\ s \notin closing /\ Untracked(s) = {}
    /\ conn' = [conn EXCEPT ![r] = "accepted"]
    /\ UNCHANGED <<tls, groupVars, signalVars, serverVars, kind, copies, answers, ended>>

Track(r, s) ==
    /\ ended = "no" /\ r \in Untracked(s)
    /\ conn' = [conn EXCEPT ![r] = "active"]
    /\ \/ r \in PublicRequests /\ \E k \in Kinds : kind' = [kind EXCEPT ![r] = k]
       \/ r \in InternalRequests /\ UNCHANGED kind
    /\ UNCHANGED <<tls, groupVars, signalVars, serverVars, copies, answers, ended>>

\* The listener is closed: ErrServerClosed.
Closed(s) ==
    /\ actor[s] = "serving" /\ s \in closing /\ Untracked(s) = {}
    /\ Return(s, "error")
    /\ UNCHANGED <<tls, failed, signalVars, serverVars, requestVars, ended>>

AcceptFails(s) ==
    /\ actor[s] = "serving" /\ s \notin closing /\ Untracked(s) = {}
    /\ Fail(s)
    /\ UNCHANGED <<tls, signalVars, serverVars, requestVars, ended>>

-----------------------------------------------------------------------------
(* Group.Run and the interrupt functions                                   *)

FirstReturns ==
    /\ ended = "no" /\ main = "waiting" /\ errors # <<>>
    /\ first' = Head(errors) /\ errors' = Tail(errors) /\ received' = 1
    /\ main' = "interrupting"
    /\ UNCHANGED <<tls, actor, at, failed, signalVars, serverVars, requestVars, ended>>

MutInterrupt ==
    /\ ended = "no" /\ main = "interrupting" /\ at \in DOMAIN Actors
    /\ LET a == Actors[at] IN
         \/ /\ a = "signal"
            /\ at' = at + 1 /\ UNCHANGED <<main, sig, canceled, closing, grace, owed>>
         \/ /\ a = "reloader" /\ canceled' = TRUE
            /\ at' = at + 1 /\ UNCHANGED <<main, sig, closing, grace, owed>>
         \/ /\ a \in Servers
            /\ closing' = closing \cup {a} /\ owed' = owed \cup Active(a)
            /\ grace' = IF a = "public" THEN "running" ELSE grace
            /\ main' = "draining" /\ UNCHANGED <<at, sig, canceled>>
    /\ UNCHANGED <<tls, actor, errors, first, received, failed, signals, requestVars, ended>>

\* Shutdown closes the listener and then waits.
Interrupt ==
    /\ ended = "no" /\ main = "interrupting" /\ at \in DOMAIN Actors
    /\ LET a == Actors[at] IN
         \/ /\ a = "signal" /\ sig' = [sig EXCEPT !.closed = TRUE]
            /\ at' = at + 1 /\ UNCHANGED <<main, canceled, closing, grace, owed>>
         \/ /\ a = "reloader" /\ canceled' = TRUE
            /\ at' = at + 1 /\ UNCHANGED <<main, sig, closing, grace, owed>>
         \/ /\ a \in Servers
            /\ closing' = closing \cup {a} /\ owed' = owed \cup Active(a)
            /\ grace' = IF a = "public" THEN "running" ELSE grace
            /\ main' = "draining" /\ UNCHANGED <<at, sig, canceled>>
    /\ UNCHANGED <<tls, actor, errors, first, received, failed, signals, requestVars, ended>>

MutDrained ==
    /\ ended = "no" /\ main = "draining"
    /\ grace' = IF grace = "running" THEN "stopped" ELSE grace
    /\ main' = "interrupting" /\ at' = at + 1
    /\ UNCHANGED <<tls, actor, errors, first, received, failed, signalVars, canceled, closing, owed,
                   requestVars, ended>>

\* Shutdown returns: no connection is active (it does not know of those a
\* handler took over), or the context of the public one is over.
Drained ==
    /\ ended = "no" /\ main = "draining"
    /\ Active(Actors[at]) = {} \/ (Actors[at] = "public" /\ grace = "over")
    /\ grace' = IF grace = "running" THEN "stopped" ELSE grace
    /\ main' = "interrupting" /\ at' = at + 1
    /\ UNCHANGED <<tls, actor, errors, first, received, failed, signalVars, canceled, closing, owed,
                   requestVars, ended>>

GraceEnds ==
    /\ ended = "no" /\ grace = "running" /\ grace' = "over"
    /\ UNCHANGED <<tls, groupVars, signalVars, canceled, closing, owed, requestVars, ended>>

MutCollect ==
    /\ ended = "no" /\ main = "interrupting" /\ at \notin DOMAIN Actors
    /\ errors # <<>> /\ errors' = Tail(errors) /\ received' = received + 1
    /\ first' = Head(errors)
    /\ UNCHANGED <<tls, actor, main, at, failed, signalVars, serverVars, requestVars, ended>>

Collect ==
    /\ ended = "no" /\ main = "interrupting" /\ at \notin DOMAIN Actors
    /\ errors # <<>> /\ errors' = Tail(errors) /\ received' = received + 1
    /\ UNCHANGED <<tls, actor, main, at, first, failed, signalVars, serverVars, requestVars, ended>>

\* main returns, or logs the error and exits.
Exit ==
    /\ ended = "no" /\ main = "interrupting" /\ at \notin DOMAIN Actors
    /\ received = Len(Actors)
    /\ ended' = IF first = "nil" THEN "exit 0" ELSE "exit 1"
    /\ UNCHANGED <<tls, groupVars, signalVars, serverVars, requestVars>>

-----------------------------------------------------------------------------
(* The world                                                               *)

\* An interrupt or SIGTERM.  Before Notify it has its default effect; after
\* that it is sent on the channel if there is room, and a send on a closed
\* channel panics.
Signal ==
    /\ ended = "no" /\ signals < MaxSignals /\ signals' = signals + 1
    /\ \/ /\ actor["signal"] = "started"
          /\ ended' = "killed" /\ UNCHANGED sig
       \/ /\ actor["signal"] # "started" /\ sig.closed
          /\ ended' = "panicked" /\ UNCHANGED sig
       \/ /\ actor["signal"] # "started" /\ ~sig.closed
          /\ sig' = [sig EXCEPT !.pending = TRUE, !.delivered = TRUE]
          /\ UNCHANGED ended
    /\ UNCHANGED <<tls, groupVars, serverVars, requestVars>>

\* A handler returns: whatever it proxied has ended or its context has.
Answer(r) ==
    /\ ended = "no" /\ conn[r] = "active"
    /\ conn' = [conn EXCEPT ![r] = "done"]
    /\ UNCHANGED <<tls, groupVars, signalVars, serverVars, kind, ended>>
    /\ \/ r \in PublicRequests /\ kind[r] = "write" /\ (R!Accept(r) \/ R!Refuse(r))
       \/ (r \in PublicRequests => kind[r] # "write") /\ UNCHANGED <<copies, answers>>

\* The reverse proxy takes over the connection of a tail, and later lets it go.
Hijack(r) ==
    /\ ended = "no" /\ r \in PublicRequests /\ kind[r] = "tail"
    /\ \/ conn[r] = "active" /\ conn' = [conn EXCEPT ![r] = "hijacked"]
       \/ conn[r] = "hijacked" /\ conn' = [conn EXCEPT ![r] = "done"]
    /\ UNCHANGED <<tls, groupVars, signalVars, serverVars, kind, copies, answers, ended>>

\* The handler of a write starts a goroutine per endpoint.  When the copy
\* arrives plays no part here: nothing waits for it.
Launch(r, e) ==
    /\ conn[r] = "active" /\ kind[r] = "write"
    /\ UNCHANGED <<tls, groupVars, signalVars, serverVars, conn, kind, ended>>
    /\ R!Launch(r, e)

-----------------------------------------------------------------------------

Actor(a) ==
    \/ a = "signal" /\ (Notify \/ Caught)
    \/ a = "reloader" /\ Watch
    \/ /\ a \in Servers
       /\ Listen(a) \/ Serve(a) \/ Closed(a) \/ \E r \in Of(a) : Track(r, a)
Run == FirstReturns \/ Interrupt \/ Drained \/ Collect \/ Exit

Next ==
    \/ \E a \in {"signal", "reloader", "public", "internal"} : Actor(a)
    \/ ReloadFails
    \/ \E s \in Servers : AcceptFails(s) \/ \E r \in Of(s) : Accept(r, s)
    \/ Run \/ GraceEnds \/ Signal
    \/ \E r \in Requests : Answer(r) \/ Hijack(r)
    \/ \E r \in PublicRequests, e \in Endpoints : Launch(r, e)

\* Goroutines run and the grace period passes.  No request has to end, and
\* nothing has to fail.
Fairness ==
    /\ \A a \in {"signal", "reloader", "public", "internal"} : WF_vars(Actor(a))
    /\ WF_vars(Run) /\ WF_vars(GraceEnds)

Spec == Init /\ [][Next]_vars /\ Fairness

-----------------------------------------------------------------------------
(* Properties                                                              *)

Exited == ended \in {"exit 0", "exit 1"}

\* The process does not walk away from its work (main.go:511-537): when it
\* exits, every actor has returned and both servers are shut down, whichever
\* actor was first, and each request that was in progress when the shutdown of
\* its server began is answered, or handed over to its handler, unless it is a
\* public one and the grace period is over.  So no write among them is left
\* with copies for some endpoints only, unless it was refused.  (A connection
\* that was accepted but not yet known to its server is not waited for, and
\* neither are copies on their way.)
OrderlyExit ==
    Exited =>
        /\ \A i \in DOMAIN Actors : actor[Actors[i]] = "returned"
        /\ closing = Servers
        /\ \A r \in owed :
             \/ conn[r] \in {"done", "hijacked"}
             \/ r \in PublicRequests /\ grace = "over"
        /\ \A r \in owed \cap PublicRequests :
             kind[r] = "write" => \/ grace = "over" \/ answers[r] = "failed"
                                  \/ \A e \in Endpoints : copies[r][e] # "none"

\* The exit code tells why the process ended (main.go:540), although a signal,
\* a failing server or reloader, and the returns that the shutdown itself
\* causes race for the group's channel: 0 only if a signal was delivered, 1
\* only if an actor failed that nobody had told to stop.
ExitTellsCause ==
    /\ ended = "exit 0" => sig.delivered
    /\ ended = "exit 1" => failed # {}

\* Once a signal is there, or an actor has returned, the process ends: also if
\* requests on the public server never do, if a server has not begun to listen
\* or the signal handler has not begun to wait.  Only a request on the internal
\* server holds it up, as its shutdown (main.go:536) has no limit.
StopEnds ==
    (ended = "no" /\ (sig.pending \/ errors # <<>> \/ main # "waiting"))
        ~> (ended # "no" \/ [](Active("internal") # {}))

\* A second signal does not cut short the grace period that public requests
\* in progress have (main.go:139-140).
DrainSurvives ==
    ended = "panicked" => \A r \in owed \cap PublicRequests : conn[r] # "active" \/ grace = "over"
=============================================================================
