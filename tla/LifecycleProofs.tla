-------------------------- MODULE LifecycleProofs ---------------------------
(***************************************************************************)
(* Proofs about Lifecycle, for every set of requests and endpoints and any *)
(* number of signals: the process stays well typed and no actor blocks on  *)
(* the channel of the group, the exit code tells why it ended, and it does *)
(* not leave before its work is done.                                      *)
(***************************************************************************)
EXTENDS Lifecycle, SequenceTheorems, TLAPS

-----------------------------------------------------------------------------
(* The inductive invariant                                                 *)

AllActors == {"signal", "reloader", "public", "internal"}
Places == {"started", "notified", "listening", "serving", "returned"}
Outcomes == {"nil", "error"}

GroupTypes ==
    /\ tls \in BOOLEAN
    /\ actor \in [AllActors -> Places]
    /\ errors \in Seq(Outcomes)
    /\ main \in {"waiting", "interrupting", "draining"}
    /\ at \in Nat \ {0} /\ received \in Nat
    /\ first \in {"none", "nil", "error"}
    /\ failed \subseteq {"reloader"} \cup Servers
SignalTypes ==
    /\ sig \in [pending : BOOLEAN, closed : BOOLEAN, delivered : BOOLEAN]
    /\ signals \in 0 .. MaxSignals
    /\ ended \in {"no", "exit 0", "exit 1", "killed", "panicked"}
ServerTypes ==
    /\ canceled \in BOOLEAN /\ closing \subseteq Servers
    /\ grace \in {"unset", "running", "over", "stopped"}
    /\ owed \subseteq Requests
RequestTypes ==
    /\ conn \in [Requests -> {"none", "accepted", "active", "hijacked", "done"}]
    /\ kind \in [PublicRequests -> Kinds \cup {"unknown"}]
    /\ copies \in [PublicRequests -> [Endpoints -> {"none", "sent"}]]
    /\ answers \in [PublicRequests -> {"none", "accepted", "failed"}]
Types == GroupTypes /\ SignalTypes /\ ServerTypes /\ RequestTypes

\* An actor that has returned has left one error, which is in the channel or
\* received.
Left(a) == IF actor[a] = "returned" THEN 1 ELSE 0
OneErrorEach ==
    /\ received + Len(errors) = Left("signal") + Left("reloader") + Left("public") + Left("internal")
    /\ ~tls => actor["reloader"] = "started"
    /\ main = "waiting" => received = 0

\* An error that is sent before anybody was told to stop has a cause, and main
\* returns such an error.
Causes ==
    /\ sig.pending => sig.delivered
    /\ main = "waiting" =>
         /\ ~sig.closed /\ ~canceled /\ closing = {}
         /\ \A i \in DOMAIN errors :
              (errors[i] = "nil" => sig.delivered) /\ (errors[i] = "error" => failed # {})
    /\ main # "waiting" =>
         first \in Outcomes /\ (first = "nil" => sig.delivered) /\ (first = "error" => failed # {})

\* The group has interrupted the actors before at.
Position(s) == IF s = "internal" THEN Len(Actors) ELSE Len(Actors) - 1
Draining(s) == main = "draining" /\ at = Position(s)
InOrder ==
    /\ main = "waiting" => at = 1
    /\ at <= Len(Actors) + 1
    /\ main = "draining" => \E s \in Servers : at = Position(s) /\ s \in closing
    /\ \A s \in Servers : at > Position(s) => s \in closing

\* A server that is not draining has nothing left of what it owed.
Over(r) == conn[r] \in {"done", "hijacked"} \/ (r \in PublicRequests /\ grace = "over")
Settled ==
    /\ \A r \in owed : conn[r] \in {"active", "done", "hijacked"}
    /\ \A s \in Servers : \A r \in owed \cap Of(s) : Draining(s) \/ Over(r)

\* A write whose handler has returned was refused, or has a copy for each
\* endpoint.
Whole(r) == answers[r] = "failed" \/ \A e \in Endpoints : copies[r][e] # "none"
WritesWhole ==
    \A r \in PublicRequests :
        /\ kind[r] = "write" /\ conn[r] = "done" => Whole(r)
        /\ conn[r] = "hijacked" => kind[r] = "tail"

Inv == /\ Types /\ OneErrorEach /\ Causes /\ InOrder /\ Settled /\ WritesWhole
       /\ OrderlyExit /\ ExitTellsCause

-----------------------------------------------------------------------------
(* The group                                                               *)

LEMMA GroupOrder ==
    ASSUME tls \in BOOLEAN
    PROVE  /\ Len(Actors) = IF tls THEN 4 ELSE 3
           /\ DOMAIN Actors = 1 .. Len(Actors)
           /\ Actors[1] = "signal"
           /\ tls => Actors[2] = "reloader"
           /\ \A s \in Servers : Position(s) \in DOMAIN Actors /\ Actors[Position(s)] = s
           /\ \A i \in DOMAIN Actors : Actors[i] \in Servers => i = Position(Actors[i])
           /\ \A i \in DOMAIN Actors : Actors[i] \in AllActors
<1>1. CASE tls
  <2>1. Actors = <<"signal", "reloader", "public", "internal">>
    BY <1>1 DEF Actors
  <2> HIDE DEF Actors
  <2> QED
    BY <1>1, <2>1 DEF Position, Servers, AllActors
<1>2. CASE ~tls
  <2>1. Actors = <<"signal", "public", "internal">>
    BY <1>2 DEF Actors
  <2> HIDE DEF Actors
  <2> QED
    BY <1>2, <2>1 DEF Position, Servers, AllActors
<1> QED
  BY <1>1, <1>2

\* An actor returns: one more error is in the channel, behind the others.
LEMMA ReturnSends ==
    ASSUME Types, NEW a \in AllActors, NEW err \in Outcomes, Return(a, err)
    PROVE  /\ errors' \in Seq(Outcomes) /\ Len(errors') = Len(errors) + 1
           /\ \A i \in DOMAIN errors' :
                errors'[i] = err \/ (i \in DOMAIN errors /\ errors'[i] = errors[i])
           /\ actor' \in [AllActors -> Places] /\ actor[a] # "returned"
           /\ actor' = [actor EXCEPT ![a] = "returned"]
           /\ UNCHANGED <<main, at, first, received>>
<1>1. errors \in Seq(Outcomes) /\ errors' = Append(errors, err)
  BY DEF Types, GroupTypes, Return
<1>2. /\ errors' \in Seq(Outcomes) /\ Len(errors') = Len(errors) + 1
      /\ \A i \in 1 .. Len(errors) : errors'[i] = errors[i]
      /\ errors'[Len(errors) + 1] = err
  BY <1>1, AppendProperties
<1>3. DOMAIN errors = 1 .. Len(errors) /\ DOMAIN errors' = 1 .. (Len(errors) + 1)
      /\ Len(errors) \in Nat
  BY <1>1, <1>2, LenProperties
<1>4. \A i \in 1 .. (Len(errors) + 1) : i \in 1 .. Len(errors) \/ i = Len(errors) + 1
  BY <1>3
<1>5. actor' \in [AllActors -> Places] /\ actor[a] # "returned"
      /\ actor' = [actor EXCEPT ![a] = "returned"]
  BY DEF Types, GroupTypes, Return, Places
<1> QED
  BY <1>2, <1>3, <1>4, <1>5 DEF Return

\* main receives the error at the head of the channel.
LEMMA Receiving ==
    ASSUME Types, errors # <<>>
    PROVE  /\ Head(errors) \in Outcomes /\ Head(errors) = errors[1] /\ 1 \in DOMAIN errors
           /\ Tail(errors) \in Seq(Outcomes) /\ Len(Tail(errors)) = Len(errors) - 1
<1>1. errors \in Seq(Outcomes)
  BY DEF Types, GroupTypes
<1>2. Len(errors) \in Nat /\ DOMAIN errors = 1 .. Len(errors) /\ Len(errors) # 0
  BY <1>1, LenProperties, EmptySeq
<1> QED
  BY <1>1, <1>2, HeadTailProperties

-----------------------------------------------------------------------------
(* The kinds of steps: an actor returns or goes on, or a request does; the  *)
(* others are actions of Lifecycle                                          *)

\* Before main has received an error, whoever returns has a cause.
Returning ==
    \E a \in AllActors, err \in Outcomes :
        /\ ended = "no" /\ (a = "reloader" => tls) /\ Return(a, err)
        /\ sig' \in {sig, [sig EXCEPT !.pending = FALSE]}
        /\ failed \subseteq failed' /\ failed' \subseteq {"reloader"} \cup Servers
        /\ main = "waiting" => /\ err = "nil" => sig.delivered
                               /\ err = "error" => failed' # {}
        /\ UNCHANGED <<tls, signals, serverVars, requestVars, ended>>

Going ==
    /\ \E a \in AllActors, p \in Places \ {"returned", "started"} :
         /\ actor[a] # "returned" /\ Goto(a, p) /\ (a = "reloader" => tls)
    /\ UNCHANGED <<tls, signalVars, serverVars, requestVars, ended>>

Serving ==
    /\ ended = "no"
    /\ UNCHANGED <<tls, groupVars, signalVars, serverVars, ended>>
    /\ \/ \E s \in Servers, r \in Requests : Accept(r, s) \/ Track(r, s)
       \/ \E r \in Requests : Answer(r) \/ Hijack(r)
       \/ \E r \in PublicRequests, e \in Endpoints : Launch(r, e)

LEMMA StepKinds ==
    ASSUME Types, Causes, [Next]_vars
    PROVE  \/ Returning \/ Going \/ Serving
           \/ FirstReturns \/ Interrupt \/ Drained \/ Collect \/ Exit
           \/ GraceEnds \/ Signal
           \/ UNCHANGED vars
<1>1. ASSUME Caught PROVE Returning
  BY <1>1 DEF Caught, Returning, Return, Types, GroupTypes, Causes, AllActors, Outcomes
<1>2. ASSUME Watch PROVE Returning
  BY <1>2 DEF Watch, Returning, Return, Types, GroupTypes, Causes, AllActors, Outcomes, signalVars
<1>3. ASSUME ReloadFails PROVE Returning
  BY <1>3 DEF ReloadFails, Fail, Returning, Return, Types, GroupTypes, AllActors, Outcomes, signalVars
<1>4. ASSUME NEW s \in Servers, AcceptFails(s) PROVE Returning
  BY <1>4 DEF AcceptFails, Fail, Returning, Return, Types, GroupTypes, AllActors, Servers, Outcomes, signalVars
<1>5. ASSUME NEW s \in Servers, Closed(s) PROVE Returning
  BY <1>5 DEF Closed, Returning, Return, Types, GroupTypes, Causes, AllActors, Servers, Outcomes, signalVars
<1>6. ASSUME NEW s \in Servers, Listen(s) \/ Serve(s) PROVE Returning \/ Going
  <2>1. /\ ended = "no" /\ actor[s] # "returned" /\ s \in AllActors /\ s # "reloader"
        /\ UNCHANGED <<tls, signalVars, serverVars, requestVars, ended>>
    BY <1>6 DEF Listen, Serve, Fail, Return, Goto, Servers, AllActors
  <2>2. CASE s \in closing /\ Return(s, "error") /\ UNCHANGED failed
    BY <2>1, <2>2 DEF Returning, Types, GroupTypes, Causes, Outcomes, signalVars
  <2>3. CASE Fail(s)
    BY <2>1, <2>3 DEF Fail, Returning, Types, GroupTypes, Outcomes, signalVars
  <2>4. CASE \E p \in {"listening", "serving"} : Goto(s, p)
    BY <2>1, <2>4 DEF Going, Places
  <2> QED
    BY <1>6, <2>2, <2>3, <2>4 DEF Listen, Serve
<1>7. ASSUME Notify PROVE Going
  BY <1>7 DEF Notify, Going, Goto, AllActors, Places
<1>8. ASSUME NEW s \in Servers, NEW r \in Of(s), Accept(r, s) \/ Track(r, s) PROVE Serving
  <2>1. r \in Requests
    BY DEF Of, Requests, Servers
  <2> QED
    BY <1>8, <2>1 DEF Serving, Accept, Track
<1>9. ASSUME NEW r \in Requests, Answer(r) \/ Hijack(r) PROVE Serving
  BY <1>9 DEF Serving, Answer, Hijack
<1>10. ASSUME NEW r \in PublicRequests, NEW e \in Endpoints, Launch(r, e) PROVE Serving
  BY <1>10 DEF Serving, Launch, R!Launch
<1>11. ASSUME NEW a \in AllActors, Actor(a) PROVE Returning \/ Going \/ Serving
  BY <1>11, <1>1, <1>2, <1>5, <1>6, <1>7, <1>8 DEF Actor
<1> QED
  BY <1>3, <1>4, <1>8, <1>9, <1>10, <1>11 DEF Next, Run, AllActors

-----------------------------------------------------------------------------
(* Each part of the invariant is preserved                                 *)

\* What a request's step may do to the connection and to a write.
LEMMA ServingEffect ==
    ASSUME Types, Serving
    PROVE  \/ \E r \in Requests :
                /\ conn[r] = "none" /\ conn' = [conn EXCEPT ![r] = "accepted"]
                /\ UNCHANGED <<kind, copies, answers>>
           \/ \E r \in Requests :
                /\ conn[r] = "accepted" /\ conn' = [conn EXCEPT ![r] = "active"]
                /\ \/ r \in PublicRequests /\ \E k \in Kinds : kind' = [kind EXCEPT ![r] = k]
                   \/ r \notin PublicRequests /\ UNCHANGED kind
                /\ UNCHANGED <<copies, answers>>
           \/ \E r \in Requests :
                /\ conn[r] = "active" /\ conn' = [conn EXCEPT ![r] = "done"]
                /\ UNCHANGED <<kind, copies>>
                /\ \/ /\ r \in PublicRequests /\ kind[r] = "write"
                      /\ \/ /\ \A e \in Endpoints : copies[r][e] # "none"
                            /\ answers' = [answers EXCEPT ![r] = "accepted"]
                         \/ answers' = [answers EXCEPT ![r] = "failed"]
                   \/ (r \in PublicRequests => kind[r] # "write") /\ UNCHANGED answers
           \/ \E r \in PublicRequests :
                /\ kind[r] = "tail" /\ UNCHANGED <<kind, copies, answers>>
                /\ \/ conn[r] = "active" /\ conn' = [conn EXCEPT ![r] = "hijacked"]
                   \/ conn[r] = "hijacked" /\ conn' = [conn EXCEPT ![r] = "done"]
           \/ \E r \in PublicRequests, e \in Endpoints :
                /\ copies' = [copies EXCEPT ![r][e] = "sent"]
                /\ UNCHANGED <<conn, kind, answers>>
<1>1. ASSUME NEW s \in Servers, NEW r \in Requests, Track(r, s)
      PROVE  /\ conn[r] = "accepted" /\ conn' = [conn EXCEPT ![r] = "active"]
             /\ \/ r \in PublicRequests /\ \E k \in Kinds : kind' = [kind EXCEPT ![r] = k]
                \/ r \notin PublicRequests /\ UNCHANGED kind
             /\ UNCHANGED <<copies, answers>>
  BY <1>1, LifecycleAssumption DEF Track, Untracked
<1>2. ASSUME NEW r \in Requests, Answer(r)
      PROVE  /\ conn[r] = "active" /\ conn' = [conn EXCEPT ![r] = "done"]
             /\ UNCHANGED <<kind, copies>>
             /\ \/ /\ r \in PublicRequests /\ kind[r] = "write"
                   /\ \/ /\ \A e \in Endpoints : copies[r][e] # "none"
                         /\ answers' = [answers EXCEPT ![r] = "accepted"]
                      \/ answers' = [answers EXCEPT ![r] = "failed"]
                \/ (r \in PublicRequests => kind[r] # "write") /\ UNCHANGED answers
  BY <1>2 DEF Answer, R!Accept, R!Refuse
<1> QED
  BY <1>1, <1>2 DEF Serving, Accept, Hijack, Launch, R!Launch

LEMMA TypesStep ==
    ASSUME Types, Causes, InOrder, [Next]_vars
    PROVE  Types'
<1> USE DEF Types
<1>1. ASSUME UNCHANGED <<tls, groupVars>> PROVE GroupTypes'
  BY <1>1 DEF groupVars, GroupTypes
<1>2. ASSUME UNCHANGED <<signalVars, ended>> PROVE SignalTypes'
  BY <1>2 DEF signalVars, SignalTypes
<1>3. ASSUME UNCHANGED serverVars PROVE ServerTypes'
  BY <1>3 DEF serverVars, ServerTypes
<1>4. ASSUME UNCHANGED requestVars PROVE RequestTypes'
  BY <1>4 DEF requestVars, RequestTypes
<1>5. CASE Returning
  <2>1. PICK a \in AllActors, err \in Outcomes : Return(a, err)
    BY <1>5 DEF Returning
  <2>2. GroupTypes'
    BY <1>5, <2>1, ReturnSends DEF Returning, GroupTypes
  <2>3. SignalTypes'
    BY <1>5 DEF Returning, SignalTypes
  <2> QED
    BY <1>5, <2>2, <2>3, <1>3, <1>4 DEF Returning
<1>6. CASE Going
  <2>1. GroupTypes'
    BY <1>6 DEF Going, Goto, GroupTypes
  <2> QED
    BY <1>6, <2>1, <1>2, <1>3, <1>4 DEF Going
<1>7. CASE Serving
  <2>1. RequestTypes'
    <3>1. conn' \in [Requests -> {"none", "accepted", "active", "hijacked", "done"}]
      BY <1>7, ServingEffect DEF Requests, RequestTypes
    <3>2. kind' \in [PublicRequests -> Kinds \cup {"unknown"}]
      BY <1>7, ServingEffect DEF RequestTypes
    <3>3. copies' \in [PublicRequests -> [Endpoints -> {"none", "sent"}]]
      BY <1>7, ServingEffect DEF RequestTypes
    <3>4. answers' \in [PublicRequests -> {"none", "accepted", "failed"}]
      BY <1>7, ServingEffect DEF RequestTypes
    <3> QED
      BY <3>1, <3>2, <3>3, <3>4 DEF RequestTypes
  <2> QED
    BY <1>7, <2>1, <1>1, <1>2, <1>3 DEF Serving
<1>8. CASE FirstReturns
  <2>1. GroupTypes'
    BY <1>8, Receiving DEF FirstReturns, Outcomes, GroupTypes
  <2> QED
    BY <1>8, <2>1, <1>2, <1>3, <1>4 DEF FirstReturns
<1>9. CASE Interrupt
  <2>1. GroupTypes'
    BY <1>9 DEF Interrupt, GroupTypes
  <2>2. SignalTypes'
    BY <1>9 DEF Interrupt, SignalTypes
  <2>3. ServerTypes'
    BY <1>9 DEF Interrupt, ServerTypes, Active, Of, Requests, Servers
  <2> QED
    BY <1>9, <2>1, <2>2, <2>3, <1>4 DEF Interrupt
<1>10. CASE Drained
  <2>1. GroupTypes'
    BY <1>10 DEF Drained, GroupTypes
  <2>2. ServerTypes'
    BY <1>10 DEF Drained, ServerTypes
  <2> QED
    BY <1>10, <2>1, <2>2, <1>2, <1>4 DEF Drained
<1>11. CASE Collect
  <2>1. GroupTypes'
    BY <1>11, Receiving DEF Collect, GroupTypes
  <2> QED
    BY <1>11, <2>1, <1>2, <1>3, <1>4 DEF Collect
<1>12. CASE Exit
  <2>1. SignalTypes'
    BY <1>12 DEF Exit, SignalTypes, signalVars
  <2> QED
    BY <1>12, <2>1, <1>1, <1>3, <1>4 DEF Exit
<1>13. CASE GraceEnds
  <2>1. ServerTypes'
    BY <1>13 DEF GraceEnds, ServerTypes
  <2> QED
    BY <1>13, <2>1, <1>1, <1>2, <1>4 DEF GraceEnds
<1>14. CASE Signal
  <2>1. signals' \in 0 .. MaxSignals
    BY <1>14, LifecycleAssumption DEF Signal, SignalTypes
  <2>2. SignalTypes'
    BY <1>14, <2>1 DEF Signal, SignalTypes
  <2> QED
    BY <1>14, <2>2, <1>1, <1>3, <1>4 DEF Signal
<1>15. CASE UNCHANGED vars
  BY <1>15, <1>1, <1>2, <1>3, <1>4 DEF vars
<1> QED
  BY <1>5, <1>6, <1>7, <1>8, <1>9, <1>10, <1>11, <1>12, <1>13, <1>14, <1>15, StepKinds

LEMMA OneErrorStep ==
    ASSUME Types, OneErrorEach, Causes, [Next]_vars
    PROVE  OneErrorEach'
<1> USE DEF Types, GroupTypes
<1>1. Len(errors) \in Nat
  BY LenProperties
<1>2. ASSUME UNCHANGED <<tls, actor>>, received' + Len(errors') = received + Len(errors),
             main' = "waiting" => received' = 0
      PROVE  OneErrorEach'
  BY <1>2 DEF OneErrorEach, Left
<1>3. CASE Returning
  <2>1. PICK a \in AllActors, err \in Outcomes : Return(a, err) /\ (a = "reloader" => tls)
    BY <1>3 DEF Returning
  <2>2. received' + Len(errors') = received + Len(errors) + 1
    <3>1. Len(errors') = Len(errors) + 1 /\ received' = received
      BY <2>1, ReturnSends
    <3> HIDE DEF Types
    <3> QED
      BY <1>1, <3>1 DEF Types
  <2>3. \A b \in AllActors : Left(b)' = IF b = a THEN 1 ELSE Left(b)
    BY <2>1, ReturnSends DEF Left
  <2>4. Left(a) = 0
    BY <2>1, ReturnSends DEF Left
  <2>5. (~tls' => actor'["reloader"] = "started") /\ (main' = "waiting" => received' = 0)
    BY <1>3, <2>1, ReturnSends DEF OneErrorEach, Returning, AllActors
  <2>6. /\ Left("signal") \in Nat /\ Left("reloader") \in Nat
        /\ Left("public") \in Nat /\ Left("internal") \in Nat
    BY DEF Left
  <2> QED
    BY <1>1, <2>2, <2>3, <2>4, <2>5, <2>6 DEF OneErrorEach, AllActors
<1>4. CASE Going
  <2>1. PICK a \in AllActors, p \in Places \ {"returned", "started"} :
          actor[a] # "returned" /\ Goto(a, p) /\ (a = "reloader" => tls)
    BY <1>4 DEF Going
  <2>2. \A b \in AllActors : Left(b)' = Left(b)
    BY <2>1 DEF Left, Goto
  <2> QED
    BY <1>4, <2>1, <2>2 DEF OneErrorEach, AllActors, Going, Goto
<1>5. CASE FirstReturns \/ Collect
  <2>1. /\ errors # <<>> /\ errors' = Tail(errors) /\ received' = received + 1
        /\ main' = "interrupting" /\ UNCHANGED <<tls, actor>>
    BY <1>5 DEF FirstReturns, Collect, OneErrorEach
  <2>2. Len(errors') = Len(errors) - 1
    BY <2>1, Receiving
  <2> QED
    BY <1>1, <1>2, <2>1, <2>2
<1>6. CASE UNCHANGED <<tls, actor, received, errors>> /\ (main' = "waiting" => main = "waiting")
  BY <1>2, <1>6 DEF OneErrorEach
<1> QED
  BY <1>3, <1>4, <1>5, <1>6, StepKinds
     DEF Serving, Interrupt, Drained, Exit, GraceEnds, Signal, vars, groupVars

LEMMA CausesStep ==
    ASSUME Types, Causes, [Next]_vars
    PROVE  Causes'
<1> USE DEF Types, GroupTypes, SignalTypes
<1>1. ASSUME UNCHANGED <<main, errors, first, sig, failed, canceled, closing>> PROVE Causes'
  BY <1>1 DEF Causes
<1>2. CASE Returning
  <2>1. PICK a \in AllActors, err \in Outcomes :
          /\ Return(a, err)
          /\ main = "waiting" => (err = "nil" => sig.delivered) /\ (err = "error" => failed' # {})
    BY <1>2 DEF Returning
  <2>2. /\ sig'.delivered = sig.delivered /\ sig'.closed = sig.closed
        /\ sig'.pending => sig.pending
        /\ failed \subseteq failed' /\ UNCHANGED <<main, first, canceled, closing>>
    BY <1>2, <2>1, ReturnSends DEF Returning, serverVars
  <2>3. \A i \in DOMAIN errors' :
           errors'[i] = err \/ (i \in DOMAIN errors /\ errors'[i] = errors[i])
    BY <2>1, ReturnSends
  <2> QED
    BY <2>1, <2>2, <2>3 DEF Causes
<1>3. CASE Going \/ Serving \/ Exit \/ GraceEnds
  BY <1>1, <1>3 DEF Going, Goto, Serving, Exit, GraceEnds, signalVars, serverVars, groupVars
<1>4. CASE FirstReturns
  BY <1>4, Receiving DEF FirstReturns, Causes, signalVars, Outcomes
<1>5. CASE Interrupt
  BY <1>5 DEF Interrupt, Causes
<1>6. CASE Drained \/ Collect
  BY <1>6 DEF Drained, Collect, Causes, signalVars
<1>7. CASE Signal
  <2>1. /\ UNCHANGED <<main, errors, first, failed, canceled, closing>> /\ sig'.closed = sig.closed
        /\ sig.delivered => sig'.delivered
        /\ sig'.pending => sig.pending \/ sig'.delivered
    BY <1>7 DEF Signal, groupVars, serverVars
  <2> QED
    BY <2>1 DEF Causes
<1>8. CASE UNCHANGED vars
  BY <1>1, <1>8 DEF vars, groupVars, signalVars, serverVars
<1> QED
  BY <1>2, <1>3, <1>4, <1>5, <1>6, <1>7, <1>8, StepKinds

LEMMA InOrderStep ==
    ASSUME Types, Causes, InOrder, [Next]_vars
    PROVE  InOrder'
<1> USE DEF Types, GroupTypes
<1>1. tls' = tls
  BY StepKinds DEF Returning, Going, Serving, FirstReturns, Interrupt, Drained, Collect, Exit,
                   GraceEnds, Signal, vars
<1>2. Actors' = Actors /\ \A s \in Servers : Position(s)' = Position(s)
  BY <1>1 DEF Actors, Position
<1>3. Len(Actors) \in {3, 4}
      /\ \A s \in Servers : Position(s) \in Nat /\ Position(s) > 1 /\ Position(s) <= Len(Actors)
  BY GroupOrder DEF Position
<1>4. ASSUME UNCHANGED <<main, at, closing>> PROVE InOrder'
  BY <1>2, <1>4 DEF InOrder
<1>5. CASE FirstReturns
  BY <1>2, <1>5 DEF FirstReturns, InOrder, serverVars
<1>6. CASE Interrupt
  <2>1. at \in 1 .. Len(Actors) /\ main = "interrupting"
    BY <1>6, GroupOrder DEF Interrupt
  <2>2. CASE Actors[at] \in Servers
    <3>1. at = Position(Actors[at]) /\ at' = at /\ main' = "draining"
          /\ closing' = closing \cup {Actors[at]}
      BY <1>6, <2>1, <2>2, GroupOrder DEF Interrupt, Servers
    <3> QED
      BY <1>2, <2>2, <3>1 DEF InOrder
  <2>3. CASE Actors[at] \notin Servers
    <3>1. at' = at + 1 /\ UNCHANGED <<main, closing>>
      BY <1>6, <2>3 DEF Interrupt
    <3>2. \A s \in Servers : at # Position(s)
      BY <2>3, GroupOrder
    <3> QED
      BY <1>2, <1>3, <2>1, <3>1, <3>2 DEF InOrder
  <2> QED
    BY <2>2, <2>3
<1>7. CASE Drained
  <2>1. PICK s \in Servers : at = Position(s) /\ s \in closing
    BY <1>7 DEF Drained, InOrder
  <2>2. \A t \in Servers : Position(t) = at => t = s
    BY <2>1, GroupOrder
  <2>3. at' = at + 1 /\ main' = "interrupting" /\ closing' = closing
    BY <1>7 DEF Drained
  <2>4. \A t \in Servers : at + 1 > Position(t) => at > Position(t) \/ at = Position(t)
    BY <1>3
  <2> QED
    BY <1>2, <1>3, <2>1, <2>2, <2>3, <2>4 DEF InOrder
<1>8. CASE Returning
  BY <1>4, <1>8, ReturnSends DEF Returning, serverVars
<1> QED
  BY <1>4, <1>5, <1>6, <1>7, <1>8, StepKinds
     DEF Going, Goto, Serving, Collect, Exit, GraceEnds, Signal, vars, groupVars, serverVars

LEMMA SettledStep ==
    ASSUME Types, Causes, InOrder, Settled, [Next]_vars
    PROVE  Settled'
<1> USE DEF Types, GroupTypes, ServerTypes, RequestTypes
<1>1. tls' = tls
  BY StepKinds DEF Returning, Going, Serving, FirstReturns, Interrupt, Drained, Collect, Exit,
                   GraceEnds, Signal, vars
<1>2. \A s \in Servers : Position(s)' = Position(s)
  BY <1>1 DEF Actors, Position
<1>3. ASSUME UNCHANGED <<main, at, owed, conn, grace>> PROVE Settled'
  BY <1>2, <1>3 DEF Settled, Draining, Over
<1>4. CASE Serving
  <2>1. UNCHANGED <<main, at, owed, grace>>
    BY <1>4 DEF Serving, groupVars, serverVars
  <2>2. \A r \in Requests : conn[r] \in {"active", "done", "hijacked"} =>
          /\ conn'[r] \in {"active", "done", "hijacked"}
          /\ conn[r] # "active" => conn'[r] # "active"
    BY <1>4, ServingEffect DEF Requests
  <2> QED
    BY <1>2, <2>1, <2>2 DEF Settled, Draining, Over
<1>5. CASE FirstReturns
  BY <1>2, <1>5 DEF FirstReturns, Settled, Draining, Over, serverVars, requestVars
<1>6. CASE Interrupt
  <2>1. at \in DOMAIN Actors /\ main = "interrupting" /\ UNCHANGED conn
    BY <1>6 DEF Interrupt, requestVars
  <2>2. \A r \in owed : conn[r] \in {"done", "hijacked"} \/ (r \in PublicRequests /\ grace = "over")
    BY <2>1, LifecycleAssumption DEF Settled, Draining, Over, Of, Requests, Servers
  <2>3. CASE Actors[at] \in Servers
    <3>1. PICK s \in Servers : s = Actors[at]
      BY <2>3
    <3>2. /\ at' = Position(s) /\ main' = "draining" /\ owed' = owed \cup Active(s)
          /\ grace' = IF s = "public" THEN "running" ELSE grace
      BY <1>6, <2>1, <3>1, GroupOrder DEF Interrupt, Servers
    <3>3. Draining(s)'
      BY <1>2, <3>2 DEF Draining
    <3>4. ASSUME NEW t \in Servers, t # s, NEW r \in owed' \cap Of(t) PROVE Over(r)'
      <4>1. r \in owed /\ (r \in PublicRequests => s = "internal")
        BY <3>2, <3>4, LifecycleAssumption DEF Active, Of, Servers
      <4> QED
        BY <2>1, <2>2, <3>2, <4>1 DEF Over
    <3>5. \A r \in owed' : conn'[r] \in {"active", "done", "hijacked"}
      BY <2>1, <3>2 DEF Settled, Active
    <3> QED
      BY <3>3, <3>4, <3>5 DEF Settled, Of
  <2>4. CASE Actors[at] \notin Servers
    BY <1>6, <2>1, <2>2, <2>4 DEF Interrupt, Settled, Draining, Over
  <2> QED
    BY <2>3, <2>4
<1>7. CASE Drained
  <2>1. main = "draining" /\ UNCHANGED <<conn, owed>> /\ (grace = "over" => grace' = "over")
    BY <1>7 DEF Drained, requestVars
  <2>2. PICK s \in Servers : at = Position(s)
    BY <2>1 DEF InOrder
  <2>3. Actors[at] = s /\ \A t \in Servers : Position(t) = at => t = s
    BY <2>2, GroupOrder
  <2>4. \A r \in owed \cap Of(s) : Over(r)
    <3>1. CASE Active(s) = {}
      BY <3>1 DEF Settled, Over, Active
    <3>2. CASE s = "public" /\ grace = "over"
      BY <3>2 DEF Over, Of
    <3> QED
      BY <1>7, <2>3, <3>1, <3>2 DEF Drained
  <2>5. \A t \in Servers : \A r \in owed \cap Of(t) : Over(r)
    BY <2>3, <2>4 DEF Settled, Draining
  <2> QED
    BY <2>1, <2>5 DEF Settled, Over, Of
<1>8. CASE GraceEnds
  BY <1>2, <1>8 DEF GraceEnds, Settled, Draining, Over, groupVars, requestVars
<1>9. CASE Returning
  BY <1>3, <1>9, ReturnSends DEF Returning, serverVars, requestVars
<1> QED
  BY <1>3, <1>4, <1>5, <1>6, <1>7, <1>8, <1>9, StepKinds
     DEF Going, Goto, Collect, Exit, Signal, vars, groupVars, serverVars, requestVars

LEMMA WritesWholeStep ==
    ASSUME Types, Causes, WritesWhole, [Next]_vars
    PROVE  WritesWhole'
<1> USE DEF Types, RequestTypes
<1>1. ASSUME UNCHANGED requestVars PROVE WritesWhole'
  BY <1>1 DEF requestVars, WritesWhole, Whole
<1>2. CASE Serving
  <2>1. ASSUME NEW q \in Requests, conn' = [conn EXCEPT ![q] = "accepted"],
               UNCHANGED <<kind, copies, answers>>
        PROVE  WritesWhole'
    BY <2>1 DEF WritesWhole, Whole, Requests
  <2>2. ASSUME NEW q \in Requests, conn[q] = "accepted", conn' = [conn EXCEPT ![q] = "active"],
               UNCHANGED <<copies, answers>>,
               \A r \in PublicRequests : r # q => kind'[r] = kind[r]
        PROVE  WritesWhole'
    BY <2>2 DEF WritesWhole, Whole, Requests
  <2>3. ASSUME NEW q \in Requests, conn[q] = "active", conn' = [conn EXCEPT ![q] = "done"],
               UNCHANGED <<kind, copies>>,
               \A r \in PublicRequests : r # q => answers'[r] = answers[r],
               q \in PublicRequests /\ kind[q] = "write" => Whole(q)'
        PROVE  WritesWhole'
    BY <2>3 DEF WritesWhole, Whole, Requests
  <2>4. ASSUME NEW q \in PublicRequests, kind[q] = "tail", UNCHANGED <<kind, copies, answers>>,
               conn' \in {[conn EXCEPT ![q] = "hijacked"], [conn EXCEPT ![q] = "done"]}
        PROVE  WritesWhole'
    BY <2>4 DEF WritesWhole, Whole, Requests
  <2>5. ASSUME NEW q \in PublicRequests, NEW e \in Endpoints,
               copies' = [copies EXCEPT ![q][e] = "sent"], UNCHANGED <<conn, kind, answers>>
        PROVE  WritesWhole'
    BY <2>5 DEF WritesWhole, Whole
  <2> QED
    BY <1>2, <2>1, <2>2, <2>3, <2>4, <2>5, ServingEffect DEF Whole
<1> QED
  BY <1>1, <1>2, StepKinds
     DEF Returning, Going, FirstReturns, Interrupt, Drained, Collect, Exit, GraceEnds, Signal, vars

\* The exit itself: everything main waited for has happened.
LEMMA ExitIsOrderly ==
    ASSUME Types, OneErrorEach, InOrder, Settled, WritesWhole, Exit
    PROVE  OrderlyExit'
<1> USE DEF Types, GroupTypes, ServerTypes, RequestTypes
<1>1. /\ UNCHANGED <<tls, groupVars, signalVars, serverVars, requestVars>>
      /\ main = "interrupting" /\ at \notin DOMAIN Actors /\ received = Len(Actors)
  BY DEF Exit
<1>2. Len(errors) \in Nat /\ Len(Actors) = IF tls THEN 4 ELSE 3
  BY LenProperties, GroupOrder
<1>3. \A a \in AllActors : (a = "reloader" => tls) => actor[a] = "returned"
  BY <1>1, <1>2 DEF OneErrorEach, Left, AllActors
<1>4. \A i \in DOMAIN Actors : actor[Actors[i]] = "returned"
  <2>1. \A i \in DOMAIN Actors : Actors[i] = "reloader" => tls
    BY DEF Actors
  <2> QED
    BY <1>3, <2>1, GroupOrder
<1>5. closing = Servers
  <2>1. at > Len(Actors)
    BY <1>1, <1>2, GroupOrder
  <2>2. \A s \in Servers : Position(s) <= Len(Actors) /\ Position(s) \in Nat
    BY <1>2 DEF Position
  <2>3. \A s \in Servers : at > Position(s)
    BY <1>2, <2>1, <2>2
  <2>4. \A s \in Servers : s \in closing
    BY <2>3 DEF InOrder
  <2> QED
    BY <2>4
<1>6. \A r \in owed : Over(r)
  BY <1>1 DEF Settled, Draining, Of, Requests, Servers
<1>7. \A r \in owed \cap PublicRequests :
        kind[r] = "write" => grace = "over" \/ Whole(r)
  BY <1>6 DEF Over, WritesWhole
<1>8. Actors' = Actors
  BY <1>1 DEF Actors
<1> QED
  BY <1>1, <1>4, <1>5, <1>6, <1>7, <1>8
     DEF OrderlyExit, Over, Whole, groupVars, signalVars, serverVars, requestVars

\* Nothing happens after the end, and only Exit ends the process by an exit.
LEMMA ExitsLast ==
    ASSUME Types, Causes, [Next]_vars
    PROVE  Exit \/ UNCHANGED vars \/ ~Exited'
<1>1. CASE Signal
  BY <1>1 DEF Signal, Exited
<1> QED
  BY <1>1, StepKinds
     DEF Returning, Going, Goto, Serving, FirstReturns, Interrupt, Drained, Collect, GraceEnds, Exited

LEMMA OrderlyStep ==
    ASSUME Inv, [Next]_vars
    PROVE  OrderlyExit'
<1> USE DEF Inv
<1>1. CASE Exit
  BY <1>1, ExitIsOrderly
<1>2. CASE UNCHANGED vars
  BY <1>2 DEF OrderlyExit, Exited, Actors, vars, groupVars, serverVars, requestVars
<1>3. CASE ~Exited'
  BY <1>3 DEF OrderlyExit
<1> QED
  BY <1>1, <1>2, <1>3, ExitsLast

LEMMA TellsStep ==
    ASSUME Inv, [Next]_vars
    PROVE  ExitTellsCause'
<1> USE DEF Inv
<1>1. CASE Exit
  BY <1>1 DEF Exit, Causes, ExitTellsCause, Outcomes, groupVars, signalVars
<1>2. CASE UNCHANGED vars
  BY <1>2 DEF ExitTellsCause, vars, groupVars, signalVars
<1>3. CASE ~Exited'
  BY <1>3 DEF ExitTellsCause, Exited
<1> QED
  BY <1>1, <1>2, <1>3, ExitsLast

-----------------------------------------------------------------------------
(* The theorems                                                            *)

LEMMA InvInit == Init => Inv
<1> SUFFICES ASSUME Init PROVE Inv
  OBVIOUS
<1>1. Types
  <2>1. GroupTypes
    BY EmptySeq DEF Init, GroupTypes, AllActors, Places
  <2>2. SignalTypes
    BY LifecycleAssumption DEF Init, SignalTypes
  <2>3. ServerTypes /\ RequestTypes
    BY DEF Init, R!Init, ServerTypes, RequestTypes
  <2> QED
    BY <2>1, <2>2, <2>3 DEF Types
<1>2. OneErrorEach
  BY EmptySeq DEF Init, OneErrorEach, Left
<1>3. Causes
  BY DEF Init, Causes
<1>4. InOrder
  BY <1>1, GroupOrder DEF Init, InOrder, Position, Types, GroupTypes
<1>5. Settled /\ WritesWhole
  BY DEF Init, Settled, WritesWhole, Requests
<1>6. OrderlyExit /\ ExitTellsCause
  BY DEF Init, OrderlyExit, Exited, ExitTellsCause
<1> QED
  BY <1>1, <1>2, <1>3, <1>4, <1>5, <1>6 DEF Inv

LEMMA InvNext == Inv /\ [Next]_vars => Inv'
BY TypesStep, OneErrorStep, CausesStep, InOrderStep, SettledStep, WritesWholeStep, OrderlyStep,
   TellsStep DEF Inv

LEMMA InvTypes == Inv => TypeOK
<1> SUFFICES ASSUME Inv PROVE TypeOK
  OBVIOUS
<1> USE DEF Inv, Types
<1>1. Len(errors) \in Nat /\ Len(Actors) \in {3, 4} /\ (~tls => Len(Actors) = 3)
  BY LenProperties, GroupOrder DEF GroupTypes
<1>2. received + Len(errors) <= Len(Actors)
  <2>1. Left("reloader") = 1 => tls
    BY DEF OneErrorEach, Left
  <2>2. \A a \in AllActors : Left(a) \in {0, 1}
    BY DEF Left
  <2> QED
    BY <1>1, <2>1, <2>2, GroupOrder DEF OneErrorEach, AllActors, GroupTypes
<1>3. at \in 1 .. (Len(Actors) + 1) /\ received \in 0 .. Len(Actors)
  BY <1>1, <1>2 DEF InOrder, GroupTypes
<1> QED
  BY <1>2, <1>3 DEF TypeOK, GroupTypes, SignalTypes, ServerTypes, RequestTypes, AllActors, Places,
                    Outcomes

LEMMA Invariance == Spec => []Inv
BY InvInit, InvNext, PTL DEF Spec

\* The process stays well typed, for any requests, endpoints and number of
\* signals; in particular the channel of Group.Run has room for the error of
\* every actor, so that none blocks on it (main.go:284, 540).
THEOREM TypeCorrect == Spec => []TypeOK
BY Invariance, InvTypes, PTL

\* Exit code 0 means that a signal was delivered, 1 that an actor failed which
\* nobody had told to stop (main.go:540).
THEOREM ExitCodeTells == Spec => []ExitTellsCause
<1>1. Inv => ExitTellsCause
  BY DEF Inv
<1> QED
  BY <1>1, Invariance, PTL

\* However the actors, the shutdown and the requests interleave: when the
\* process exits, all actors have returned and what was in progress is answered,
\* handed over, or out of time (main.go:511-537).
THEOREM ExitsInOrder == Spec => []OrderlyExit
<1>1. Inv => OrderlyExit
  BY DEF Inv
<1> QED
  BY <1>1, Invariance, PTL
=============================================================================
