---------------------------- MODULE FanoutProofs ----------------------------
(***************************************************************************)
(* Proofs about Fanout, for every number of endpoints: what 200 and 502    *)
(* mean, that no goroutine outlives the handler, and that the fan-out      *)
(* implements Broadcast.                                                   *)
(***************************************************************************)
EXTENDS Fanout, FiniteSetTheorems, TLAPS

-----------------------------------------------------------------------------
(* The inductive invariant                                                 *)

Live == {e \in Endpoints : g[e] \in Running}
Confirmed == {e \in Endpoints : fanoutRequests[e] = "2xx" /\ g[e] \in {"ending", "ended"}}

\* The WaitGroup counts the goroutines that have not signalled, and the one
\* between wg.Add and the go statement.
WgCounts == wg = Cardinality(Live) + (IF pc = "go" THEN 1 ELSE 0)

\* The atomic counter counts the endpoints confirmed and added.
SuccessCounts == successCnt = Cardinality(Confirmed)

\* Where a goroutine is determines what has been counted for its endpoint, and
\* a 2xx was counted only if the endpoint accepted.
Truthful ==
    \A e \in Endpoints :
        /\ g[e] \in {"none", "begin", "flight"} => fanoutRequests[e] = "none"
        /\ g[e] = "counted" => fanoutRequests[e] = "2xx"
        /\ fanoutRequests[e] = "2xx" => net[e] = "accepted"

\* The loop has started the goroutines of the endpoints it has passed.
LoopProgress ==
    /\ \A e \in Endpoints : g[e] = "none" <=> e > spawned
    /\ pc = "read" => spawned = 0
    /\ pc = "go" => spawned < N
    /\ pc \in {"wait", "check", "ok"} => spawned = N
    /\ pc \in {"loop", "go", "wait", "check", "ok"} => N > 0

AllConfirmed == N > 0 /\ \A e \in Endpoints : fanoutRequests[e] = "2xx"
SomeUnconfirmed == \E e \in Endpoints : fanoutRequests[e] # "2xx"

\* What has been written so far, and what it says.
StatusTells ==
    /\ pc \in {"read", "loop", "go", "wait", "check"} => status = 0
    /\ pc = "ok" => status \in {0, 502} /\ (status = 0 => AllConfirmed)
    /\ pc \in {"return", "done"} => status # 0
    /\ status = 200 => AllConfirmed
    /\ status = 502 => SomeUnconfirmed

Inv == /\ TypeOK /\ WgCounts /\ SuccessCounts /\ Truthful
       /\ LoopProgress /\ StatusTells /\ NoOrphans

-----------------------------------------------------------------------------
(* Counting                                                                *)

\* The endpoints are a finite set of N elements.
LEMMA EndpointsFinite == IsFiniteSet(Endpoints) /\ Cardinality(Endpoints) = N
<1>1. /\ IsFiniteSet(1 .. N)
      /\ Cardinality(1 .. N) = IF 1 > N THEN 0 ELSE N - 1 + 1
  BY FS_Interval, NAssumption
<1> QED
  BY <1>1, NAssumption DEF Endpoints

\* Every set of endpoints is finite; it has at most N elements, and N only if it
\* is all of them.
LEMMA SubsetCount ==
    ASSUME NEW S \in SUBSET Endpoints
    PROVE  /\ IsFiniteSet(S) /\ Cardinality(S) \in Nat /\ Cardinality(S) <= N
           /\ Cardinality(S) = N => S = Endpoints
           /\ Cardinality(S) = 0 <=> S = {}
<1>1. IsFiniteSet(S) /\ Cardinality(S) <= Cardinality(Endpoints)
      /\ (Cardinality(S) = Cardinality(Endpoints) => S = Endpoints)
  BY EndpointsFinite, FS_Subset
<1>2. Cardinality(S) \in Nat
  BY <1>1, FS_CardinalityType
<1>3. Cardinality(S) = 0 <=> S = {}
  BY <1>1, FS_EmptySet
<1> QED
  BY <1>1, <1>2, <1>3, EndpointsFinite

\* Adding an endpoint to a set of endpoints adds one to its count, removing one
\* takes one away.
LEMMA CountChange ==
    ASSUME NEW S \in SUBSET Endpoints, NEW e \in Endpoints
    PROVE  /\ e \notin S => Cardinality(S \cup {e}) = Cardinality(S) + 1
           /\ e \in S => Cardinality(S \ {e}) = Cardinality(S) - 1
<1>1. IsFiniteSet(S)
  BY SubsetCount
<1> QED
  BY <1>1, FS_AddElement, FS_RemoveElement

-----------------------------------------------------------------------------
(* Initial states                                                          *)

\* The state in which a request arrives satisfies the invariant.
LEMMA InitInv == Init => Inv
<1> SUFFICES ASSUME Init PROVE Inv
  OBVIOUS
<1>1. TypeOK
  BY NAssumption DEF Init, TypeOK
<1>2. Live = {} /\ Confirmed = {}
  BY DEF Init, Live, Confirmed, Running
<1>3. WgCounts /\ SuccessCounts
  BY <1>2, FS_EmptySet DEF Init, WgCounts, SuccessCounts
<1>4. Truthful /\ LoopProgress /\ StatusTells /\ NoOrphans
  BY NAssumption DEF Init, Truthful, LoopProgress, StatusTells, NoOrphans, Endpoints
<1> QED
  BY <1>1, <1>3, <1>4 DEF Inv

-----------------------------------------------------------------------------
(* Steps of the handler                                                    *)

\* Steps of the handler that touch neither goroutines nor counters.
LEMMA QuietSteps ==
    ASSUME Inv, ReadFails \/ ReadBody \/ EndLoop \/ WriteOK \/ Return
    PROVE  Inv'
<1> USE NAssumption DEF Inv
<1>1. /\ UNCHANGED <<spawned, g, net, fanoutRequests, wg, successCnt, ctx>>
      /\ pc # "go" /\ pc' # "go"
  BY DEF ReadFails, ReadBody, EndLoop, WriteOK, Return
<1>2. TypeOK'
  BY DEF TypeOK, ReadFails, ReadBody, EndLoop, WriteOK, Return, WriteHeader
<1>3. Live' = Live /\ Confirmed' = Confirmed
  BY <1>1 DEF Live, Confirmed
<1>4. WgCounts' /\ SuccessCounts' /\ Truthful'
  BY <1>1, <1>3 DEF WgCounts, SuccessCounts, Truthful
<1>5. LoopProgress'
  BY <1>1 DEF LoopProgress, TypeOK, ReadFails, ReadBody, EndLoop, WriteOK, Return
<1>6. AllConfirmed' = AllConfirmed /\ SomeUnconfirmed' = SomeUnconfirmed
  BY <1>1 DEF AllConfirmed, SomeUnconfirmed
<1>7. StatusTells'
  BY <1>6 DEF StatusTells, ReadFails, ReadBody, EndLoop, WriteOK, Return, WriteHeader
<1>8. NoOrphans'
  BY <1>1 DEF NoOrphans, LoopProgress, TypeOK, Running, Endpoints,
              ReadFails, ReadBody, EndLoop, WriteOK, Return
<1> QED
  BY <1>2, <1>4, <1>5, <1>7, <1>8

\* wg.Add(1): the goroutine to come is counted before it exists.
LEMMA AddStep == ASSUME Inv, Add PROVE Inv'
<1> USE NAssumption DEF Inv, Add
<1>1. TypeOK'
  BY DEF TypeOK
<1>2. Live' = Live /\ Confirmed' = Confirmed /\ Cardinality(Live) \in Nat
  BY SubsetCount DEF Live, Confirmed
<1>3. WgCounts' /\ SuccessCounts'
  BY <1>2 DEF WgCounts, SuccessCounts
<1>4. Truthful' /\ LoopProgress'
  BY DEF Truthful, LoopProgress, TypeOK
<1>5. StatusTells' /\ NoOrphans'
  BY DEF StatusTells, NoOrphans, AllConfirmed, SomeUnconfirmed
<1> QED
  BY <1>1, <1>3, <1>4, <1>5

\* The go statement: the goroutine takes over the count of wg.Add.
LEMMA SpawnStep == ASSUME Inv, Spawn PROVE Inv'
<1> DEFINE e == spawned + 1
<1>1. e \in Endpoints /\ g[e] = "none" /\ g' = [g EXCEPT ![e] = "begin"]
  BY NAssumption DEF Inv, Spawn, LoopProgress, TypeOK, Endpoints
<1>2. TypeOK'
  BY <1>1, NAssumption DEF Inv, Spawn, TypeOK, Running, Endpoints
<1>3. Live' = Live \cup {e} /\ e \notin Live /\ Confirmed' = Confirmed
  BY <1>1 DEF Inv, Spawn, TypeOK, Live, Confirmed, Running
<1>4. Cardinality(Live') = Cardinality(Live) + 1 /\ Cardinality(Live) \in Nat
  BY <1>1, <1>3, SubsetCount, CountChange DEF Live
<1>5. WgCounts' /\ SuccessCounts'
  BY <1>3, <1>4 DEF Inv, Spawn, WgCounts, SuccessCounts
<1>6. Truthful'
  BY <1>1 DEF Inv, Spawn, Truthful, TypeOK
<1>7. LoopProgress'
  BY <1>1, NAssumption DEF Inv, Spawn, LoopProgress, TypeOK, Endpoints
<1>8. StatusTells' /\ NoOrphans'
  BY DEF Inv, Spawn, StatusTells, NoOrphans, AllConfirmed, SomeUnconfirmed
<1> QED
  BY <1>2, <1>5, <1>6, <1>7, <1>8 DEF Inv

\* wg.Wait: a counter of zero leaves no goroutine running.
LEMMA WaitStep == ASSUME Inv, Wait PROVE Inv'
<1> USE NAssumption DEF Inv, Wait
<1>1. TypeOK'
  BY DEF TypeOK
<1>2. Live' = Live /\ Confirmed' = Confirmed
  BY DEF Live, Confirmed
<1>3. Live = {}
  BY SubsetCount DEF WgCounts, Live
<1>4. WgCounts' /\ SuccessCounts' /\ Truthful' /\ LoopProgress'
  BY <1>2 DEF WgCounts, SuccessCounts, Truthful, LoopProgress
<1>5. StatusTells'
  BY DEF StatusTells, AllConfirmed, SomeUnconfirmed
<1>6. NoOrphans'
  BY <1>3 DEF NoOrphans, Live
<1> QED
  BY <1>1, <1>4, <1>5, <1>6

\* The test of successCnt: N confirmations are the confirmations of all.
LEMMA CheckStep == ASSUME Inv, Check PROVE Inv'
<1> USE NAssumption DEF Inv
<1>1. /\ UNCHANGED <<spawned, g, net, fanoutRequests, wg, successCnt, ctx>>
      /\ pc = "check" /\ pc' = "ok" /\ status = 0
  BY DEF Check, StatusTells
<1>2. TypeOK'
  BY DEF TypeOK, Check, WriteHeader
<1>3. Live' = Live /\ Confirmed' = Confirmed
  BY <1>1 DEF Live, Confirmed
<1>4. WgCounts' /\ SuccessCounts' /\ Truthful' /\ LoopProgress' /\ NoOrphans'
  BY <1>1, <1>3 DEF WgCounts, SuccessCounts, Truthful, LoopProgress, NoOrphans
<1>5. /\ Cardinality(Confirmed) \in Nat /\ Cardinality(Confirmed) <= N
      /\ Cardinality(Confirmed) = N => Confirmed = Endpoints
      /\ Confirmed = Endpoints => Cardinality(Confirmed) = N
  BY SubsetCount, EndpointsFinite DEF Confirmed
<1>6. CASE successCnt < N
  <2>1. Confirmed # Endpoints
    BY <1>5, <1>6 DEF SuccessCounts
  <2>2. PICK e \in Endpoints : e \notin Confirmed
    BY <2>1 DEF Confirmed
  <2>3. g[e] = "ended"
    BY <1>1, <2>2 DEF NoOrphans, LoopProgress, TypeOK, Endpoints
  <2>4. SomeUnconfirmed'
    BY <1>1, <2>2, <2>3 DEF Confirmed, SomeUnconfirmed
  <2>5. status' = 502
    BY <1>1, <1>6 DEF Check, WriteHeader
  <2>6. StatusTells'
    BY <1>1, <2>4, <2>5 DEF StatusTells
  <2> QED
    BY <1>2, <1>4, <2>6
<1>7. CASE ~(successCnt < N)
  <2>1. Confirmed = Endpoints
    BY <1>5, <1>7 DEF SuccessCounts
  <2>2. AllConfirmed'
    BY <1>1, <2>1 DEF AllConfirmed, Confirmed, LoopProgress
  <2>3. status' = 0
    BY <1>1, <1>7 DEF Check
  <2>4. StatusTells'
    BY <1>1, <2>2, <2>3 DEF StatusTells
  <2> QED
    BY <1>2, <1>4, <2>4
<1> QED
  BY <1>6, <1>7

-----------------------------------------------------------------------------
(* Steps of a goroutine and of the environment                             *)

\* While a goroutine runs, the handler has not passed wg.Wait and has written
\* nothing, so a step that leaves the handler alone keeps what was written true.
LEMMA RunningFrame ==
    ASSUME Inv, NEW e \in Endpoints, g[e] \in Running, UNCHANGED handlerVars
    PROVE  StatusTells' /\ NoOrphans' /\ spawned' = spawned /\ pc' = pc
BY DEF Inv, handlerVars, NoOrphans, StatusTells, TypeOK

\* Steps that keep a goroutine running and confirm nothing.
LEMMA BuildStep == ASSUME Inv, NEW e \in Endpoints, Build(e) PROVE Inv'
<1>1. /\ g[e] = "begin" /\ g[e] \in Running /\ UNCHANGED handlerVars
      /\ UNCHANGED <<net, fanoutRequests, wg, successCnt>>
  BY DEF Build, Running
<1>2. StatusTells' /\ NoOrphans' /\ spawned' = spawned /\ pc' = pc
  BY <1>1, RunningFrame
<1>3. PICK to \in {"flight", "ending"} : g' = [g EXCEPT ![e] = to]
  BY DEF Build
<1>4. TypeOK'
  BY <1>1, <1>3 DEF Inv, TypeOK, handlerVars, Running
<1>5. Live' = Live
  BY <1>1, <1>3 DEF Inv, TypeOK, Live, Running
<1>6. fanoutRequests[e] = "none"
  BY <1>1 DEF Inv, Truthful
<1>7. Confirmed' = Confirmed
  BY <1>1, <1>3, <1>6 DEF Inv, TypeOK, Confirmed
<1>8. WgCounts' /\ SuccessCounts'
  BY <1>1, <1>2, <1>5, <1>7 DEF Inv, WgCounts, SuccessCounts
<1>9. Truthful' /\ LoopProgress'
  BY <1>1, <1>2, <1>3, <1>6 DEF Inv, Truthful, LoopProgress, TypeOK
<1> QED
  BY <1>2, <1>4, <1>8, <1>9 DEF Inv

\* client.Do ends with an error or with a response.
LEMMA DoStep ==
    ASSUME Inv, NEW e \in Endpoints, DoFails(e) \/ Respond(e) PROVE Inv'
<1>1. /\ g[e] = "flight" /\ g[e] \in Running /\ UNCHANGED handlerVars
      /\ UNCHANGED <<net, wg, successCnt>>
  BY DEF DoFails, Respond, Running
<1>2. StatusTells' /\ NoOrphans' /\ spawned' = spawned /\ pc' = pc
  <2>1. pc \in {"read", "loop", "go", "wait"} /\ status = 0 /\ UNCHANGED <<pc, status, spawned>>
    BY <1>1 DEF Inv, handlerVars, NoOrphans, StatusTells, TypeOK
  <2> QED
    BY <2>1 DEF StatusTells, NoOrphans
<1>3. PICK to \in {"ending", "counted"}, code \in {"<error>", "other", "2xx"} :
         /\ g' = [g EXCEPT ![e] = to]
         /\ fanoutRequests' = [fanoutRequests EXCEPT ![e] = code]
         /\ to = "counted" <=> code = "2xx"
         /\ code = "2xx" => net[e] = "accepted"
  BY DEF DoFails, Respond
<1>4. TypeOK'
  BY <1>1, <1>3 DEF Inv, TypeOK, handlerVars, Running
<1>5. Live' = Live
  BY <1>1, <1>3 DEF Inv, TypeOK, Live, Running
<1>6. Confirmed' = Confirmed
  BY <1>1, <1>3 DEF Inv, TypeOK, Confirmed
<1>7. WgCounts' /\ SuccessCounts'
  BY <1>1, <1>2, <1>5, <1>6 DEF Inv, WgCounts, SuccessCounts
<1>8. Truthful' /\ LoopProgress'
  BY <1>1, <1>2, <1>3 DEF Inv, Truthful, LoopProgress, TypeOK
<1> QED
  BY <1>2, <1>4, <1>7, <1>8 DEF Inv

\* successCnt.Add(1): the endpoint joins the confirmed ones.
LEMMA AddSuccessStep == ASSUME Inv, NEW e \in Endpoints, AddSuccess(e) PROVE Inv'
<1>1. /\ g[e] = "counted" /\ g[e] \in Running /\ UNCHANGED handlerVars
      /\ UNCHANGED <<net, fanoutRequests, wg>> /\ successCnt' = successCnt + 1
      /\ g' = [g EXCEPT ![e] = "ending"]
  BY DEF AddSuccess, Running
<1>2. StatusTells' /\ NoOrphans' /\ spawned' = spawned /\ pc' = pc
  BY <1>1, RunningFrame
<1>3. TypeOK'
  BY <1>1 DEF Inv, TypeOK, handlerVars, Running
<1>4. Live' = Live
  BY <1>1 DEF Inv, TypeOK, Live, Running
<1>5. Confirmed' = Confirmed \cup {e} /\ e \notin Confirmed
  BY <1>1 DEF Inv, TypeOK, Confirmed, Truthful
<1>6. Cardinality(Confirmed') = Cardinality(Confirmed) + 1
  BY <1>5, CountChange DEF Confirmed
<1>7. WgCounts' /\ SuccessCounts'
  BY <1>1, <1>2, <1>4, <1>6 DEF Inv, WgCounts, SuccessCounts
<1>8. Truthful' /\ LoopProgress'
  BY <1>1, <1>2 DEF Inv, Truthful, LoopProgress, TypeOK
<1> QED
  BY <1>2, <1>3, <1>7, <1>8 DEF Inv

\* wg.Done: the goroutine leaves the running ones.
LEMMA DoneStep == ASSUME Inv, NEW e \in Endpoints, Done(e) PROVE Inv'
<1>1. /\ g[e] = "ending" /\ g[e] \in Running /\ UNCHANGED handlerVars
      /\ UNCHANGED <<net, fanoutRequests, successCnt>> /\ wg' = wg - 1
      /\ g' = [g EXCEPT ![e] = "ended"]
  BY DEF Done, Running
<1>2. StatusTells' /\ NoOrphans' /\ spawned' = spawned /\ pc' = pc
  BY <1>1, RunningFrame
<1>3. Live' = Live \ {e} /\ e \in Live
  BY <1>1 DEF Inv, TypeOK, Live, Running
<1>4. /\ Cardinality(Live') = Cardinality(Live) - 1
      /\ Cardinality(Live) \in Nat /\ Cardinality(Live') \in Nat
  BY <1>3, CountChange, SubsetCount DEF Live
<1>5. wg' \in Nat /\ WgCounts'
  BY <1>1, <1>2, <1>4 DEF Inv, WgCounts
<1>6. TypeOK'
  BY <1>1, <1>5 DEF Inv, TypeOK, handlerVars, Running
<1>7. Confirmed' = Confirmed
  BY <1>1 DEF Inv, TypeOK, Confirmed
<1>8. SuccessCounts'
  BY <1>1, <1>7 DEF Inv, SuccessCounts
<1>9. Truthful' /\ LoopProgress'
  BY <1>1, <1>2 DEF Inv, Truthful, LoopProgress, TypeOK
<1> QED
  BY <1>2, <1>5, <1>6, <1>8, <1>9 DEF Inv

\* The request on its way, the endpoint's verdict and the end of the context: an
\* endpoint that has accepted stays so.
LEMMA EnvironmentStep ==
    ASSUME Inv,
           \/ Expire \/ CallerLeaves
           \/ \E e \in Endpoints : Transmit(e) \/ Decide(e)
    PROVE  Inv'
<1>1. UNCHANGED <<pc, spawned, g, fanoutRequests, wg, successCnt, status>>
  BY DEF Expire, CallerLeaves, Transmit, Decide, handlerVars
<1>2. TypeOK'
  BY DEF Inv, TypeOK, Expire, CallerLeaves, Transmit, Decide, handlerVars
<1>3. \A e \in Endpoints : net[e] = "accepted" => net'[e] = "accepted"
  BY DEF Inv, TypeOK, Expire, CallerLeaves, Transmit, Decide
<1>4. Live' = Live /\ Confirmed' = Confirmed
  BY <1>1 DEF Live, Confirmed
<1>5. WgCounts' /\ SuccessCounts' /\ LoopProgress' /\ NoOrphans'
  BY <1>1, <1>4 DEF Inv, WgCounts, SuccessCounts, LoopProgress, NoOrphans
<1>6. Truthful'
  BY <1>1, <1>3 DEF Inv, Truthful
<1>7. StatusTells'
  BY <1>1 DEF Inv, StatusTells, AllConfirmed, SomeUnconfirmed
<1> QED
  BY <1>2, <1>5, <1>6, <1>7 DEF Inv

-----------------------------------------------------------------------------
(* Theorems                                                                *)

\* Every step of the fan-out preserves the invariant.
LEMMA NextInv == Inv /\ [Next]_vars => Inv'
<1> SUFFICES ASSUME Inv, [Next]_vars PROVE Inv'
  OBVIOUS
<1>1. CASE Handler
  BY <1>1, QuietSteps, AddStep, SpawnStep, WaitStep, CheckStep DEF Handler
<1>2. ASSUME NEW e \in Endpoints, Goroutine(e) \/ DoFails(e) \/ Decide(e) PROVE Inv'
  BY <1>2, BuildStep, DoStep, AddSuccessStep, DoneStep, EnvironmentStep DEF Goroutine
<1>3. CASE Expire \/ CallerLeaves
  BY <1>3, EnvironmentStep
<1>4. CASE UNCHANGED vars
  BY <1>4 DEF vars, Inv, TypeOK, WgCounts, SuccessCounts, Live, Confirmed, Truthful,
        LoopProgress, StatusTells, AllConfirmed, SomeUnconfirmed, NoOrphans
<1> QED
  BY <1>1, <1>2, <1>3, <1>4 DEF Next

\* The inductive invariant holds in every reachable state of the fan-out.
THEOREM Invariance == Spec => []Inv
BY InitInv, NextInv, PTL DEF Spec

\* For every number of endpoints the state of the fan-out is well typed; in
\* particular the WaitGroup's counter never becomes negative.
THEOREM TypeCorrect == Spec => []TypeOK
<1>1. Inv => TypeOK
  BY DEF Inv
<1> QED
  BY <1>1, Invariance, PTL

\* For every number of endpoints, 200 is answered only if all have accepted.
THEOREM OkIsHonest == Spec => []OkMeansAll
<1>1. Inv => OkMeansAll
  BY DEF Inv, OkMeansAll, StatusTells, AllConfirmed, Truthful
<1> QED
  BY <1>1, Invariance, PTL

\* For every number of endpoints, 502 is answered only if one did not confirm.
THEOREM FailureIsHonest == Spec => []FailureMeansSome
<1>1. Inv => FailureMeansSome
  BY DEF Inv, FailureMeansSome, StatusTells, SomeUnconfirmed
<1> QED
  BY <1>1, Invariance, PTL

\* For every number of endpoints, the handler outlives its goroutines.
THEOREM HandlerOutlives == Spec => []NoOrphans
<1>1. Inv => NoOrphans
  BY DEF Inv
<1> QED
  BY <1>1, Invariance, PTL

\* A goroutine that runs has nothing counted before its reply, and runs before
\* the caller has an answer.
LEMMA RunningUnanswered ==
    ASSUME Inv, NEW e \in Endpoints, g[e] = "flight"
    PROVE  status = 0 /\ answer = "none" /\ fanoutRequests[e] = "none"
<1>1. pc \notin {"check", "ok", "return", "done"}
  BY DEF Inv, NoOrphans, Running
<1>2. status = 0
  BY <1>1 DEF Inv, StatusTells, TypeOK
<1> QED
  BY <1>2 DEF Inv, Truthful, answer

\* A caller that is told of a failure has an endpoint without confirmation, or
\* there is no endpoint.
LEMMA FailureUnconfirmed ==
    ASSUME Inv, Inv', ReadFails \/ ReadBody \/ Check, status = 0, status' # 0,
           Endpoints # {}
    PROVE  \E e \in Endpoints : fanoutRequests[e] # "2xx"
<1>1. CASE ReadFails \/ ReadBody
  <2>1. spawned = 0
    BY <1>1 DEF Inv, LoopProgress, ReadFails, ReadBody
  <2>2. PICK e \in Endpoints : TRUE
    OBVIOUS
  <2>3. g[e] = "none"
    BY <2>1, NAssumption DEF Inv, LoopProgress, Endpoints
  <2> QED
    BY <2>3 DEF Inv, Truthful
<1>2. CASE Check
  <2>1. status' = 502 /\ fanoutRequests' = fanoutRequests
    BY <1>2 DEF Check, WriteHeader
  <2> QED
    BY <2>1 DEF Inv, StatusTells, SomeUnconfirmed
<1> QED
  BY <1>1, <1>2

\* A step of the fan-out is a step of Broadcast or none: client.Do contacts, a
\* verdict accepts, a 2xx that is counted confirms, the first WriteHeader answers;
\* nothing else shows.
LEMMA StepRefines ==
    ASSUME Inv, Inv', [Next]_vars
    PROVE  [B!Next]_(B!vars)
<1> DEFINE con == {e \in Endpoints : net[e] # "none"}
           acc == {e \in Endpoints : net[e] = "accepted"}
           cfm == {e \in Endpoints : fanoutRequests[e] = "2xx"}
<1> USE DEF B!vars
<1>t. /\ net \in [Endpoints -> {"none", "sent", "accepted", "refused"}]
      /\ fanoutRequests \in [Endpoints -> {"none", "<error>", "2xx", "other"}]
  BY DEF Inv, TypeOK
<1>1. CASE UNCHANGED <<net, fanoutRequests, status>>
  BY <1>1 DEF answer
<1>2. ASSUME NEW e \in Endpoints, Decide(e) PROVE [B!Next]_(B!vars)
  <2>1. UNCHANGED <<status, fanoutRequests>> /\ net[e] = "sent"
    BY <1>2 DEF Decide, handlerVars
  <2>2. answer' = answer /\ cfm' = cfm
    BY <2>1 DEF answer
  <2>3. CASE net' = [net EXCEPT ![e] = "accepted"]
    <3>1. e \in con \ acc /\ acc' = acc \cup {e} /\ con' = con
      BY <1>t, <2>1, <2>3
    <3>2. B!Accept(e)
      BY <2>2, <3>1 DEF B!Accept
    <3> QED
      BY <3>2 DEF B!Next
  <2>4. CASE net' = [net EXCEPT ![e] = "refused"]
    <3>1. acc' = acc /\ con' = con
      BY <1>t, <2>1, <2>4
    <3> QED
      BY <2>2, <3>1
  <2> QED
    BY <1>2, <2>3, <2>4 DEF Decide
<1>3. ASSUME NEW e \in Endpoints, Transmit(e) PROVE [B!Next]_(B!vars)
  <2>1. /\ UNCHANGED <<status, fanoutRequests>> /\ g[e] = "flight" /\ net[e] = "none"
        /\ net' = [net EXCEPT ![e] = "sent"]
    BY <1>3 DEF Transmit, handlerVars
  <2>2. answer = "none" /\ answer' = answer /\ cfm' = cfm
    BY <2>1, RunningUnanswered DEF answer
  <2>3. e \in Endpoints \ con /\ con' = con \cup {e} /\ acc' = acc
    BY <1>t, <2>1
  <2>4. B!Contact(e)
    BY <2>2, <2>3 DEF B!Contact
  <2> QED
    BY <2>4 DEF B!Next
<1>4. ASSUME NEW e \in Endpoints, Respond(e) \/ DoFails(e) PROVE [B!Next]_(B!vars)
  <2>1. UNCHANGED <<status, net>> /\ g[e] = "flight"
    BY <1>4 DEF Respond, DoFails, handlerVars
  <2>2. /\ answer = "none" /\ answer' = answer /\ con' = con /\ acc' = acc
        /\ e \notin cfm
    BY <2>1, RunningUnanswered DEF answer
  <2>3. CASE fanoutRequests' = [fanoutRequests EXCEPT ![e] = "2xx"] /\ net[e] = "accepted"
    <3>1. e \in acc \ cfm /\ cfm' = cfm \cup {e}
      BY <1>t, <2>2, <2>3
    <3>2. B!Confirm(e)
      BY <2>2, <3>1 DEF B!Confirm
    <3> QED
      BY <3>2 DEF B!Next
  <2>4. CASE \E code \in {"<error>", "other"} : fanoutRequests' = [fanoutRequests EXCEPT ![e] = code]
    <3>1. cfm' = cfm
      BY <1>t, <2>2, <2>4
    <3> QED
      BY <2>2, <3>1
  <2> QED
    BY <1>4, <2>3, <2>4 DEF Respond, DoFails
<1>5. CASE ReadFails \/ ReadBody \/ Check \/ WriteOK \/ Return
  <2>1. /\ UNCHANGED <<net, fanoutRequests>>
        /\ con' = con /\ acc' = acc /\ cfm' = cfm
    BY <1>5 DEF ReadFails, ReadBody, Check, WriteOK, Return
  <2>2. CASE status' = status
    BY <1>1, <2>1, <2>2
  <2>3. CASE status' # status
    <3>1. status = 0 /\ answer = "none" /\ status' # 0
      BY <1>5, <2>3 DEF ReadFails, ReadBody, Check, WriteOK, Return, WriteHeader, answer
    <3>2. CASE WriteOK
      <4>1. status' = 200 /\ AllConfirmed
        BY <3>1, <3>2 DEF Inv, StatusTells, WriteOK, WriteHeader
      <4>2. cfm = Endpoints /\ Endpoints # {}
        BY <4>1, NAssumption DEF AllConfirmed, Endpoints
      <4>3. B!AnswerAll
        BY <2>1, <3>1, <4>1, <4>2 DEF B!AnswerAll, answer
      <4> QED
        BY <4>3 DEF B!Next
    <3>3. CASE Return
      BY <3>1, <3>3 DEF Inv, StatusTells, Return
    <3>4. CASE ReadFails \/ ReadBody \/ Check
      <4>1. answer' = "failed"
        BY <3>1, <3>4 DEF ReadFails, ReadBody, Check, WriteHeader, answer
      <4>2. Endpoints # {} => cfm # Endpoints
        BY <3>1, <3>4, FailureUnconfirmed
      <4>3. B!AnswerFailed
        BY <2>1, <3>1, <4>1, <4>2 DEF B!AnswerFailed
      <4> QED
        BY <4>3 DEF B!Next
    <3> QED
      BY <1>5, <3>2, <3>3, <3>4
  <2> QED
    BY <2>2, <2>3
<1>6. CASE Add \/ Spawn \/ EndLoop \/ Wait \/ Expire \/ CallerLeaves
  BY <1>1, <1>6 DEF Add, Spawn, EndLoop, Wait, Expire, CallerLeaves
<1>7. ASSUME NEW e \in Endpoints, Build(e) \/ AddSuccess(e) \/ Done(e)
      PROVE  [B!Next]_(B!vars)
  <2>1. UNCHANGED <<net, fanoutRequests, status>>
    BY <1>7 DEF Build, AddSuccess, Done, handlerVars
  <2> QED
    BY <1>1, <2>1
<1>8. CASE UNCHANGED vars
  BY <1>1, <1>8 DEF vars
<1> QED
  BY <1>2, <1>3, <1>4, <1>5, <1>6, <1>7, <1>8 DEF Next, Handler, Goroutine

\* For every number of endpoints, the fan-out implements Broadcast: the answer
\* agrees with the confirmations at its step, and none follows it, nor an alert.
THEOREM Refinement == Spec => ImplementsBroadcast
<1>1. Init => B!Init
  BY DEF Init, B!Init, answer
<1>2. Inv /\ Inv' /\ [Next]_vars => [B!Next]_(B!vars)
  BY StepRefines
<1> QED
  BY <1>1, <1>2, Invariance, PTL DEF Spec, ImplementsBroadcast, B!Spec

=============================================================================
