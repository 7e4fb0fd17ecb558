------------------------- MODULE RemoteWriteProofs --------------------------
(***************************************************************************)
(* Proofs about RemoteWrite, for every set of requests and any number of   *)
(* endpoints: types, the URL that the handlers share, the counters, and    *)
(* that the proxy implements Relay.                                        *)
(***************************************************************************)
EXTENDS RemoteWrite, SequenceTheorems, FiniteSetTheorems, TLAPS

-----------------------------------------------------------------------------
(* The inductive invariant                                                 *)

Labels == {"idle", "read", "store", "load", "client", "blocked", "request", "return", "done",
           "panicked"}
WorldTypes == up \in BOOLEAN /\ badUrl \subseteq MayBeBad
PcTypes == pc \in [Requests -> Labels]
HandlerTypes ==
    /\ idx \in [Requests -> 1 .. (N + 1)]
    /\ words \in [Requests -> SUBSET Words]
    /\ client \in [Requests -> BOOLEAN] /\ expired \in [Requests -> BOOLEAN]
    /\ status \in [Requests -> {0, 200, 500, 504}]
PathTypes == path \in [Requests -> Paths \cup {NoPath}]
ForwardTypes == fwd \in [Requests -> [Endpoints -> {"none", "nil client", "send", "log", "done"}]]
GoString == [ptr : URLs, len : Nat]
StringTypes == copy \in [Requests -> GoString] /\ url \in GoString
QueueTypes == queue \in [Endpoints -> Seq(Message)]
CountTypes == requests \in Nat /\ forwarded \in [Endpoints -> [Codes -> Nat]]
Types == /\ WorldTypes /\ PcTypes /\ HandlerTypes /\ PathTypes /\ ForwardTypes
         /\ StringTypes /\ QueueTypes /\ CountTypes

\* The loop has launched the goroutines of the endpoints before idx, and the
\* answer comes last.
FlowOf(r) ==
    /\ pc[r] \in {"load", "client", "blocked", "request"} => idx[r] <= N
    /\ pc[r] \in {"idle", "read", "store"} => idx[r] = 1
    /\ pc[r] \in {"return", "done"} => idx[r] = N + 1
    /\ pc[r] # "idle" => path[r] \in Paths
    /\ status[r] = 0 <=> pc[r] \notin {"done", "panicked"}
    /\ status[r] = 200 => pc[r] = "done"
    /\ \A e \in Endpoints : fwd[r][e] = "none" <=> e >= idx[r]
Flow == \A r \in Requests : FlowOf(r)

\* A sender waits on the channel once, and at no other place.
Waits(m, e) ==
    IF m.by = "handler" THEN pc[m.req] = "blocked" /\ idx[m.req] = e
    ELSE fwd[m.req][e] = "log"
Queued ==
    \A e \in Endpoints :
        /\ \A i \in DOMAIN queue[e] : Waits(queue[e][i], e)
        /\ \A i, j \in DOMAIN queue[e] : queue[e][i] = queue[e][j] => i = j

\* All handlers store the same string.  A handler that has stored a word finds
\* it there, whoever has stored it since.
Target(r) == Str(Join(WriteURL, path[r]))
HasStored(r, w) == \/ pc[r] = "store" /\ w \notin words[r]
                   \/ pc[r] \notin {"idle", "read", "store"}
HasLoaded(r, w) == \/ pc[r] = "load" /\ idx[r] = N /\ w \notin words[r]
                   \/ pc[r] \in {"client", "blocked", "request"} /\ idx[r] = N
                   \/ idx[r] = N + 1
SharedOf(r) ==
    /\ pc[r] \in {"load", "client", "blocked", "request"} /\ idx[r] < N => words[r] = Words
    /\ \A w \in Words : /\ HasStored(r, w) => url[w] = Target(r)[w]
                        /\ HasLoaded(r, w) => copy[r][w] = Target(r)[w]
SharedURL == HasWrite => \A r \in Requests : SharedOf(r)

\* The counters of an endpoint, and the forwards whose outcome is known.
Known(e) == {r \in Requests : fwd[r][e] \in {"log", "done"}}
Total(e) == forwarded[e]["<error>"] + forwarded[e]["2xx"] + forwarded[e]["other"]
Counted == \A e \in Endpoints : IsFiniteSet(Known(e)) /\ Total(e) = Cardinality(Known(e))

Inv == Types /\ Flow /\ Queued /\ SharedURL /\ Counted

-----------------------------------------------------------------------------
(* Sequences and strings                                                   *)

\* A sender queues up behind the others.
LEMMA Sending ==
    ASSUME QueueTypes, NEW e \in Endpoints, NEW m \in Message, Send(e, m)
    PROVE  /\ QueueTypes'
           /\ \A f \in Endpoints : f # e => queue'[f] = queue[f]
           /\ Len(queue[e]) \in Nat
           /\ DOMAIN queue[e] = 1 .. Len(queue[e])
           /\ DOMAIN queue'[e] = 1 .. (Len(queue[e]) + 1)
           /\ queue'[e][Len(queue[e]) + 1] = m
           /\ \A i \in DOMAIN queue[e] : queue'[e][i] = queue[e][i]
<1>1. queue[e] \in Seq(Message) /\ queue' = [queue EXCEPT ![e] = Append(queue[e], m)]
  BY DEF QueueTypes, Send
<1>2. /\ Append(queue[e], m) \in Seq(Message)
      /\ Len(Append(queue[e], m)) = Len(queue[e]) + 1
      /\ \A i \in 1 .. Len(queue[e]) : Append(queue[e], m)[i] = queue[e][i]
      /\ Append(queue[e], m)[Len(queue[e]) + 1] = m
  BY <1>1, AppendProperties
<1>3. /\ Len(queue[e]) \in Nat /\ DOMAIN queue[e] = 1 .. Len(queue[e])
      /\ DOMAIN Append(queue[e], m) = 1 .. (Len(queue[e]) + 1)
  BY <1>1, <1>2, LenProperties
<1>4. queue'[e] = Append(queue[e], m) /\ \A f \in Endpoints : f # e => queue'[f] = queue[f]
  BY <1>1 DEF QueueTypes
<1>5. QueueTypes'
  BY <1>1, <1>2 DEF QueueTypes
<1> QED
  BY <1>2, <1>3, <1>4, <1>5

\* The log goroutine takes the first message of its queue.
LEMMA Taking ==
    ASSUME QueueTypes, NEW e \in Endpoints, queue[e] # <<>>,
           queue' = [queue EXCEPT ![e] = Tail(@)]
    PROVE  /\ QueueTypes'
           /\ \A f \in Endpoints : f # e => queue'[f] = queue[f]
           /\ Head(queue[e]) \in Message /\ 1 \in DOMAIN queue[e]
           /\ Head(queue[e]) = queue[e][1]
           /\ \A i \in DOMAIN queue'[e] :
                i \in Nat \ {0} /\ i + 1 \in DOMAIN queue[e] /\ queue'[e][i] = queue[e][i + 1]
<1>1. queue[e] \in Seq(Message) /\ queue'[e] = Tail(queue[e])
      /\ \A f \in Endpoints : f # e => queue'[f] = queue[f]
  BY DEF QueueTypes
<1>2. Len(queue[e]) \in Nat \ {0} /\ DOMAIN queue[e] = 1 .. Len(queue[e])
  BY <1>1, LenProperties, EmptySeq
<1>3. /\ Head(queue[e]) \in Message
      /\ Tail(queue[e]) \in Seq(Message) /\ Len(Tail(queue[e])) = Len(queue[e]) - 1
      /\ \A i \in 1 .. Len(Tail(queue[e])) : Tail(queue[e])[i] = queue[e][i + 1]
  BY <1>1, HeadTailProperties
<1>4. DOMAIN queue'[e] = 1 .. (Len(queue[e]) - 1)
  BY <1>1, <1>3, LenProperties
<1>5. QueueTypes'
  BY <1>1, <1>3 DEF QueueTypes
<1>6. \A i \in DOMAIN queue'[e] :
        i \in Nat \ {0} /\ i + 1 \in DOMAIN queue[e] /\ queue'[e][i] = queue[e][i + 1]
  BY <1>1, <1>2, <1>3, <1>4
<1> QED
  BY <1>1, <1>2, <1>3, <1>5, <1>6

LEMMA PathLength == \A p \in Path : Len2(p) \in Nat
<1> TAKE p \in Path
<1>1. Len(p.seg) \in Nat
  BY LenProperties DEF Path
<1>2. (IF p.slash THEN 1 ELSE 0) \in Nat
  OBVIOUS
<1>3. \A a, b \in Nat : a + b \in Nat
  OBVIOUS
<1> QED
  BY <1>1, <1>2, <1>3, Zenon DEF Len2

\* What path.Join returns is a string, and it is the same for all handlers.
LEMMA JoinedURL ==
    /\ \A p \in Paths : Str(Join(WriteURL, p)) \in GoString
    /\ \A p, q \in Paths : Join(WriteURL, p) = Join(WriteURL, q)
<1>1. \A p \in Paths : Join(WriteURL, p) \in Path
  BY PathAssumption, ConcatProperties DEF Join, Path
<1>2. \A p \in Paths : Str(Join(WriteURL, p)) \in GoString
  BY <1>1, PathLength DEF Str, GoString, URLs
<1> QED
  BY <1>2, RouteAssumption DEF Join

LEMMA FirstURL == Str(WriteURL) \in GoString /\ NoString \in GoString
<1>1. NoPath \in Path
  BY EmptySeq DEF NoPath, Path
<1> QED
  BY <1>1, PathLength, PathAssumption DEF NoString, Str, GoString, URLs

\* Two strings with the same words are the same.
LEMMA SameWords ==
    ASSUME NEW s \in GoString, NEW t \in GoString, \A w \in Words : s[w] = t[w]
    PROVE  s = t
BY DEF GoString, Words

\* A handler that has one word left stores or loads that one.
LEMMA LastWord ==
    ASSUME NEW W \in SUBSET Words, NEW w \in W
    PROVE  Cardinality(W) = 1 <=> W = {w}
<1>1. W = {w} \/ (W = {"ptr", "len"} /\ W # {w})
  BY DEF Words
<1>2. Cardinality({w}) = 1
  BY FS_Singleton
<1>3. Cardinality({"ptr", "len"}) = 2
  <2>1. IsFiniteSet({"ptr"}) /\ Cardinality({"ptr"}) = 1
    BY FS_Singleton
  <2>2. Cardinality({"ptr"} \cup {"len"}) = 2
    BY <2>1, FS_AddElement
  <2>3. {"ptr"} \cup {"len"} = {"ptr", "len"}
    OBVIOUS
  <2> QED
    BY <2>2, <2>3
<1> QED
  BY <1>1, <1>2, <1>3

-----------------------------------------------------------------------------
(* Each part of the invariant is preserved                                 *)

LEMMA Going ==
    ASSUME PcTypes, NEW r \in Requests, NEW l \in Labels, Goto(r, l)
    PROVE  PcTypes' /\ pc' = [pc EXCEPT ![r] = l]
BY DEF PcTypes, Goto

\* The process and where the handlers are.
LEMMA PlacesStep ==
    ASSUME Types, [Next]_vars
    PROVE  WorldTypes' /\ PcTypes'
<1> USE DEF Types
<1>1. WorldTypes'
  <2>1. CASE UNCHANGED <<up, badUrl>>
    BY <2>1 DEF WorldTypes
  <2>2. CASE \E r \in Requests, e \in Endpoints : NilClientPanics(r, e)
    BY <2>2 DEF NilClientPanics, WorldTypes
  <2> QED
    BY <2>1, <2>2 DEF Next, vars
<1>2. ASSUME UNCHANGED pc PROVE PcTypes'
  BY <1>2 DEF PcTypes
<1>3. CASE \E r \in Requests : Arrive(r) \/ Handle(r) \/ Expire(r)
  <2>1. PICK r \in Requests : Arrive(r) \/ Handle(r) \/ Expire(r)
    BY <1>3
  <2>2. UNCHANGED pc \/ \E l \in Labels : Goto(r, l)
    BY <2>1 DEF Labels, Arrive, Handle, ReadBody, StoreURL, LoadEndpoint, CreateClient, NewRequest,
                NewRequestPanics, Return, Expire
  <2>3. ASSUME NEW l \in Labels, Goto(r, l) PROVE PcTypes'
    BY <2>3, Going
  <2> QED
    BY <2>2, <2>3, <1>1, <1>2
<1>4. CASE \E r \in Requests, e \in Endpoints : Forward(r, e)
  <2>1. UNCHANGED pc
    BY <1>4 DEF Forward, Report, handler
  <2> QED
    BY <2>1, <1>1, <1>2
<1>5. CASE \E e \in Endpoints : Receive(e)
  <2>1. PICK e \in Endpoints : Receive(e)
    BY <1>5
  <2>2. Head(queue[e]).req \in Requests
    BY <2>1, Taking DEF Receive, Message
  <2>3. UNCHANGED pc \/ Goto(Head(queue[e]).req, "request")
    BY <2>1 DEF Receive
  <2>4. ASSUME Goto(Head(queue[e]).req, "request") PROVE PcTypes'
    <3>1. "request" \in Labels
      BY DEF Labels
    <3> QED
      BY <2>2, <2>4, <3>1, Going
  <2> QED
    BY <2>3, <2>4, <1>1, <1>2
<1>6. CASE \E r \in Requests, e \in Endpoints : NilClientPanics(r, e)
  <2>1. UNCHANGED pc
    BY <1>6 DEF NilClientPanics, handler
  <2> QED
    BY <2>1, <1>1, <1>2
<1> QED
  BY <1>1, <1>2, <1>3, <1>4, <1>5, <1>6 DEF Next, Step, vars, handler

LEMMA TypesStep ==
    ASSUME Types, Flow, Queued, [Next]_vars
    PROVE  Types'
<1> USE EndpointAssumption
<1> USE DEF Types, handler, goroutines, counters
<1>0. WorldTypes' /\ PcTypes'
  BY PlacesStep
<1>1. ASSUME UNCHANGED <<idx, words, client, expired, status>> PROVE HandlerTypes'
  BY <1>1 DEF HandlerTypes
<1>2. ASSUME UNCHANGED path PROVE PathTypes'
  BY <1>2 DEF PathTypes
<1>3. ASSUME UNCHANGED fwd PROVE ForwardTypes'
  BY <1>3 DEF ForwardTypes
<1>4. ASSUME UNCHANGED <<copy, url>> PROVE StringTypes'
  BY <1>4 DEF StringTypes
<1>5. ASSUME UNCHANGED queue PROVE QueueTypes'
  BY <1>5 DEF QueueTypes
<1>6. ASSUME UNCHANGED counters PROVE CountTypes'
  BY <1>6 DEF CountTypes
<1>7. CASE \E r \in Requests : Arrive(r) /\ UNCHANGED <<up, badUrl>>
  <2>1. PICK r \in Requests, p \in Paths :
          Arrive(r) /\ path' = [path EXCEPT ![r] = p] /\ UNCHANGED <<up, badUrl>>
    BY <1>7 DEF Arrive
  <2>2. HandlerTypes'
    BY <2>1 DEF Arrive, HandlerTypes
  <2>3. PathTypes'
    BY <2>1 DEF PathTypes
  <2>4. CountTypes'
    BY <2>1 DEF Arrive, CountTypes
  <2> QED
    BY <2>1, <2>2, <2>3, <2>4, <1>3, <1>4, <1>5, <1>0 DEF Arrive
<1>8. CASE \E r \in Requests : ReadBody(r) /\ UNCHANGED <<up, badUrl>>
  <2>1. HandlerTypes'
    BY <1>8 DEF ReadBody, HandlerTypes
  <2> QED
    BY <1>8, <2>1, <1>2, <1>3, <1>4, <1>5, <1>6, <1>0 DEF ReadBody
<1>9. CASE \E r \in Requests : StoreURL(r) /\ UNCHANGED <<up, badUrl>>
  <2>1. PICK r \in Requests : StoreURL(r) /\ UNCHANGED <<up, badUrl>>
    BY <1>9
  <2>2. HandlerTypes'
    BY <2>1 DEF StoreURL, HandlerTypes
  <2>3. StringTypes'
    <3>1. words[r] \subseteq Words
      BY DEF HandlerTypes
    <3>4. PICK w \in Words : url' = [url EXCEPT ![w] = Target(r)[w]]
      BY <2>1, <3>1 DEF StoreURL, Target
    <3>2. Target(r) \in GoString
      BY <2>1, JoinedURL DEF StoreURL, Flow, FlowOf, Target
    <3>3. url' \in GoString
      BY <3>4, <3>2 DEF StringTypes, GoString, Words
    <3> QED
      BY <2>1, <3>3 DEF StoreURL, StringTypes
  <2> QED
    BY <2>1, <2>2, <2>3, <1>2, <1>3, <1>5, <1>6, <1>0 DEF StoreURL
<1>10. CASE \E r \in Requests : LoadEndpoint(r) /\ UNCHANGED <<up, badUrl>>
  <2>1. PICK r \in Requests : LoadEndpoint(r) /\ UNCHANGED <<up, badUrl>>
    BY <1>10
  <2>2. HandlerTypes'
    BY <2>1 DEF LoadEndpoint, HandlerTypes
  <2>3. StringTypes'
    <3>1. ASSUME NEW w \in Words, copy' = [copy EXCEPT ![r][w] = url[w]]
          PROVE  copy' \in [Requests -> GoString]
      <4>1. copy[r] \in GoString /\ url \in GoString
        BY DEF StringTypes
      <4>2. [copy[r] EXCEPT ![w] = url[w]] \in GoString
        BY <4>1 DEF GoString, Words
      <4> QED
        BY <3>1, <4>2 DEF StringTypes
    <3>2. words[r] \subseteq Words
      BY DEF HandlerTypes
    <3> QED
      BY <2>1, <3>1, <3>2 DEF LoadEndpoint, StringTypes
  <2> QED
    BY <2>1, <2>2, <2>3, <1>2, <1>3, <1>5, <1>6, <1>0 DEF LoadEndpoint
<1>11. CASE \E r \in Requests : CreateClient(r) /\ UNCHANGED <<up, badUrl>>
  <2>1. PICK r \in Requests : CreateClient(r) /\ UNCHANGED <<up, badUrl>>
    BY <1>11
  <2>2. HandlerTypes'
    <3>1. PICK c \in BOOLEAN : client' = [client EXCEPT ![r] = c]
      BY <2>1 DEF CreateClient
    <3>2. UNCHANGED <<idx, words, expired, status>>
      BY <2>1 DEF CreateClient
    <3> QED
      BY <3>1, <3>2 DEF HandlerTypes
  <2>3. QueueTypes'
    <3>1. idx[r] \in Endpoints
      BY <2>1 DEF CreateClient, Flow, FlowOf, HandlerTypes, Endpoints
    <3>2. [req |-> r, by |-> "handler"] \in Message
      BY DEF Message
    <3> QED
      BY <2>1, <3>1, <3>2, Sending, <1>5 DEF CreateClient
  <2> QED
    BY <2>1, <2>2, <2>3, <1>2, <1>3, <1>4, <1>6, <1>0 DEF CreateClient
<1>12. CASE \E r \in Requests : NewRequest(r) /\ UNCHANGED <<up, badUrl>>
  <2>1. PICK r \in Requests : NewRequest(r) /\ UNCHANGED <<up, badUrl>>
    BY <1>12
  <2>2. idx[r] \in 1 .. N
    <3>1. idx[r] \in 1 .. (N + 1)
      BY DEF HandlerTypes
    <3>2. idx[r] <= N
      BY <2>1 DEF NewRequest, Flow, FlowOf
    <3> QED
      BY <3>1, <3>2
  <2>3. HandlerTypes'
    <3>1. idx' = [idx EXCEPT ![r] = @ + 1] /\ UNCHANGED <<words, client, expired, status>>
      BY <2>1 DEF NewRequest
    <3>2. idx' \in [Requests -> 1 .. (N + 1)]
      BY <2>2, <3>1 DEF HandlerTypes
    <3> QED
      BY <3>1, <3>2 DEF HandlerTypes
  <2>4. ForwardTypes'
    BY <2>1 DEF NewRequest, ForwardTypes
  <2> QED
    BY <2>1, <2>3, <2>4, <1>2, <1>4, <1>5, <1>6, <1>0 DEF NewRequest
<1>13. CASE \E r \in Requests : /\ NewRequestPanics(r) \/ Return(r) \/ Expire(r)
                                /\ UNCHANGED <<up, badUrl>>
  <2>1. PICK r \in Requests : NewRequestPanics(r) \/ Return(r) \/ Expire(r)
    BY <1>13
  <2>2. HandlerTypes'
    <3>1. \/ UNCHANGED expired /\ \E c \in {200, 500, 504} : status' = [status EXCEPT ![r] = c]
          \/ UNCHANGED status /\ expired' = [expired EXCEPT ![r] = TRUE]
      BY <2>1 DEF NewRequestPanics, Return, Expire
    <3>2. UNCHANGED <<idx, words, client>>
      BY <2>1 DEF NewRequestPanics, Return, Expire
    <3>3. status' \in [Requests -> {0, 200, 500, 504}]
      BY <3>1 DEF HandlerTypes
    <3>4. expired' \in [Requests -> BOOLEAN]
      <4>1. expired \in [Requests -> BOOLEAN]
        BY DEF HandlerTypes
      <4>2. UNCHANGED expired \/ expired' = [expired EXCEPT ![r] = TRUE]
        BY <3>1
      <4> QED
        BY <4>1, <4>2
    <3> QED
      BY <3>2, <3>3, <3>4 DEF HandlerTypes
  <2> QED
    BY <2>1, <2>2, <1>2, <1>3, <1>4, <1>5, <1>6, <1>0 DEF NewRequestPanics, Return, Expire
<1>14. CASE \E r \in Requests, e \in Endpoints : Forward(r, e) /\ UNCHANGED <<up, badUrl>>
  <2>1. PICK r \in Requests, e \in Endpoints, code \in Codes :
          Report(r, e, code) /\ UNCHANGED <<up, badUrl>>
    BY <1>14 DEF Forward
  <2>2. ForwardTypes'
    BY <2>1 DEF Report, ForwardTypes
  <2>3. QueueTypes'
    <3>1. [req |-> r, by |-> "forward"] \in Message
      BY DEF Message
    <3> QED
      BY <2>1, <3>1, Sending DEF Report
  <2>4. CountTypes'
    BY <2>1 DEF Report, CountTypes
  <2> QED
    BY <2>1, <2>2, <2>3, <2>4, <1>1, <1>2, <1>4, <1>0 DEF Report
<1>15. CASE \E e \in Endpoints : Receive(e) /\ UNCHANGED <<up, badUrl>>
  <2>1. PICK e \in Endpoints : Receive(e) /\ UNCHANGED <<up, badUrl>>
    BY <1>15
  <2>2. QueueTypes' /\ Head(queue[e]) \in Message
    BY <2>1, Taking DEF Receive
  <2>3. Head(queue[e]).req \in Requests
    BY <2>2 DEF Message
  <2>4. HandlerTypes'
    BY <2>1, <2>3 DEF Receive, HandlerTypes
  <2>5. ForwardTypes'
    <3>1. UNCHANGED fwd \/ fwd' = [fwd EXCEPT ![Head(queue[e]).req][e] = "done"]
      BY <2>1 DEF Receive
    <3>2. ASSUME NEW r \in Requests, fwd' = [fwd EXCEPT ![r][e] = "done"] PROVE ForwardTypes'
      BY <3>2 DEF ForwardTypes
    <3> QED
      BY <2>3, <3>1, <3>2, <1>3
  <2> QED
    BY <2>1, <2>2, <2>4, <2>5, <1>2, <1>4, <1>6, <1>0 DEF Receive
<1>16. CASE \E r \in Requests, e \in Endpoints : NilClientPanics(r, e)
  <2> QED
    BY <1>16, <1>1, <1>2, <1>3, <1>4, <1>5, <1>6, <1>0 DEF NilClientPanics
<1>17. CASE UNCHANGED vars
  BY <1>17, <1>0, <1>1, <1>2, <1>3, <1>4, <1>5, <1>6 DEF vars
<1> QED
  BY <1>7, <1>8, <1>9, <1>10, <1>11, <1>12, <1>13, <1>14, <1>15, <1>16, <1>17
     DEF Next, Step, Handle

\* A handler changes nothing of another request.
Same(q) ==
    /\ pc'[q] = pc[q] /\ idx'[q] = idx[q] /\ path'[q] = path[q] /\ status'[q] = status[q]
    /\ words'[q] = words[q] /\ copy'[q] = copy[q]

LEMMA OthersSame ==
    ASSUME Types, NEW r \in Requests, Arrive(r) \/ Handle(r) \/ Expire(r), NEW q \in Requests, q # r
    PROVE  Same(q) /\ fwd'[q] = fwd[q]
<1> USE DEF Types, Goto, Same, goroutines
<1>1. ASSUME NEW l, pc' = [pc EXCEPT ![r] = l] PROVE pc'[q] = pc[q]
  BY <1>1 DEF PcTypes
<1>2. CASE Arrive(r)
  BY <1>1, <1>2 DEF Arrive, PathTypes
<1>3. CASE ReadBody(r)
  BY <1>1, <1>3 DEF ReadBody, HandlerTypes
<1>4. CASE StoreURL(r)
  <2>1. PICK w \in words[r] :
          words' = [words EXCEPT ![r] = IF words[r] = {w} THEN Words ELSE @ \ {w}]
    BY <1>4 DEF StoreURL
  <2> QED
    BY <1>1, <1>4, <2>1 DEF StoreURL, HandlerTypes
<1>5. CASE LoadEndpoint(r)
  <2>1. CASE HasWrite /\ idx[r] = N
    <3>1. PICK w \in words[r] :
            /\ copy' = [copy EXCEPT ![r][w] = url[w]]
            /\ words' = [words EXCEPT ![r] = @ \ {w}]
            /\ Goto(r, IF words[r] = {w} THEN "client" ELSE "load")
      BY <1>5, <2>1 DEF LoadEndpoint
    <3>2. words'[q] = words[q]
      BY <3>1 DEF HandlerTypes
    <3>3. copy'[q] = copy[q]
      BY <3>1 DEF StringTypes
    <3> QED
      BY <1>1, <1>5, <3>1, <3>2, <3>3 DEF LoadEndpoint
  <2>2. CASE ~(HasWrite /\ idx[r] = N)
    BY <1>1, <1>5, <2>2 DEF LoadEndpoint
  <2> QED
    BY <2>1, <2>2
<1>6. CASE CreateClient(r)
  BY <1>1, <1>6 DEF CreateClient
<1>7. CASE NewRequest(r)
  <2>1. fwd'[q] = fwd[q]
    BY <1>7 DEF NewRequest, ForwardTypes
  <2>2. idx'[q] = idx[q]
    <3>1. idx' = [idx EXCEPT ![r] = idx[r] + 1]
      BY <1>7 DEF NewRequest
    <3>2. q \in DOMAIN idx
      BY DEF HandlerTypes
    <3> QED
      BY <3>1, <3>2
  <2> QED
    BY <1>1, <1>7, <2>1, <2>2 DEF NewRequest
<1>8. CASE NewRequestPanics(r) \/ Return(r)
  BY <1>1, <1>8 DEF NewRequestPanics, Return, HandlerTypes
<1>9. CASE Expire(r)
  BY <1>9 DEF Expire
<1> QED
  BY <1>2, <1>3, <1>4, <1>5, <1>6, <1>7, <1>8, <1>9 DEF Handle

\* The sender of the message that is taken is where it waits.
LEMMA Received ==
    ASSUME Types, Queued, NEW e \in Endpoints, Receive(e)
    PROVE  /\ Head(queue[e]).req \in Requests /\ Head(queue[e]).by \in {"handler", "forward"}
           /\ Waits(Head(queue[e]), e)
<1>1. /\ Head(queue[e]) \in Message /\ 1 \in DOMAIN queue[e]
      /\ Head(queue[e]) = queue[e][1]
  BY Taking DEF Types, Receive
<1>2. Waits(queue[e][1], e)
  BY <1>1 DEF Queued
<1>3. Waits(Head(queue[e]), e)
  BY <1>1, <1>2
<1> QED
  BY <1>1, <1>3 DEF Message

LEMMA FlowStep ==
    ASSUME Types, Flow, Queued, [Next]_vars
    PROVE  Flow'
<1> USE EndpointAssumption
<1> USE DEF Types
<1>1. ASSUME NEW q \in Requests, Same(q),
             \A e \in Endpoints : fwd'[q][e] = "none" <=> fwd[q][e] = "none"
      PROVE  FlowOf(q)'
  BY <1>1 DEF Same, Flow, FlowOf
<1>2. ASSUME NEW r \in Requests, Arrive(r) \/ Handle(r) \/ Expire(r), FlowOf(r)' PROVE Flow'
  <2>1. ASSUME NEW q \in Requests, q # r PROVE FlowOf(q)'
    <3>1. Same(q) /\ fwd'[q] = fwd[q]
      BY <1>2, <2>1, OthersSame
    <3> QED
      BY <3>1, <1>1
  <2> QED
    BY <1>2, <2>1 DEF Flow
<1>3. ASSUME NEW r \in Requests, Arrive(r) PROVE FlowOf(r)'
  <2>1. pc'[r] = "read" /\ path'[r] \in Paths /\ pc[r] = "idle"
    BY <1>3 DEF Arrive, Goto, PcTypes, PathTypes
  <2>2. UNCHANGED <<idx, status, fwd>>
    BY <1>3 DEF Arrive, goroutines
  <2> QED
    BY <2>1, <2>2 DEF Flow, FlowOf
<1>4. ASSUME NEW r \in Requests, ReadBody(r) \/ StoreURL(r) PROVE FlowOf(r)'
  <2>1. pc'[r] \in {"store", "load"} /\ pc[r] \in {"read", "store"}
    BY <1>4 DEF ReadBody, StoreURL, Goto, PcTypes
  <2>2. UNCHANGED <<path, idx, status, fwd>>
    BY <1>4 DEF ReadBody, StoreURL, goroutines
  <2> QED
    BY <2>1, <2>2 DEF Flow, FlowOf
<1>5. ASSUME NEW r \in Requests, LoadEndpoint(r) \/ CreateClient(r) PROVE FlowOf(r)'
  <2>1. pc'[r] \in {"load", "client", "request", "blocked"} /\ pc[r] \in {"load", "client"}
    BY <1>5 DEF LoadEndpoint, CreateClient, Goto, PcTypes
  <2>2. UNCHANGED <<path, idx, status, fwd>>
    BY <1>5 DEF LoadEndpoint, CreateClient, goroutines
  <2> QED
    BY <2>1, <2>2 DEF Flow, FlowOf
<1>6. ASSUME NEW r \in Requests, NewRequest(r) PROVE FlowOf(r)'
  <2>1. pc[r] = "request" /\ pc'[r] = IF idx[r] = N THEN "return" ELSE "load"
    BY <1>6 DEF NewRequest, Goto, PcTypes
  <2>2. idx[r] \in 1 .. N
    <3>1. idx[r] \in 1 .. (N + 1)
      BY DEF HandlerTypes
    <3> QED
      BY <2>1, <3>1 DEF Flow, FlowOf
  <2>3. idx'[r] = idx[r] + 1
    <3>1. idx' = [idx EXCEPT ![r] = idx[r] + 1]
      BY <1>6 DEF NewRequest
    <3>2. r \in DOMAIN idx
      BY DEF HandlerTypes
    <3> QED
      BY <3>1, <3>2
  <2>4. UNCHANGED <<path, status>>
    BY <1>6 DEF NewRequest
  <2>5. \A e \in Endpoints : /\ e = idx[r] => fwd'[r][e] # "none"
                             /\ e # idx[r] => fwd'[r][e] = fwd[r][e]
    BY <1>6 DEF NewRequest, ForwardTypes
  <2>6. \A e \in Endpoints : fwd'[r][e] = "none" <=> e >= idx'[r]
    <3>1. \A e \in Endpoints : fwd[r][e] = "none" <=> e >= idx[r]
      BY DEF Flow, FlowOf
    <3>2. \A e \in Endpoints : (e >= idx'[r]) <=> (e >= idx[r] /\ e # idx[r])
      <4>1. \A i, e \in 1 .. N : (e >= i + 1) <=> (e >= i /\ e # i)
        OBVIOUS
      <4> QED
        BY <2>2, <2>3, <4>1 DEF Endpoints
    <3> TAKE e \in Endpoints
    <3>3. CASE e = idx[r]
      BY <2>5, <3>2, <3>3
    <3>4. CASE e # idx[r]
      <4>1. (e >= idx'[r]) <=> (e >= idx[r])
        BY <3>2, <3>4
      <4>2. fwd'[r][e] = fwd[r][e] /\ (fwd[r][e] = "none" <=> e >= idx[r])
        BY <2>5, <3>1, <3>4
      <4> QED
        BY <4>1, <4>2
    <3> QED
      BY <3>3, <3>4
  <2> QED
    BY <2>1, <2>2, <2>3, <2>4, <2>6 DEF Flow, FlowOf
<1>7. ASSUME NEW r \in Requests, NewRequestPanics(r) \/ Return(r) PROVE FlowOf(r)'
  <2>1. \/ pc[r] = "request" /\ pc'[r] = "panicked" /\ status'[r] \in {500, 504}
        \/ pc[r] = "return" /\ pc'[r] = "done" /\ status'[r] \in {200, 504}
    BY <1>7 DEF NewRequestPanics, Return, Goto, PcTypes, HandlerTypes
  <2>2. UNCHANGED <<path, idx, fwd>>
    BY <1>7 DEF NewRequestPanics, Return, goroutines
  <2> QED
    BY <2>1, <2>2 DEF Flow, FlowOf
<1>8. ASSUME NEW r \in Requests, Expire(r) PROVE FlowOf(r)'
  BY <1>8, <1>1 DEF Expire, Same, goroutines
<1>9. ASSUME NEW r \in Requests, NEW e \in Endpoints, Forward(r, e) PROVE Flow'
  <2>1. fwd[r][e] = "send" /\ fwd' = [fwd EXCEPT ![r][e] = "log"] /\ UNCHANGED handler
    BY <1>9 DEF Forward, Report
  <2>2. \A q \in Requests, f \in Endpoints : fwd'[q][f] = "none" <=> fwd[q][f] = "none"
    BY <2>1 DEF ForwardTypes
  <2> QED
    BY <2>1, <2>2, <1>1 DEF Flow, handler, Same
<1>10. ASSUME NEW e \in Endpoints, Receive(e) PROVE Flow'
  <2> DEFINE m == Head(queue[e])
  <2>1. m.req \in Requests /\ m.by \in {"handler", "forward"} /\ Waits(m, e)
    BY <1>10, Received
  <2>2. UNCHANGED <<path, idx, words, copy, status>>
    BY <1>10 DEF Receive
  <2>3. CASE m.by = "forward"
    <3>1. fwd' = [fwd EXCEPT ![m.req][e] = "done"] /\ UNCHANGED pc
      BY <1>10, <2>3 DEF Receive
    <3>2. fwd[m.req][e] = "log"
      BY <2>1, <2>3 DEF Waits
    <3> HIDE DEF m
    <3>3. \A q \in Requests, f \in Endpoints : fwd'[q][f] = "none" <=> fwd[q][f] = "none"
      BY <2>1, <3>1, <3>2 DEF ForwardTypes
    <3> QED
      BY <2>2, <3>1, <3>3, <1>1 DEF Flow, Same
  <2>4. CASE m.by = "handler"
    <3>1. pc' = [pc EXCEPT ![m.req] = "request"] /\ UNCHANGED fwd
      BY <1>10, <2>4 DEF Receive, Goto
    <3>2. pc[m.req] = "blocked"
      BY <2>1, <2>4 DEF Waits
    <3> HIDE DEF m
    <3>3. ASSUME NEW q \in Requests PROVE FlowOf(q)'
      <4>1. pc'[q] = IF q = m.req THEN "request" ELSE pc[q]
        BY <2>1, <3>1 DEF PcTypes
      <4> QED
        BY <2>2, <3>1, <3>2, <4>1 DEF Flow, FlowOf
    <3> QED
      BY <3>3 DEF Flow
  <2> QED
    BY <2>1, <2>3, <2>4
<1>11. ASSUME UNCHANGED <<handler, fwd>> PROVE Flow'
  BY <1>11, <1>1 DEF handler, Same, Flow
<1>12. ASSUME NEW r \in Requests, Arrive(r) \/ Handle(r) \/ Expire(r) PROVE Flow'
  BY <1>12, <1>2, <1>3, <1>4, <1>5, <1>6, <1>7, <1>8 DEF Handle
<1> QED
  BY <1>9, <1>10, <1>11, <1>12 DEF Next, Step, vars, NilClientPanics, goroutines

\* Who waits keeps waiting while handlers go on.
LEMMA WaitsKept ==
    ASSUME Types, Flow, NEW r \in Requests, Arrive(r) \/ Handle(r) \/ Expire(r),
           NEW m \in Message, NEW e \in Endpoints, Waits(m, e)
    PROVE  Waits(m, e)'
<1> USE DEF Types
<1>1. m.req \in Requests /\ m.by \in {"handler", "forward"}
  BY DEF Message
<1>2. CASE m.req # r
  <2>1. Same(m.req) /\ fwd'[m.req] = fwd[m.req]
    BY <1>1, <1>2, OthersSame
  <2> QED
    BY <2>1 DEF Waits, Same
<1>3. CASE m.req = r /\ m.by = "handler"
  <2>1. pc[r] = "blocked"
    BY <1>3 DEF Waits
  <2>2. UNCHANGED <<pc, idx>>
    BY <2>1 DEF Arrive, Handle, ReadBody, StoreURL, LoadEndpoint, CreateClient, NewRequest,
                NewRequestPanics, Return, Expire
  <2> QED
    BY <1>3, <2>2 DEF Waits
<1>4. CASE m.req = r /\ m.by = "forward"
  <2>1. fwd[r][e] = "log"
    BY <1>4 DEF Waits
  <2>2. CASE NewRequest(r)
    <3>1. idx[r] \in 1 .. (N + 1)
      BY DEF HandlerTypes
    <3>2. e # idx[r]
      <4>1. \A f \in Endpoints : fwd[r][f] = "none" <=> f >= idx[r]
        BY DEF Flow, FlowOf
      <4>2. idx[r] \in Endpoints => fwd[r][idx[r]] = "none"
        BY <3>1, <4>1, EndpointAssumption
      <4> QED
        BY <2>1, <4>2
    <3>3. fwd'[r][e] = fwd[r][e]
      BY <2>2, <3>2 DEF NewRequest, ForwardTypes
    <3> QED
      BY <1>4, <2>1, <3>3 DEF Waits
  <2>3. CASE ~NewRequest(r)
    <3>1. UNCHANGED fwd
      BY <2>3 DEF Arrive, Handle, ReadBody, StoreURL, LoadEndpoint, CreateClient,
                  NewRequestPanics, Return, Expire, goroutines
    <3> QED
      BY <1>4, <2>1, <3>1 DEF Waits
  <2> QED
    BY <2>2, <2>3
<1> QED
  BY <1>1, <1>2, <1>3, <1>4

\* A sender that does not wait yet joins its queue.
LEMMA Joining ==
    ASSUME Types, Queued, NEW e \in Endpoints, NEW m \in Message, Send(e, m),
           ~Waits(m, e), Waits(m, e)',
           \A n \in Message, f \in Endpoints : Waits(n, f) => Waits(n, f)'
    PROVE  Queued'
<1>1. /\ \A f \in Endpoints : f # e => queue'[f] = queue[f]
      /\ Len(queue[e]) \in Nat
      /\ DOMAIN queue[e] = 1 .. Len(queue[e])
      /\ DOMAIN queue'[e] = 1 .. (Len(queue[e]) + 1)
      /\ queue'[e][Len(queue[e]) + 1] = m
      /\ \A i \in DOMAIN queue[e] : queue'[e][i] = queue[e][i]
  BY Sending DEF Types
<1>2. \A f \in Endpoints : \A i \in DOMAIN queue[f] :
        /\ queue[f][i] \in Message /\ Waits(queue[f][i], f)
  <2>1. \A f \in Endpoints : queue[f] \in Seq(Message)
    BY DEF Types, QueueTypes
  <2>2. \A f \in Endpoints : \A i \in DOMAIN queue[f] : queue[f][i] \in Message
    BY <2>1, ElementOfSeq, LenProperties
  <2> QED
    BY <2>2 DEF Queued
<1>3. ASSUME NEW f \in Endpoints, NEW i \in DOMAIN queue'[f] PROVE Waits(queue[f][i], f)'
  <2>1. queue'[f][i] \in Message /\ (Waits(queue'[f][i], f) \/ (queue'[f][i] = m /\ f = e))
    BY <1>1, <1>2
  <2> QED
    BY <2>1 DEF Waits
<1>4. ASSUME NEW f \in Endpoints, NEW i \in DOMAIN queue'[f], NEW j \in DOMAIN queue'[f],
             queue'[f][i] = queue'[f][j]
      PROVE  i = j
  <2>1. CASE f # e
    BY <1>1, <1>4, <2>1 DEF Queued
  <2>2. CASE f = e
    <3>1. \A k \in DOMAIN queue[e] : queue'[e][k] # m
      BY <1>1, <1>2
    <3> QED
      BY <1>1, <1>4, <2>2, <3>1 DEF Queued
  <2> QED
    BY <2>1, <2>2
<1> QED
  BY <1>3, <1>4 DEF Queued

LEMMA QueuedStep ==
    ASSUME Types, Flow, Queued, [Next]_vars
    PROVE  Queued'
<1> USE DEF Types
<1>1. ASSUME UNCHANGED queue, \A n \in Message, f \in Endpoints : Waits(n, f) => Waits(n, f)'
      PROVE  Queued'
  <2>1. \A f \in Endpoints : queue[f] \in Seq(Message)
    BY DEF QueueTypes
  <2>2. \A f \in Endpoints : \A i \in DOMAIN queue[f] : queue[f][i] \in Message
    BY <2>1, ElementOfSeq, LenProperties
  <2> QED
    BY <1>1, <2>2 DEF Queued, Waits
<1>2. ASSUME NEW r \in Requests, Arrive(r) \/ Handle(r) \/ Expire(r) PROVE Queued'
  <2>1. \A n \in Message, f \in Endpoints : Waits(n, f) => Waits(n, f)'
    BY <1>2, WaitsKept
  <2>2. CASE UNCHANGED queue
    BY <1>1, <2>1, <2>2
  <2>3. CASE /\ pc[r] = "client" /\ Goto(r, "blocked") /\ UNCHANGED idx
             /\ Send(idx[r], [req |-> r, by |-> "handler"])
    <3> DEFINE m == [req |-> r, by |-> "handler"]
    <3>1. m \in Message
      BY DEF Message
    <3>2. pc[r] = "client" /\ pc' = [pc EXCEPT ![r] = "blocked"] /\ UNCHANGED idx
      BY <2>3 DEF Goto
    <3>3. idx[r] \in Endpoints
      <4>1. idx[r] <= N
        BY <3>2 DEF Flow, FlowOf
      <4>2. idx[r] \in 1 .. (N + 1)
        BY DEF HandlerTypes
      <4> QED
        BY <4>1, <4>2, EndpointAssumption DEF Endpoints
    <3>4. ~Waits(m, idx[r]) /\ pc'[r] = "blocked" /\ idx'[r] = idx[r]
      BY <3>2 DEF Waits, PcTypes
    <3>5. PICK e \in Endpoints : e = idx[r]
      BY <3>3
    <3>6. Waits(m, e)' /\ ~Waits(m, e)
      BY <3>4, <3>5 DEF Waits
    <3> HIDE DEF m
    <3> QED
      BY <2>1, <2>3, <3>1, <3>5, <3>6, Joining DEF m
  <2> QED
    BY <1>2, <2>2, <2>3 DEF Arrive, Handle, ReadBody, StoreURL, LoadEndpoint, CreateClient,
       NewRequest, NewRequestPanics, Return, Expire, goroutines
<1>3. ASSUME NEW r \in Requests, NEW e \in Endpoints, Forward(r, e) PROVE Queued'
  <2> DEFINE m == [req |-> r, by |-> "forward"]
  <2>1. /\ fwd[r][e] = "send" /\ fwd' = [fwd EXCEPT ![r][e] = "log"] /\ UNCHANGED <<pc, idx>>
        /\ Send(e, m)
    BY <1>3 DEF Forward, Report, handler
  <2>2. m \in Message
    BY DEF Message
  <2>3. ~Waits(m, e) /\ Waits(m, e)'
    BY <2>1 DEF Waits, ForwardTypes
  <2>4. ASSUME NEW n \in Message, NEW f \in Endpoints, Waits(n, f) PROVE Waits(n, f)'
    <3>1. n.req \in Requests
      BY DEF Message
    <3>2. fwd[n.req][f] = "log" => fwd'[n.req][f] = "log"
      BY <2>1, <3>1 DEF ForwardTypes
    <3> QED
      BY <2>1, <2>4, <3>2 DEF Waits
  <2> QED
    BY <2>1, <2>2, <2>3, <2>4, Joining
<1>4. ASSUME NEW e \in Endpoints, Receive(e) PROVE Queued'
  <2> DEFINE m == Head(queue[e])
  <2>1. m.req \in Requests /\ m.by \in {"handler", "forward"} /\ Waits(m, e)
    BY <1>4, Received
  <2>2. /\ \A f \in Endpoints : f # e => queue'[f] = queue[f]
        /\ m \in Message /\ 1 \in DOMAIN queue[e] /\ m = queue[e][1]
        /\ \A i \in DOMAIN queue'[e] :
             i \in Nat \ {0} /\ i + 1 \in DOMAIN queue[e] /\ queue'[e][i] = queue[e][i + 1]
    BY <1>4, Taking DEF Receive
  <2>3. UNCHANGED idx /\ \/ /\ m.by = "forward" /\ UNCHANGED pc
                            /\ fwd' = [fwd EXCEPT ![m.req][e] = "done"]
                         \/ /\ m.by = "handler" /\ UNCHANGED fwd
                            /\ pc' = [pc EXCEPT ![m.req] = "request"]
    BY <1>4, <2>1 DEF Receive, Goto
  <2> HIDE DEF m
  <2>4. ASSUME NEW n \in Message, NEW f \in Endpoints, Waits(n, f), n # m \/ f # e
        PROVE  Waits(n, f)'
    <3>1. n.req \in Requests /\ n.by \in {"handler", "forward"}
      BY DEF Message
    <3>2. n.req = m.req /\ n.by = m.by => f # e
      BY <2>2, <2>4 DEF Message
    <3>3. CASE m.by = "forward"
      <4>1. fwd[n.req][f] = "log" /\ n.by = "forward" => fwd'[n.req][f] = "log"
        <5>1. fwd' = [fwd EXCEPT ![m.req][e] = "done"]
          BY <2>3, <3>3
        <5>2. n.req # m.req \/ f # e => fwd'[n.req][f] = fwd[n.req][f]
          BY <2>1, <3>1, <5>1 DEF ForwardTypes
        <5> QED
          BY <3>2, <3>3, <5>2
      <4> QED
        BY <2>3, <2>4, <3>1, <3>3, <4>1 DEF Waits
    <3>4. CASE m.by = "handler"
      <4>1. n.by = "handler" => n.req # m.req
        BY <2>1, <2>4, <3>2, <3>4 DEF Waits
      <4>2. n.req # m.req => pc'[n.req] = pc[n.req]
        BY <2>1, <2>3, <3>1, <3>4 DEF PcTypes
      <4> QED
        BY <2>3, <2>4, <3>1, <3>4, <4>1, <4>2 DEF Waits
    <3> QED
      BY <2>1, <3>3, <3>4
  <2>5. \A f \in Endpoints : \A i \in DOMAIN queue[f] : queue[f][i] \in Message
    <3>1. \A f \in Endpoints : queue[f] \in Seq(Message)
      BY DEF QueueTypes
    <3> QED
      BY <3>1, ElementOfSeq, LenProperties
  <2>6. ASSUME NEW f \in Endpoints, NEW i \in DOMAIN queue'[f] PROVE Waits(queue[f][i], f)'
    <3>1. CASE f # e
      <4>1. queue'[f][i] \in Message /\ Waits(queue'[f][i], f)
        BY <2>2, <2>5, <2>6, <3>1 DEF Queued
      <4> QED
        BY <2>4, <3>1, <4>1 DEF Waits
    <3>2. CASE f = e
      <4>1. queue'[e][i] \in Message /\ Waits(queue'[e][i], e)
        BY <2>2, <2>5, <2>6, <3>2 DEF Queued
      <4>2. queue'[e][i] # m
        BY <2>2, <2>6, <3>2 DEF Queued
      <4> QED
        BY <2>4, <3>2, <4>1, <4>2 DEF Waits
    <3> QED
      BY <3>1, <3>2
  <2>7. ASSUME NEW f \in Endpoints, NEW i \in DOMAIN queue'[f], NEW j \in DOMAIN queue'[f],
               queue'[f][i] = queue'[f][j]
        PROVE  i = j
    BY <2>2, <2>7 DEF Queued
  <2> QED
    BY <2>6, <2>7 DEF Queued
<1>5. ASSUME UNCHANGED <<handler, goroutines>> PROVE Queued'
  BY <1>1, <1>5 DEF handler, goroutines, Waits
<1> QED
  BY <1>2, <1>3, <1>4, <1>5 DEF Next, Step, vars, NilClientPanics

LEMMA SharedURLStep ==
    ASSUME Types, Flow, Queued, SharedURL, [Next]_vars
    PROVE  SharedURL'
<1> USE EndpointAssumption
<1> USE DEF Types
<1> SUFFICES ASSUME HasWrite PROVE SharedURL'
  BY DEF SharedURL
\* All handlers that have begun to store have the same target.
<1>1. \A q, r \in Requests : path[q] \in Paths /\ path[r] \in Paths => Target(q) = Target(r)
  BY JoinedURL DEF Target
<1>2. ASSUME NEW q \in Requests, Same(q), UNCHANGED url PROVE SharedOf(q)'
  BY <1>2 DEF SharedURL, SharedOf, HasStored, HasLoaded, Target, Same
<1>3. ASSUME NEW r \in Requests, Arrive(r) \/ Handle(r) \/ Expire(r), UNCHANGED url, SharedOf(r)'
      PROVE  SharedURL'
  <2>1. ASSUME NEW q \in Requests, q # r PROVE SharedOf(q)'
    BY <1>2, <1>3, <2>1, OthersSame
  <2> QED
    BY <1>3, <2>1 DEF SharedURL
<1>4. ASSUME NEW r \in Requests, Arrive(r) \/ ReadBody(r) PROVE SharedURL'
  <2>1. pc'[r] \in {"read", "store"} /\ (pc'[r] = "store" => words'[r] = Words)
    BY <1>4 DEF Arrive, ReadBody, Goto, PcTypes, HandlerTypes
  <2>2. idx'[r] = 1 /\ UNCHANGED url
    BY <1>4 DEF Arrive, ReadBody, Flow, FlowOf
  <2>3. SharedOf(r)'
    BY <2>1, <2>2 DEF SharedOf, HasStored, HasLoaded
  <2> QED
    BY <1>3, <1>4, <2>2, <2>3 DEF Handle
<1>5. ASSUME NEW r \in Requests, StoreURL(r) PROVE SharedURL'
  <2>1. PICK w \in words[r] :
          /\ url' = [url EXCEPT ![w] = Target(r)[w]]
          /\ words' = [words EXCEPT ![r] = IF words[r] = {w} THEN Words ELSE @ \ {w}]
    BY <1>5 DEF StoreURL, Target
  <2>2. words[r] \subseteq Words /\ pc[r] = "store" /\ path[r] \in Paths /\ idx[r] = 1
    BY <1>5 DEF StoreURL, HandlerTypes, Flow, FlowOf
  <2>3. \A v \in Words : url'[v] = IF v = w THEN Target(r)[w] ELSE url[v]
    BY <2>1, <2>2 DEF StringTypes, GoString, Words
  <2>4. UNCHANGED <<idx, path, copy>>
    BY <1>5 DEF StoreURL
  <2>5. /\ words[r] = {w} => pc'[r] = "load" /\ words'[r] = Words
        /\ words[r] # {w} => pc'[r] = "store" /\ words'[r] = words[r] \ {w}
    <3>1. Cardinality(words[r]) = 1 <=> words[r] = {w}
      BY <2>2, LastWord
    <3>2. pc'[r] = IF Cardinality(words[r]) = 1 THEN "load" ELSE "store"
      BY <1>5 DEF StoreURL, Goto, PcTypes
    <3>3. words'[r] = IF words[r] = {w} THEN Words ELSE words[r] \ {w}
      BY <2>1 DEF HandlerTypes
    <3> QED
      BY <3>1, <3>2, <3>3
  <2>6. SharedOf(r)'
    <3>1. \A v \in Words : v \notin words[r] => url[v] = Target(r)[v]
      BY <2>2 DEF SharedURL, SharedOf, HasStored
    <3>2. \A v \in Words : HasStored(r, v)' => url'[v] = Target(r)[v]
      BY <2>2, <2>3, <2>5, <3>1 DEF HasStored
    <3>3. \A v \in Words : ~HasLoaded(r, v)'
      BY <2>2, <2>4, <2>5 DEF HasLoaded
    <3>4. pc'[r] \in {"load", "store"} /\ (pc'[r] = "load" => words'[r] = Words)
      BY <2>5
    <3> QED
      BY <2>4, <3>2, <3>3, <3>4 DEF SharedOf, Target
  <2>7. ASSUME NEW q \in Requests, q # r PROVE SharedOf(q)'
    <3>1. Same(q)
      BY <1>5, <2>7, OthersSame DEF Handle
    <3>2. \A v \in Words : HasStored(q, v) => url'[v] = Target(q)[v]
      <4>1. ASSUME NEW v \in Words, HasStored(q, v) PROVE path[q] \in Paths
        BY <4>1 DEF HasStored, Flow, FlowOf
      <4>2. \A v \in Words : HasStored(q, v) => url[v] = Target(q)[v]
        BY DEF SharedURL, SharedOf
      <4> QED
        BY <1>1, <2>2, <2>3, <4>1, <4>2
    <3> QED
      BY <3>1, <3>2 DEF SharedURL, SharedOf, HasStored, HasLoaded, Target, Same
  <2> QED
    BY <2>6, <2>7 DEF SharedURL
<1>6. ASSUME NEW r \in Requests, LoadEndpoint(r) PROVE SharedURL'
  <2>1. UNCHANGED <<url, idx, path>> /\ pc[r] = "load"
    BY <1>6 DEF LoadEndpoint
  <2>2. \A v \in Words : url[v] = Target(r)[v] /\ (HasLoaded(r, v) => copy[r][v] = Target(r)[v])
    BY <2>1 DEF SharedURL, SharedOf, HasStored
  <2>3. CASE idx[r] = N
    <3>1. PICK w \in words[r] :
            /\ copy' = [copy EXCEPT ![r][w] = url[w]]
            /\ words' = [words EXCEPT ![r] = @ \ {w}]
            /\ Goto(r, IF words[r] = {w} THEN "client" ELSE "load")
      BY <1>6, <2>3 DEF LoadEndpoint
    <3>2. words[r] \subseteq Words /\ words'[r] = words[r] \ {w}
      BY <3>1 DEF HandlerTypes
    <3>3. pc'[r] \in {"client", "load"} /\ (pc'[r] = "client" => words[r] = {w})
      BY <3>1 DEF Goto, PcTypes
    <3>4. \A v \in Words : copy'[r][v] = IF v = w THEN url[w] ELSE copy[r][v]
      <4>1. copy[r] \in GoString /\ copy'[r] = [copy[r] EXCEPT ![w] = url[w]]
        BY <3>1 DEF StringTypes
      <4> QED
        BY <3>2, <4>1 DEF GoString, Words
    <3>5. \A v \in Words : HasLoaded(r, v)' => v = w \/ HasLoaded(r, v)
      BY <2>1, <2>3, <3>2, <3>3 DEF HasLoaded
    <3>6. \A v \in Words : HasLoaded(r, v)' => copy'[r][v] = Target(r)[v]
      BY <2>2, <3>2, <3>4, <3>5
    <3>7. SharedOf(r)'
      BY <2>1, <2>2, <2>3, <3>6 DEF SharedOf, Target
    <3> QED
      BY <1>3, <1>6, <2>1, <3>7 DEF Handle
  <2>4. CASE idx[r] # N
    <3>1. pc'[r] = "client" /\ UNCHANGED <<copy, words>>
      BY <1>6, <2>4 DEF LoadEndpoint, Goto, PcTypes
    <3>2. \A v \in Words : HasLoaded(r, v)' => HasLoaded(r, v)
      BY <2>1, <2>4, <3>1 DEF HasLoaded
    <3>3. SharedOf(r)'
      BY <2>1, <2>2, <3>1, <3>2 DEF SharedURL, SharedOf, Target
    <3> QED
      BY <1>3, <1>6, <2>1, <3>3 DEF Handle
  <2> QED
    BY <2>3, <2>4
<1>7. ASSUME NEW r \in Requests, UNCHANGED <<url, idx, path, words, copy>>,
             pc[r] \in {"client", "blocked", "request"}, pc'[r] \in {"blocked", "request", "panicked"}
      PROVE  SharedOf(r)'
  BY <1>7 DEF SharedURL, SharedOf, HasStored, HasLoaded, Target
<1>8. ASSUME NEW r \in Requests, CreateClient(r) \/ NewRequestPanics(r) PROVE SharedURL'
  <2>1. /\ pc[r] \in {"client", "request"} /\ pc'[r] \in {"blocked", "request", "panicked"}
        /\ UNCHANGED <<url, idx, path, words, copy>>
    BY <1>8 DEF CreateClient, NewRequestPanics, Goto, PcTypes
  <2> QED
    BY <1>3, <1>7, <1>8, <2>1 DEF Handle
<1>9. ASSUME NEW r \in Requests, NewRequest(r) PROVE SharedURL'
  <2>1. pc[r] = "request" /\ pc'[r] = IF idx[r] = N THEN "return" ELSE "load"
    BY <1>9 DEF NewRequest, Goto, PcTypes
  <2>2. UNCHANGED <<url, path, words, copy>>
    BY <1>9 DEF NewRequest
  <2>3. idx[r] \in 1 .. N
    <3>1. idx[r] \in 1 .. (N + 1)
      BY DEF HandlerTypes
    <3> QED
      BY <2>1, <3>1 DEF Flow, FlowOf
  <2>4. idx'[r] = idx[r] + 1
    <3>1. idx' = [idx EXCEPT ![r] = idx[r] + 1]
      BY <1>9 DEF NewRequest
    <3>2. r \in DOMAIN idx
      BY DEF HandlerTypes
    <3> QED
      BY <3>1, <3>2
  <2>5. CASE idx[r] = N
    <3>1. \A w \in Words : HasStored(r, w) /\ HasLoaded(r, w)
      BY <2>1, <2>5 DEF HasStored, HasLoaded
    <3>2. pc'[r] = "return"
      BY <2>1, <2>5
    <3>3. SharedOf(r)'
      BY <2>2, <3>1, <3>2 DEF SharedURL, SharedOf, Target
    <3> QED
      BY <1>3, <1>9, <2>2, <3>3 DEF Handle
  <2>6. CASE idx[r] # N
    <3>1. words[r] = Words /\ pc'[r] = "load" /\ idx'[r] # N + 1
      BY <2>1, <2>3, <2>4, <2>6 DEF SharedURL, SharedOf
    <3>2. \A w \in Words : HasStored(r, w) /\ ~HasLoaded(r, w)'
      BY <2>1, <2>2, <3>1 DEF HasStored, HasLoaded
    <3>3. SharedOf(r)'
      BY <2>2, <3>1, <3>2 DEF SharedURL, SharedOf, Target
    <3> QED
      BY <1>3, <1>9, <2>2, <3>3 DEF Handle
  <2> QED
    BY <2>5, <2>6
<1>10. ASSUME NEW r \in Requests, Return(r) PROVE SharedURL'
  <2>1. pc[r] = "return" /\ pc'[r] = "done" /\ UNCHANGED <<url, idx, path, words, copy>>
    BY <1>10 DEF Return, Goto, PcTypes
  <2>2. SharedOf(r)'
    BY <2>1 DEF SharedURL, SharedOf, HasStored, HasLoaded, Target
  <2> QED
    BY <1>3, <1>10, <2>1, <2>2 DEF Handle
<1>11. ASSUME UNCHANGED <<pc, path, idx, words, copy, status, url>> PROVE SharedURL'
  BY <1>2, <1>11 DEF SharedURL, Same
<1>12. ASSUME NEW e \in Endpoints, Receive(e) PROVE SharedURL'
  <2> DEFINE m == Head(queue[e])
  <2>1. m.req \in Requests /\ m.by \in {"handler", "forward"} /\ Waits(m, e)
    BY <1>12, Received
  <2>2. UNCHANGED <<url, path, idx, words, copy, status>>
    BY <1>12 DEF Receive
  <2>3. CASE m.by = "forward"
    <3>1. UNCHANGED pc
      BY <1>12, <2>3 DEF Receive
    <3> QED
      BY <1>11, <2>2, <3>1
  <2>4. CASE m.by = "handler"
    <3>1. PICK r \in Requests : r = m.req
      BY <2>1
    <3>2. pc' = [pc EXCEPT ![r] = "request"]
      BY <1>12, <2>4, <3>1 DEF Receive, Goto
    <3>3. pc[r] = "blocked"
      BY <2>1, <2>4, <3>1 DEF Waits
    <3>4. SharedOf(r)'
      <4>1. pc'[r] = "request"
        BY <3>2 DEF PcTypes
      <4> QED
        BY <1>7, <2>2, <3>3, <4>1
    <3>5. ASSUME NEW q \in Requests, q # r PROVE SharedOf(q)'
      <4>1. pc'[q] = pc[q]
        BY <3>2, <3>5 DEF PcTypes
      <4> QED
        BY <1>2, <2>2, <4>1 DEF Same
    <3> QED
      BY <3>4, <3>5 DEF SharedURL
  <2> QED
    BY <2>1, <2>3, <2>4
<1>13. CASE \E r \in Requests : Arrive(r) \/ Handle(r) \/ Expire(r)
  <2>1. PICK r \in Requests : Arrive(r) \/ Handle(r) \/ Expire(r)
    BY <1>13
  <2>2. CASE Expire(r)
    BY <1>11, <2>2 DEF Expire
  <2> QED
    BY <2>1, <2>2, <1>4, <1>5, <1>6, <1>8, <1>9, <1>10 DEF Handle
<1>14. CASE \E r \in Requests, e \in Endpoints : Forward(r, e) \/ NilClientPanics(r, e)
  <2>1. UNCHANGED <<handler, url>>
    BY <1>14 DEF Forward, Report, NilClientPanics
  <2> QED
    BY <1>11, <2>1 DEF handler
<1>15. CASE UNCHANGED vars
  BY <1>11, <1>15 DEF vars, handler
<1> QED
  BY <1>12, <1>13, <1>14, <1>15 DEF Next, Step

\* Each outcome is counted when it becomes known.
LEMMA CountedStep ==
    ASSUME Types, Flow, Queued, Counted, [Next]_vars
    PROVE  Counted'
<1> USE DEF Types
<1>1. ASSUME UNCHANGED forwarded,
             \A r \in Requests, e \in Endpoints :
                fwd'[r][e] \in {"log", "done"} <=> fwd[r][e] \in {"log", "done"}
      PROVE  Counted'
  <2>1. \A e \in Endpoints : Known(e)' = Known(e)
    BY <1>1 DEF Known
  <2> QED
    BY <1>1, <2>1 DEF Counted, Total
<1>2. ASSUME NEW r \in Requests, NewRequest(r) PROVE Counted'
  <2>1. \A f \in Endpoints : f >= idx[r] => fwd[r][f] = "none"
    BY DEF Flow, FlowOf
  <2>2. UNCHANGED forwarded
    BY <1>2 DEF NewRequest, counters
  <2>3. ASSUME NEW q \in Requests, NEW e \in Endpoints
        PROVE  fwd'[q][e] \in {"log", "done"} <=> fwd[q][e] \in {"log", "done"}
    <3>1. ASSUME q = r, e = idx[r] PROVE fwd[q][e] = "none"
      <4>1. e >= idx[r]
        BY <3>1, EndpointAssumption DEF Endpoints
      <4> QED
        BY <2>1, <3>1, <4>1
    <3>2. PICK g \in {"send", "nil client"} : fwd' = [fwd EXCEPT ![r][idx[r]] = g]
      BY <1>2 DEF NewRequest
    <3>3. fwd'[q][e] = IF q = r /\ e = idx[r] THEN g ELSE fwd[q][e]
      BY <3>2 DEF ForwardTypes
    <3>4. CASE q = r /\ e = idx[r]
      BY <3>1, <3>3, <3>4
    <3>5. CASE ~(q = r /\ e = idx[r])
      BY <3>3, <3>5
    <3> QED
      BY <3>4, <3>5
  <2> QED
    BY <1>1, <2>2, <2>3
<1>3. ASSUME NEW r \in Requests, NEW e \in Endpoints, Forward(r, e) PROVE Counted'
  <2>1. PICK code \in Codes : Report(r, e, code)
    BY <1>3 DEF Forward
  <2>2. fwd[r][e] = "send" /\ fwd' = [fwd EXCEPT ![r][e] = "log"]
    BY <1>3 DEF Forward, Report
  <2>3. \A q \in Requests, f \in Endpoints :
          fwd'[q][f] = IF q = r /\ f = e THEN "log" ELSE fwd[q][f]
    BY <2>2 DEF ForwardTypes
  <2>4. Known(e)' = Known(e) \cup {r} /\ r \notin Known(e)
    BY <2>2, <2>3 DEF Known
  <2>5. \A f \in Endpoints : f # e => Known(f)' = Known(f) /\ forwarded'[f] = forwarded[f]
    BY <2>1, <2>3 DEF Known, Report, CountTypes
  <2>6. \A c \in Codes : forwarded'[e][c] = IF c = code THEN forwarded[e][c] + 1 ELSE forwarded[e][c]
    BY <2>1 DEF Report, CountTypes
  <2>7. \A c \in Codes : forwarded[e][c] \in Nat
    BY DEF CountTypes
  <2>8. Total(e)' = Total(e) + 1
    BY <2>6, <2>7 DEF Total, Codes
  <2>9. IsFiniteSet(Known(e)') /\ Cardinality(Known(e)') = Cardinality(Known(e)) + 1
    BY <2>4, FS_AddElement DEF Counted
  <2>10. (IsFiniteSet(Known(e)) /\ Total(e) = Cardinality(Known(e)))'
    BY <2>8, <2>9 DEF Counted
  <2>11. ASSUME NEW f \in Endpoints, f # e
         PROVE  (IsFiniteSet(Known(f)) /\ Total(f) = Cardinality(Known(f)))'
    BY <2>5, <2>11 DEF Counted, Total
  <2> QED
    BY <2>10, <2>11 DEF Counted
<1>4. ASSUME NEW e \in Endpoints, Receive(e) PROVE Counted'
  <2> DEFINE m == Head(queue[e])
  <2>1. m.req \in Requests /\ m.by \in {"handler", "forward"} /\ Waits(m, e)
    BY <1>4, Received
  <2>2. UNCHANGED forwarded
    BY <1>4 DEF Receive, counters
  <2>3. \/ UNCHANGED fwd
        \/ m.by = "forward" /\ fwd' = [fwd EXCEPT ![m.req][e] = "done"]
    BY <1>4 DEF Receive
  <2>4. m.by = "forward" => fwd[m.req][e] = "log"
    BY <2>1 DEF Waits
  <2> HIDE DEF m
  <2>5. ASSUME m.by = "forward", fwd' = [fwd EXCEPT ![m.req][e] = "done"],
               NEW q \in Requests, NEW f \in Endpoints
        PROVE  fwd'[q][f] \in {"log", "done"} <=> fwd[q][f] \in {"log", "done"}
    BY <2>1, <2>4, <2>5 DEF ForwardTypes
  <2> QED
    BY <1>1, <2>2, <2>3, <2>5
<1>5. ASSUME UNCHANGED <<fwd, forwarded>> PROVE Counted'
  BY <1>1, <1>5
<1> QED
  BY <1>2, <1>3, <1>4, <1>5 DEF Next, Step, Arrive, Handle, ReadBody, StoreURL, LoadEndpoint,
     CreateClient, NewRequestPanics, Return, Expire, NilClientPanics, vars, goroutines, counters

-----------------------------------------------------------------------------
(* The theorems                                                            *)

LEMMA InvInit == Init => Inv
<1> SUFFICES ASSUME Init PROVE Inv
  OBVIOUS
<1> USE EndpointAssumption
<1>1. Types
  <2>1. WorldTypes /\ PcTypes
    BY DEF Init, WorldTypes, PcTypes, Labels
  <2>2. HandlerTypes
    BY DEF Init, HandlerTypes
  <2>3. PathTypes /\ ForwardTypes
    BY DEF Init, PathTypes, ForwardTypes
  <2>4. StringTypes
    BY FirstURL DEF Init, StringTypes
  <2>5. QueueTypes
    BY EmptySeq DEF Init, QueueTypes
  <2>6. CountTypes
    BY DEF Init, CountTypes
  <2> QED
    BY <2>1, <2>2, <2>3, <2>4, <2>5, <2>6 DEF Types
<1>2. Flow
  BY DEF Init, Flow, FlowOf, Endpoints
<1>3. Queued
  <2>1. \A e \in Endpoints : queue[e] = <<>> /\ DOMAIN queue[e] = {}
    BY DEF Init
  <2> QED
    BY <2>1 DEF Queued
<1>4. SharedURL
  BY DEF Init, SharedURL, SharedOf, HasStored, HasLoaded
<1>5. Counted
  <2>1. \A e \in Endpoints : Known(e) = {} /\ Total(e) = 0
    BY DEF Init, Known, Total, Codes
  <2> QED
    BY <2>1, FS_EmptySet DEF Counted
<1> QED
  BY <1>1, <1>2, <1>3, <1>4, <1>5 DEF Inv

LEMMA InvNext == Inv /\ [Next]_vars => Inv'
BY TypesStep, FlowStep, QueuedStep, SharedURLStep, CountedStep DEF Inv

LEMMA Invariance == Spec => []Inv
BY InvInit, InvNext, PTL DEF Spec

LEMMA InvTypes == Inv => TypeOK
<1> SUFFICES ASSUME Inv PROVE TypeOK
  OBVIOUS
<1>1. \A e \in Endpoints : IsInjective(queue[e])
  BY DEF Inv, Queued, IsInjective
<1>2. \A e \in Endpoints : ToSet(queue[e]) \subseteq Message
  <2>1. \A e \in Endpoints : queue[e] \in Seq(Message)
    BY DEF Inv, Types, QueueTypes
  <2>2. \A e \in Endpoints : \A i \in DOMAIN queue[e] : queue[e][i] \in Message
    BY <2>1, ElementOfSeq, LenProperties
  <2> QED
    BY <2>2 DEF ToSet
<1> QED
  BY <1>1, <1>2 DEF TypeOK, Inv, Types, WorldTypes, PcTypes, Labels, HandlerTypes, PathTypes,
     ForwardTypes, StringTypes, GoString, CountTypes

\* A forward to Thanos exists only once the handler has loaded both words.
LEMMA InvUrl == Inv => UrlIntact
<1> SUFFICES ASSUME Inv, NEW r \in Requests, HasWrite, fwd[r][N] # "none"
             PROVE  copy[r] = Str(Join(WriteURL, path[r]))
  BY DEF UrlIntact
<1> USE DEF Inv, Types
<1>1. idx[r] = N + 1
  <2>1. N \in Endpoints /\ (fwd[r][N] = "none" <=> N >= idx[r])
    BY EndpointAssumption DEF Flow, FlowOf, Endpoints
  <2>2. idx[r] \in 1 .. (N + 1)
    BY DEF HandlerTypes
  <2> QED
    BY <2>1, <2>2, EndpointAssumption
<1>2. \A w \in Words : copy[r][w] = Target(r)[w]
  BY <1>1 DEF SharedURL, SharedOf, HasLoaded
<1>3. path[r] \in Paths
  BY <1>1, EndpointAssumption DEF Flow, FlowOf
<1>4. copy[r] \in GoString /\ Target(r) \in GoString
  BY <1>3, JoinedURL DEF StringTypes, Target
<1>5. copy[r] = Target(r)
  BY <1>2, <1>4, SameWords
<1> QED
  BY <1>5 DEF Target

\* The proxy stays well typed, for any number of requests and endpoints; in
\* particular a sender waits on a log channel at most once (lines 45-143).
THEOREM TypeCorrect == Spec => []TypeOK
BY Invariance, InvTypes, PTL

\* Every forward to Thanos has the URL of its own request, whatever the
\* unlocked stores and loads of the shared endpoint interleave like (lines 58
\* and 62), because all requests of the route store the same string.
THEOREM UrlCorrect == Spec => []UrlIntact
BY Invariance, InvUrl, PTL

\* remote_write_requests_total counts each forward once, for any number of
\* requests and endpoints.
THEOREM CountersAccurate == Spec => []Accounted
<1>1. Inv => Accounted
  BY DEF Inv, Counted, Total, Known, Accounted
<1> QED
  BY <1>1, Invariance, PTL

-----------------------------------------------------------------------------
(* Refinement                                                              *)

LEMMA RefinementInit == Init => R!Init
BY DEF Init, R!Init, copies, answers

\* How a copy and an answer show in the proxy.
Phase(f) == IF f = "none" THEN "none"
            ELSE IF f \in {"send", "nil client"} THEN "sent" ELSE "settled"
Told(s) == IF s = 0 THEN "none" ELSE IF s = 200 THEN "accepted" ELSE "failed"

LEMMA CopiesKept ==
    ASSUME \A q \in Requests, f \in Endpoints : Phase(fwd'[q][f]) = Phase(fwd[q][f])
    PROVE  copies' = copies
<1>1. /\ copies = [q \in Requests |-> [f \in Endpoints |-> Phase(fwd[q][f])]]
      /\ copies' = [q \in Requests |-> [f \in Endpoints |-> Phase(fwd'[q][f])]]
  BY DEF copies, Phase
<1>2. \A q \in Requests : [f \in Endpoints |-> Phase(fwd'[q][f])]
                          = [f \in Endpoints |-> Phase(fwd[q][f])]
  OBVIOUS
<1> QED
  BY <1>1, <1>2

LEMMA CopyChanged ==
    ASSUME NEW r \in Requests, NEW e \in Endpoints, NEW v,
           \A q \in Requests, f \in Endpoints :
             Phase(fwd'[q][f]) = IF q = r /\ f = e THEN v ELSE Phase(fwd[q][f])
    PROVE  copies' = [copies EXCEPT ![r][e] = v]
<1>1. /\ copies = [q \in Requests |-> [f \in Endpoints |-> Phase(fwd[q][f])]]
      /\ copies' = [q \in Requests |-> [f \in Endpoints |-> Phase(fwd'[q][f])]]
  BY DEF copies, Phase
<1>2. copies'[r] = [copies[r] EXCEPT ![e] = v]
  BY <1>1
<1>3. \A q \in Requests : q # r => copies'[q] = copies[q]
  <2> SUFFICES ASSUME NEW q \in Requests, q # r PROVE copies'[q] = copies[q]
    OBVIOUS
  <2>1. \A f \in Endpoints : Phase(fwd'[q][f]) = Phase(fwd[q][f])
    OBVIOUS
  <2> QED
    BY <1>1, <2>1
<1>4. /\ DOMAIN copies = Requests /\ copies = [q \in Requests |-> copies[q]]
      /\ DOMAIN copies' = Requests /\ copies' = [q \in Requests |-> copies'[q]]
  BY <1>1
<1> QED
  BY <1>2, <1>3, <1>4

LEMMA AnswerChanged ==
    ASSUME NEW r \in Requests, NEW v,
           \A q \in Requests : Told(status'[q]) = IF q = r THEN v ELSE Told(status[q])
    PROVE  answers' = [answers EXCEPT ![r] = v]
<1>1. /\ answers = [q \in Requests |-> Told(status[q])]
      /\ answers' = [q \in Requests |-> Told(status'[q])]
  BY DEF answers, Told
<1> QED
  BY <1>1

\* Steps that launch, settle and answer nothing.
LEMMA Stutters ==
    ASSUME UNCHANGED <<up, status>>,
           \A r \in Requests, e \in Endpoints :
              \/ fwd'[r][e] = fwd[r][e]
              \/ fwd'[r][e] = "done" /\ fwd[r][e] = "log"
    PROVE  UNCHANGED R!vars
<1>1. copies' = copies
  <2>1. \A r \in Requests, e \in Endpoints : Phase(fwd'[r][e]) = Phase(fwd[r][e])
    BY DEF Phase
  <2> QED
    BY <2>1, CopiesKept
<1>2. answers' = answers
  BY DEF answers
<1> QED
  BY <1>1, <1>2 DEF R!vars

LEMMA Positions ==
    /\ \A i \in 1 .. (N + 1) : i <= N => i \in Endpoints
    /\ \A i \in Endpoints : i >= i
<1>1. N \in Nat
  BY EndpointAssumption
<1> QED
  BY <1>1 DEF Endpoints

LEMMA RefinementStep == Inv /\ [Next]_vars => [R!Next]_(R!vars)
<1> SUFFICES ASSUME Inv, [Next]_vars PROVE R!Next \/ UNCHANGED R!vars
  OBVIOUS
<1> USE DEF Inv, Types
<1>1. ASSUME UNCHANGED <<up, status, fwd>> PROVE UNCHANGED R!vars
  BY <1>1, Stutters
<1>2. ASSUME NEW r \in Requests, NewRequest(r), up, UNCHANGED up PROVE R!Next
  <2>1. pc[r] = "request" /\ UNCHANGED status
    BY <1>2 DEF NewRequest
  <2>2. PICK g \in {"send", "nil client"} : fwd' = [fwd EXCEPT ![r][idx[r]] = g]
    BY <1>2 DEF NewRequest
  <2>3. PICK e \in Endpoints : e = idx[r]
    <3>1. idx[r] \in 1 .. (N + 1)
      BY DEF HandlerTypes
    <3>2. idx[r] <= N
      BY <2>1 DEF Flow, FlowOf
    <3>3. idx[r] \in Endpoints
      BY <3>1, <3>2, Positions
    <3> QED
      BY <3>3
  <2>4. fwd[r][e] = "none" /\ status[r] = 0
    <3>1. e >= idx[r]
      <4>1. e >= e
        BY Positions
      <4> QED
        BY <2>3, <4>1, Zenon
    <3> QED
      BY <2>1, <3>1 DEF Flow, FlowOf
  <2>5. \A q \in Requests, f \in Endpoints : fwd'[q][f] = IF q = r /\ f = e THEN g ELSE fwd[q][f]
    BY <2>2, <2>3 DEF ForwardTypes
  <2>6. copies' = [copies EXCEPT ![r][e] = "sent"]
    <3>1. \A q \in Requests, f \in Endpoints :
            Phase(fwd'[q][f]) = IF q = r /\ f = e THEN "sent" ELSE Phase(fwd[q][f])
      BY <2>5 DEF Phase
    <3> QED
      BY <3>1, CopyChanged
  <2>7. answers' = answers /\ answers[r] = "none" /\ copies[r][e] = "none"
    BY <2>1, <2>4 DEF answers, copies
  <2> QED
    BY <1>2, <2>6, <2>7 DEF R!Next, R!Launch
<1>3. ASSUME NEW r \in Requests, NEW e \in Endpoints, Forward(r, e), up, UNCHANGED up PROVE R!Next
  <2>1. /\ fwd[r][e] = "send" /\ fwd' = [fwd EXCEPT ![r][e] = "log"] /\ UNCHANGED status
    BY <1>3 DEF Forward, Report, handler
  <2>2. \A q \in Requests, f \in Endpoints :
          fwd'[q][f] = IF q = r /\ f = e THEN "log" ELSE fwd[q][f]
    BY <2>1 DEF ForwardTypes
  <2>3. copies' = [copies EXCEPT ![r][e] = "settled"] /\ copies[r][e] = "sent"
    <3>1. \A q \in Requests, f \in Endpoints :
            Phase(fwd'[q][f]) = IF q = r /\ f = e THEN "settled" ELSE Phase(fwd[q][f])
      BY <2>2 DEF Phase
    <3>2. copies[r][e] = "sent"
      BY <2>1 DEF copies
    <3> QED
      BY <3>1, <3>2, CopyChanged
  <2>4. answers' = answers
    BY <2>1 DEF answers
  <2> QED
    BY <1>3, <2>3, <2>4 DEF R!Next, R!Settle
<1>4. ASSUME NEW r \in Requests, NewRequestPanics(r) \/ Return(r), up, UNCHANGED up PROVE R!Next
  <2>1. /\ pc[r] \in {"request", "return"} /\ UNCHANGED fwd
        /\ \E c \in {200, 500, 504} :
             status' = [status EXCEPT ![r] = c] /\ (c = 200 => pc[r] = "return")
    BY <1>4 DEF NewRequestPanics, Return, goroutines
  <2>2. PICK c \in {200, 500, 504} :
          status' = [status EXCEPT ![r] = c] /\ (c = 200 => pc[r] = "return")
    BY <2>1
  <2>3. status[r] = 0
    BY <2>1 DEF Flow, FlowOf
  <2>4. copies' = copies /\ answers[r] = "none"
    BY <2>1, <2>3 DEF copies, answers
  <2>5. answers' = [answers EXCEPT ![r] = Told(c)]
    <3>1. \A q \in Requests : status'[q] = IF q = r THEN c ELSE status[q]
      BY <2>2 DEF HandlerTypes
    <3>2. \A q \in Requests : Told(status'[q]) = IF q = r THEN Told(c) ELSE Told(status[q])
      BY <3>1
    <3> QED
      BY <3>2, AnswerChanged
  <2>6. CASE c = 200
    <3>1. \A e \in Endpoints : fwd[r][e] # "none"
      <4>1. idx[r] = N + 1
        BY <2>2, <2>6 DEF Flow, FlowOf
      <4>2. \A e \in Endpoints : ~(e >= idx[r])
        BY <4>1, EndpointAssumption DEF Endpoints
      <4> QED
        BY <4>2 DEF Flow, FlowOf
    <3>2. \A e \in Endpoints : copies[r][e] # "none"
      BY <3>1 DEF copies
    <3>3. Told(c) = "accepted"
      BY <2>6 DEF Told
    <3>4. R!Accept(r)
      BY <1>4, <2>4, <2>5, <3>2, <3>3 DEF R!Accept
    <3> QED
      BY <3>4 DEF R!Next
  <2>7. CASE c # 200
    <3>1. Told(c) = "failed"
      BY <2>7 DEF Told
    <3>2. R!Refuse(r)
      BY <1>4, <2>4, <2>5, <3>1 DEF R!Refuse
    <3> QED
      BY <3>2 DEF R!Next
  <2> QED
    BY <2>6, <2>7
<1>5. ASSUME NEW e \in Endpoints, Receive(e), UNCHANGED up PROVE UNCHANGED R!vars
  <2> DEFINE m == Head(queue[e])
  <2>1. m.req \in Requests /\ m.by \in {"handler", "forward"} /\ Waits(m, e)
    BY <1>5, Received
  <2>2. UNCHANGED status
    BY <1>5 DEF Receive
  <2>3. \/ UNCHANGED fwd
        \/ m.by = "forward" /\ fwd' = [fwd EXCEPT ![m.req][e] = "done"]
    BY <1>5 DEF Receive
  <2>4. m.by = "forward" => fwd[m.req][e] = "log"
    BY <2>1 DEF Waits
  <2> HIDE DEF m
  <2>5. ASSUME m.by = "forward", fwd' = [fwd EXCEPT ![m.req][e] = "done"],
               NEW q \in Requests, NEW f \in Endpoints
        PROVE  fwd'[q][f] = fwd[q][f] \/ (fwd'[q][f] = "done" /\ fwd[q][f] = "log")
    BY <2>1, <2>4, <2>5 DEF ForwardTypes
  <2> QED
    BY <1>5, <2>2, <2>3, <2>5, Stutters
<1>6. ASSUME NEW r \in Requests, NEW e \in Endpoints, up, NilClientPanics(r, e) PROVE R!Next
  <2>1. up' = FALSE /\ UNCHANGED <<fwd, status>>
    BY <1>6 DEF NilClientPanics, goroutines, handler
  <2>2. copies' = copies /\ answers' = answers
    BY <2>1 DEF copies, answers
  <2> QED
    BY <1>6, <2>1, <2>2 DEF R!Next, R!End
<1>7. ASSUME NEW r \in Requests, Arrive(r) \/ Handle(r) \/ Expire(r), up, UNCHANGED up
      PROVE  R!Next \/ UNCHANGED R!vars
  <2>1. CASE UNCHANGED <<status, fwd>>
    BY <1>1, <1>7, <2>1
  <2> QED
    BY <1>2, <1>4, <1>7, <2>1 DEF Arrive, Handle, ReadBody, StoreURL, LoadEndpoint, CreateClient,
       Expire, goroutines
<1>8. CASE UNCHANGED vars
  BY <1>1, <1>8 DEF vars, handler, goroutines
<1> QED
  BY <1>3, <1>5, <1>6, <1>7, <1>8 DEF Next, Step

\* The proxy implements Relay for any number of requests and endpoints: no
\* failure makes the loop skip an endpoint of a write that is answered 200.
THEOREM Refinement == Spec => ImplementsRelay
<1>1. Spec => []Inv
  BY Invariance
<1> QED
  BY <1>1, RefinementInit, RefinementStep, PTL DEF Spec, ImplementsRelay, R!Spec
=============================================================================
