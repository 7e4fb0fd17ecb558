-------------------------- MODULE LogChannelProofs --------------------------
(***************************************************************************)
(* Proofs about LogChannel, for every set of keys, every default and every *)
(* outcome of parsing the environment.                                     *)
(***************************************************************************)
EXTENDS LogChannel, SequenceTheorems, TLAPS

-----------------------------------------------------------------------------
(* The inductive invariant                                                 *)

\* Reduced mode is entered only with a positive logMaxCount, with a start time
\* and with no time stamps kept.
ReducedShape ==
    reducedLog => /\ LogTimestamps = <<>>
                  /\ logStartTime # NoTime
                  /\ logMaxCount >= 1

\* Without a positive logMaxCount, time stamps are only ever added.
UnlimitedShape ==
    (logMaxCount <= 0 /\ logKey # NoKey) => LogTimestamps # <<>>

\* The time stamps kept are those of the last logMaxCount lines of the burst.
StampsFollowBurst ==
    logMaxCount >= 1 =>
        /\ Len(burst) <= logMaxCount + 1
        /\ ~reducedLog => LogTimestamps = IF Len(burst) <= logMaxCount
                                          THEN burst ELSE Tail(burst)

Inv == /\ TypeOK
       /\ ReducedShape /\ UnlimitedShape /\ StampsFollowBurst
       /\ RateLimited

\* Of the lines of a run of one error, those that are not counted in
\* LogTimestamps, or in the interval that reduced mode began with, are old, but
\* for the summary that may come before them: lines are written in order, none
\* since the counter was last idle, and none since the interval of reduced mode
\* began.
Recent == IF reducedLog THEN logMaxCount ELSE Len(LogTimestamps)
OldestFirst == \A i, j \in 1 .. Len(window) : i <= j => window[i] >= window[j]
SinceQuiet == \A i \in 1 .. Len(window) : window[i] >= idle
SinceStart ==
    reducedLog => /\ Len(window) >= 1
                  /\ \A i \in 1 .. Len(window) : window[i] >= logStartTime
StampsEndWindow ==
    ~reducedLog =>
        /\ Len(LogTimestamps) <= Len(window)
        /\ \A i \in 1 .. Len(LogTimestamps) :
             LogTimestamps[i] = window[Len(window) - Len(LogTimestamps) + i]
OthersOld == \A i \in 1 .. (Len(window) - Recent - 1) : window[i] >= logInterval
Paced ==
    logMaxCount >= 1 =>
        /\ Len(window) <= logMaxCount + 2
        /\ OldestFirst /\ SinceQuiet /\ SinceStart /\ StampsEndWindow /\ OthersOld

\* Where a time stamp is kept, nothing happened since the line it is of that has
\* no line.  In reduced mode, logNumber counts the events that have none, and they
\* happened since the start time.
NothingSilent == ~reducedLog /\ LogTimestamps # <<>> => silent = <<>>
SilentCounted ==
    reducedLog => /\ logNumber = Len(silent)
                  /\ \A i \in 1 .. Len(silent) : silent[i] <= logStartTime
Tally == NothingSilent /\ SilentCounted

-----------------------------------------------------------------------------
(* Ages                                                                    *)

\* Ageing keeps an age within the saturation bound, and never lowers it.
LEMMA OlderType ==
    ASSUME logInterval \in Nat, NEW a \in Ages
    PROVE  Older(a) \in Ages /\ Older(a) >= a
BY DEF Older, Ages

\* Ageing a sequence of time stamps keeps its length and ages each member.
LEMMA AllOlderType ==
    ASSUME logInterval \in Nat, NEW s \in Seq(Ages)
    PROVE  /\ AllOlder(s) \in Seq(Ages)
           /\ Len(AllOlder(s)) = Len(s)
           /\ \A i \in 1 .. Len(s) : AllOlder(s)[i] = Older(s[i])
BY OlderType DEF AllOlder

\* Dropping the oldest time stamp and ageing commute.
LEMMA AllOlderTail ==
    ASSUME logInterval \in Nat, NEW s \in Seq(Ages), s # <<>>
    PROVE  AllOlder(Tail(s)) = Tail(AllOlder(s))
<1>1. Tail(s) \in Seq(Ages) /\ Len(Tail(s)) = Len(s) - 1
  OBVIOUS
<1>2. AllOlder(s) \in Seq(Ages) /\ Len(AllOlder(s)) = Len(s)
  BY AllOlderType
<1>3. AllOlder(s) # <<>> /\ Len(s) \in Nat /\ Len(s) > 0
  BY <1>2
<1>4. Tail(AllOlder(s)) \in Seq(Ages) /\ Len(Tail(AllOlder(s))) = Len(s) - 1
  BY <1>2, <1>3
<1>5. AllOlder(Tail(s)) \in Seq(Ages) /\ Len(AllOlder(Tail(s))) = Len(s) - 1
  BY <1>1, AllOlderType
<1>6. ASSUME NEW i \in 1 .. (Len(s) - 1)
      PROVE  AllOlder(Tail(s))[i] = Tail(AllOlder(s))[i]
  <2>1. AllOlder(Tail(s))[i] = Older(Tail(s)[i])
    BY <1>1, AllOlderType
  <2>2. Tail(s)[i] = s[i + 1]
    BY <1>3
  <2>3. Tail(AllOlder(s))[i] = AllOlder(s)[i + 1]
    BY <1>2, <1>3
  <2>4. i + 1 \in 1 .. Len(s)
    BY <1>3
  <2>5. AllOlder(s)[i + 1] = Older(s[i + 1])
    BY <2>4, AllOlderType
  <2> QED
    BY <2>1, <2>2, <2>3, <2>5
<1> QED
  BY <1>4, <1>5, <1>6

\* Dropping the oldest time stamp and adding a new one commute.
LEMMA TailAppend ==
    ASSUME NEW S, NEW s \in Seq(S), NEW x \in S, s # <<>>
    PROVE  /\ Tail(Append(s, x)) = Append(Tail(s), x)
           /\ Append(s, x)[1] = s[1]
<1> DEFINE app == Append(s, x)
           tl == Tail(s)
<1>1. Len(s) \in Nat /\ Len(s) > 0
  BY EmptySeq
<1>2. /\ app \in Seq(S) /\ Len(app) = Len(s) + 1 /\ app # <<>>
      /\ \A i \in 1 .. Len(s) : app[i] = s[i]
      /\ app[Len(s) + 1] = x
  BY AppendProperties
<1>3. /\ tl \in Seq(S) /\ Len(tl) = Len(s) - 1
      /\ \A i \in 1 .. Len(tl) : tl[i] = s[i + 1]
  BY HeadTailProperties
<1> HIDE DEF app, tl
<1>4. /\ Tail(app) \in Seq(S) /\ Len(Tail(app)) = Len(s)
      /\ \A i \in 1 .. Len(s) : Tail(app)[i] = app[i + 1]
  BY <1>1, <1>2, HeadTailProperties
<1>5. /\ Append(tl, x) \in Seq(S) /\ Len(Append(tl, x)) = Len(s)
      /\ \A i \in 1 .. (Len(s) - 1) : Append(tl, x)[i] = tl[i]
      /\ Append(tl, x)[Len(s)] = x
  BY <1>1, <1>3, AppendProperties
<1>6. ASSUME NEW i \in 1 .. Len(s)
      PROVE  Tail(app)[i] = Append(tl, x)[i]
  <2>1. Tail(app)[i] = app[i + 1]
    BY <1>4
  <2>2. CASE i = Len(s)
    BY <1>2, <1>5, <2>1, <2>2
  <2>3. CASE i # Len(s)
    <3>1. i \in 1 .. (Len(s) - 1) /\ i + 1 \in 1 .. Len(s) /\ i \in 1 .. Len(tl)
      BY <1>1, <1>3, <2>3
    <3>2. Append(tl, x)[i] = s[i + 1]
      BY <1>3, <1>5, <3>1
    <3> QED
      BY <1>2, <2>1, <3>1, <3>2
  <2> QED
    BY <2>2, <2>3
<1>7. Tail(app) = Append(tl, x)
  BY <1>4, <1>5, <1>6, SeqEqual
<1> QED
  BY <1>1, <1>2, <1>7 DEF app, tl

\* The last n members of a sequence that grows by one.
LEMMA RememberedType ==
    ASSUME NEW S, NEW s \in Seq(S), NEW x \in S, NEW n \in Int
    PROVE  Remembered(Append(s, x), n) \in Seq(S)
<1>1. Append(s, x) \in Seq(S) /\ Append(s, x) # <<>>
  BY AppendProperties
<1> QED
  BY <1>1, HeadTailProperties DEF Remembered

\* A new time stamp has age 0, ages are natural numbers, and the saturation bound
\* moves only with logInterval, which nothing changes.
LEMMA AgesFacts ==
    ASSUME TypeOK
    PROVE  /\ 0 \in Ages /\ Ages \subseteq Nat
           /\ UNCHANGED config => Ages' = Ages
BY DEF TypeOK, Ages, config

-----------------------------------------------------------------------------
(* Initial states                                                          *)

\* Whatever the parser makes of a variable, logMaxCount is an integer and
\* logInterval a natural number.
LEMMA ConfiguredType ==
    /\ \A e \in EnvMaxCount : Configured(DefaultMaxCount, e) \in Int
    /\ \A e \in EnvInterval : Configured(DefaultInterval, e) \in Nat
BY DefaultAssumption, EnvAssumption DEF Configured, ParsedInt, ParsedDuration

\* A new counter satisfies the invariant.
LEMMA InitInv == Init => Inv
<1> SUFFICES ASSUME Init PROVE Inv
  OBVIOUS
<1>1. logMaxCount \in Int /\ logInterval \in Nat
  BY ConfiguredType DEF Init, InitChannels
<1>b. /\ LogTimestamps = <<>> /\ burst = <<>> /\ window = <<>> /\ idle = 0 /\ logNumber = 0
      /\ silent = <<>> /\ logKey = NoKey /\ logStartTime = NoTime /\ reducedLog = FALSE
  BY DEF Init, InitChannels
<1>c. <<>> \in Seq(Ages) /\ Len(<<>>) = 0 /\ 0 \in Ages
  BY <1>1, EmptySeq DEF Ages
<1>d. /\ LogTimestamps \in Seq(Ages) /\ burst \in Seq(Ages) /\ window \in Seq(Ages) /\ idle \in Ages
      /\ silent \in Seq(Ages) /\ Len(LogTimestamps) = 0
  BY <1>b, <1>c
<1>e. /\ logKey \in Keys \cup {NoKey} /\ logStartTime \in Ages \cup {NoTime}
      /\ logNumber \in Nat /\ reducedLog \in BOOLEAN
  BY <1>b
<1>f. logMaxCount >= 1 => Len(LogTimestamps) <= logMaxCount
  BY <1>1, <1>d
<1>2. TypeOK
  BY <1>1, <1>d, <1>e, <1>f, Zenon DEF TypeOK
<1> QED
  BY <1>1, <1>2 DEF Init, InitChannels, Inv, ReducedShape, UnlimitedShape,
        StampsFollowBurst, RateLimited

-----------------------------------------------------------------------------
(* Steps                                                                   *)

\* A line changes only the history, and that keeps its type.
LEMMA EmitType ==
    ASSUME TypeOK, Emit, UNCHANGED config
    PROVE  window' \in Seq(Ages') /\ silent' \in Seq(Ages')
<1>1. window \in Seq(Ages) /\ 0 \in Ages /\ Ages' = Ages /\ logMaxCount + 2 \in Int
  BY AgesFacts DEF TypeOK
<1> QED
  BY <1>1, RememberedType, EmptySeq DEF Emit

\* An event without a line changes only the history, too.
LEMMA WithholdType ==
    ASSUME TypeOK, Withhold, UNCHANGED config
    PROVE  silent' \in Seq(Ages')
<1>1. silent \in Seq(Ages) /\ 0 \in Ages /\ Ages' = Ages
  BY AgesFacts DEF TypeOK
<1> QED
  BY <1>1, AppendProperties DEF Withhold

\* The branch of checkLog for a different key.
LEMMA NewEventInv ==
    ASSUME Inv, NEW key \in Keys, NewEvent(key), idle' = 0, UNCHANGED config
    PROVE  Inv'
<1>0. TypeOK /\ logMaxCount' = logMaxCount /\ logInterval' = logInterval
  BY DEF Inv, config
<1>1. 0 \in Ages /\ Ages' = Ages
  BY <1>0, AgesFacts
<1>2. <<0>> \in Seq(Ages) /\ Len(<<0>>) = 1
  BY <1>1
<1>3. window' \in Seq(Ages') /\ silent' \in Seq(Ages')
  BY <1>1, <1>2, EmptySeq DEF NewEvent
<1>4. TypeOK'
  BY <1>0, <1>1, <1>2, <1>3 DEF TypeOK, NewEvent
<1>5. ReducedShape' /\ UnlimitedShape'
  BY <1>2 DEF NewEvent, ReducedShape, UnlimitedShape
<1>6. StampsFollowBurst' /\ RateLimited'
  BY <1>0, <1>2 DEF NewEvent, StampsFollowBurst, RateLimited, TypeOK
<1> QED
  BY <1>4, <1>5, <1>6 DEF Inv

\* The branch of checkLog that writes a summary line.
LEMMA SummariseInv ==
    ASSUME Inv, NEW key \in Keys, Summarise(key), idle' = 0, UNCHANGED config
    PROVE  Inv'
<1> USE DEF Inv, config
<1>w. window' \in Seq(Ages') /\ silent' \in Seq(Ages')
  BY EmitType DEF Summarise
<1>0. /\ reducedLog /\ logKey' = logKey
      /\ LogTimestamps = <<>> /\ logStartTime # NoTime /\ logMaxCount >= 1
  BY DEF Summarise, ReducedShape
<1>t. logNumber \in Nat /\ logMaxCount \in Int /\ reducedLog \in BOOLEAN
  BY DEF TypeOK
<1>a. 0 \in Ages /\ Ages' = Ages
  BY AgesFacts
<1>b. <<>> \in Seq(Ages) /\ Len(<<>>) = 0
  BY EmptySeq
<1>s. \/ /\ logNumber < logMaxCount
         /\ reducedLog' = FALSE /\ LogTimestamps' = <<>>
         /\ burst' = <<>>
         /\ UNCHANGED <<logNumber, logStartTime>>
      \/ /\ logNumber >= logMaxCount
         /\ logNumber' = 0 /\ logStartTime' = 0
         /\ UNCHANGED <<reducedLog, LogTimestamps, burst>>
  BY DEF Summarise
<1>1. CASE logNumber < logMaxCount
  <2>1. /\ reducedLog' = FALSE /\ LogTimestamps' = <<>> /\ burst' = <<>>
        /\ logNumber' = logNumber /\ logStartTime' = logStartTime
    BY <1>t, <1>1, <1>s
  <2>a. LogTimestamps' \in Seq(Ages') /\ burst' \in Seq(Ages') /\ idle' \in Ages'
    BY <1>0, <1>a, <1>b, <2>1 DEF TypeOK
  <2>2. TypeOK'
    BY <1>w, <1>0, <1>a, <1>b, <2>1, <2>a DEF TypeOK
  <2> QED
    BY <1>0, <2>1, <2>2 DEF ReducedShape, UnlimitedShape, StampsFollowBurst,
          RateLimited, TypeOK
<1>2. CASE logNumber >= logMaxCount
  <2>b. ~(logNumber < logMaxCount)
    BY <1>t, <1>2
  <2>1. /\ reducedLog' /\ LogTimestamps' = LogTimestamps /\ burst' = burst
        /\ logNumber' = 0 /\ logStartTime' = 0 /\ reducedLog' = reducedLog
    BY <1>0, <1>s, <2>b, Zenon
  <2>a. LogTimestamps' \in Seq(Ages') /\ burst' \in Seq(Ages') /\ idle' \in Ages'
    BY <1>0, <1>a, <1>b, <2>1 DEF TypeOK
  <2>2. TypeOK'
    BY <1>w, <1>0, <1>a, <1>b, <2>1, <2>a DEF TypeOK
  <2> QED
    BY <1>0, <2>1, <2>2 DEF ReducedShape, UnlimitedShape, StampsFollowBurst,
          RateLimited, NoTime, TypeOK
<1> QED
  BY <1>1, <1>2 DEF TypeOK

\* The branch of checkLog that only counts.
LEMMA SuppressInv ==
    ASSUME Inv, NEW key \in Keys, Suppress(key), idle' = 0, UNCHANGED config
    PROVE  Inv'
<1> USE DEF Inv, Suppress, config
<1>1. TypeOK'
  BY WithholdType DEF TypeOK, Ages, Capped
<1>2. ReducedShape' /\ UnlimitedShape'
  BY DEF ReducedShape, UnlimitedShape
<1>3. StampsFollowBurst' /\ RateLimited'
  BY DEF StampsFollowBurst, RateLimited
<1> QED
  BY <1>1, <1>2, <1>3

\* The branch of checkLog that enters reduced mode.  The invariant excludes an
\* empty LogTimestamps here, so logMaxCount is positive.
LEMMA StartReducingInv ==
    ASSUME Inv, NEW key \in Keys, StartReducing(key), idle' = 0, UNCHANGED config
    PROVE  Inv'
<1> USE DEF Inv, StartReducing, config
<1>0. logMaxCount >= 1
  BY KeysAssumption DEF UnlimitedShape, TypeOK
<1>1. TypeOK'
  BY <1>0, WithholdType DEF TypeOK, Ages, Capped
<1>2. ReducedShape' /\ UnlimitedShape'
  BY <1>0 DEF ReducedShape, UnlimitedShape, NoTime, TypeOK
<1>3. StampsFollowBurst' /\ RateLimited'
  BY DEF StampsFollowBurst, RateLimited
<1> QED
  BY <1>1, <1>2, <1>3

\* The branch of checkLog that logs and forgets the oldest time stamp: the one
\* place where the burst reaches logMaxCount + 1 lines.
LEMMA SlideAndLogInv ==
    ASSUME Inv, NEW key \in Keys, SlideAndLog(key), idle' = 0, UNCHANGED config
    PROVE  Inv'
<1>0. /\ TypeOK /\ logMaxCount' = logMaxCount /\ logInterval' = logInterval
      /\ window' \in Seq(Ages') /\ silent' \in Seq(Ages')
      /\ 0 \in Ages /\ Ages' = Ages
  BY EmitType, AgesFacts DEF Inv, SlideAndLog, config
<1>1. /\ logMaxCount \in Nat /\ logMaxCount >= 1
      /\ LogTimestamps # <<>> /\ Len(LogTimestamps) = logMaxCount
      /\ LogTimestamps \in Seq(Ages) /\ burst \in Seq(Ages) /\ Len(burst) \in Nat
      /\ Len(burst) <= logMaxCount + 1
  BY <1>0, KeysAssumption
     DEF Inv, UnlimitedShape, StampsFollowBurst, TypeOK, SlideAndLog
<1>2. /\ LogTimestamps' = Append(Tail(LogTimestamps), 0)
      /\ LogTimestamps' \in Seq(Ages) /\ Len(LogTimestamps') = logMaxCount
      /\ LogTimestamps' # <<>>
  <2>1. Tail(LogTimestamps) \in Seq(Ages) /\ Len(Tail(LogTimestamps)) = logMaxCount - 1
    BY <1>1, HeadTailProperties
  <2> QED
    BY <1>0, <1>1, <2>1, AppendProperties DEF SlideAndLog
<1>3. /\ Append(burst, 0) \in Seq(Ages)
      /\ Append(burst, 0) # <<>>
      /\ Len(Append(burst, 0)) = Len(burst) + 1
  BY <1>0, <1>1, AppendProperties
<1>4. Tail(Append(burst, 0)) \in Seq(Ages) /\ burst' \in Seq(Ages)
  BY <1>3, HeadTailProperties DEF SlideAndLog, Remembered
<1>5. TypeOK'
  BY <1>0, <1>1, <1>2, <1>4 DEF TypeOK, SlideAndLog
<1>6. ReducedShape' /\ UnlimitedShape'
  BY <1>2 DEF Inv, SlideAndLog, ReducedShape, UnlimitedShape
<1>7. ~reducedLog /\ ~reducedLog' /\ burst' = Remembered(Append(burst, 0), logMaxCount + 1)
      /\ LogTimestamps[1] > logInterval
  BY DEF SlideAndLog
<1>8. burst' = Append(LogTimestamps, 0)
  <2>1. CASE Len(burst) <= logMaxCount
    <3>1. LogTimestamps = burst /\ Len(burst) = logMaxCount
      BY <1>1, <1>7, <2>1 DEF Inv, StampsFollowBurst
    <3> QED
      BY <1>1, <1>3, <1>7, <3>1 DEF Remembered
  <2>2. CASE Len(burst) = logMaxCount + 1
    <3>1. LogTimestamps = Tail(burst) /\ burst # <<>>
      BY <1>1, <1>7, <2>2, EmptySeq DEF Inv, StampsFollowBurst
    <3>2. burst' = Tail(Append(burst, 0))
      BY <1>1, <1>3, <1>7, <2>2 DEF Remembered
    <3>3. Tail(Append(burst, 0)) = Append(Tail(burst), 0)
      BY <1>0, <1>1, <3>1, TailAppend
    <3> QED
      BY <3>1, <3>2, <3>3
  <2> QED
    BY <1>1, <2>1, <2>2
<1>9. /\ Len(burst') = logMaxCount + 1
      /\ Tail(burst') = LogTimestamps'
      /\ burst'[1] > logInterval
  <2>1. Len(Append(LogTimestamps, 0)) = logMaxCount + 1
    BY <1>0, <1>1, AppendProperties
  <2>2. /\ Tail(Append(LogTimestamps, 0)) = Append(Tail(LogTimestamps), 0)
        /\ Append(LogTimestamps, 0)[1] = LogTimestamps[1]
    BY <1>0, <1>1, TailAppend
  <2> QED
    BY <1>2, <1>7, <1>8, <2>1, <2>2
<1>10. StampsFollowBurst' /\ RateLimited'
  BY <1>0, <1>1, <1>7, <1>9 DEF StampsFollowBurst, RateLimited
<1> QED
  BY <1>5, <1>6, <1>10 DEF Inv

\* The branch of checkLog that logs below the limit.
LEMMA AppendAndLogInv ==
    ASSUME Inv, NEW key \in Keys, AppendAndLog(key), idle' = 0, UNCHANGED config
    PROVE  Inv'
<1>w. window' \in Seq(Ages') /\ silent' \in Seq(Ages')
  BY EmitType DEF Inv, AppendAndLog
<1>0. /\ TypeOK /\ logMaxCount' = logMaxCount /\ logInterval' = logInterval
      /\ 0 \in Ages /\ Ages' = Ages
  BY AgesFacts DEF Inv, AppendAndLog, config
<1>1. /\ logMaxCount \in Int
      /\ LogTimestamps \in Seq(Ages) /\ burst \in Seq(Ages)
      /\ Len(LogTimestamps) \in Nat /\ Len(burst) \in Nat
  BY <1>0 DEF TypeOK
<1>2. /\ LogTimestamps' = Append(LogTimestamps, 0) /\ ~reducedLog /\ ~reducedLog'
      /\ burst' = Remembered(Append(burst, 0), logMaxCount + 1)
      /\ Len(LogTimestamps) # logMaxCount
  BY DEF AppendAndLog
<1>3. /\ LogTimestamps' \in Seq(Ages) /\ LogTimestamps' # <<>>
      /\ Len(LogTimestamps') = Len(LogTimestamps) + 1
      /\ Append(burst, 0) \in Seq(Ages) /\ Append(burst, 0) # <<>>
      /\ Len(Append(burst, 0)) = Len(burst) + 1
  BY <1>0, <1>1, <1>2, AppendProperties
<1>4. Tail(Append(burst, 0)) \in Seq(Ages) /\ burst' \in Seq(Ages)
  BY <1>2, <1>3, HeadTailProperties DEF Remembered
<1>5. logMaxCount >= 1 => Len(LogTimestamps') <= logMaxCount'
  BY <1>0, <1>1, <1>2, <1>3 DEF TypeOK
<1>6. TypeOK'
  BY <1>w, <1>0, <1>3, <1>4, <1>5 DEF TypeOK, AppendAndLog
<1>7. ReducedShape' /\ UnlimitedShape'
  BY <1>3 DEF Inv, AppendAndLog, ReducedShape, UnlimitedShape
<1>8. StampsFollowBurst' /\ RateLimited'
  <2>1. CASE logMaxCount < 1
    BY <1>0, <1>1, <2>1 DEF StampsFollowBurst, RateLimited
  <2>2. CASE logMaxCount >= 1
    <3>1. Len(burst) <= logMaxCount
      <4> SUFFICES ASSUME Len(burst) = logMaxCount + 1 PROVE FALSE
        BY <1>1, <2>2 DEF Inv, StampsFollowBurst
      <4>1. LogTimestamps = Tail(burst) /\ burst # <<>>
        BY <1>1, <1>2, <2>2, EmptySeq DEF Inv, StampsFollowBurst
      <4> QED
        BY <1>1, <1>2, <4>1, HeadTailProperties
    <3>2. LogTimestamps = burst /\ Len(burst) < logMaxCount
      BY <1>1, <1>2, <2>2, <3>1 DEF Inv, StampsFollowBurst
    <3>3. burst' = LogTimestamps'
      BY <1>1, <1>2, <1>3, <3>2 DEF Remembered
    <3> QED
      BY <1>0, <1>1, <1>2, <1>3, <3>2, <3>3 DEF StampsFollowBurst, RateLimited
  <2> QED
    BY <1>1, <2>1, <2>2
<1> QED
  BY <1>6, <1>7, <1>8 DEF Inv

\* revertCounter, on a success and on the timer.
LEMMA RevertInv ==
    ASSUME Inv, revertCounter, idle' = 0, UNCHANGED config,
           window' \in Seq(Ages')
    PROVE  Inv'
<1>0. /\ TypeOK /\ logMaxCount' = logMaxCount /\ logInterval' = logInterval
      /\ 0 \in Ages /\ Ages' = Ages
      /\ <<>> \in Seq(Ages) /\ Len(<<>>) = 0
  BY AgesFacts, EmptySeq DEF Inv, config
<1>1. /\ reducedLog' = FALSE /\ logKey' = logKey
      /\ logStartTime' = logStartTime /\ logNumber' = logNumber /\ silent' = silent
  BY DEF revertCounter
<1>2. CASE reducedLog
  <2>1. LogTimestamps' = <<>> /\ burst' = <<>> /\ logMaxCount >= 1
    BY <1>2 DEF Inv, revertCounter, ReducedShape
  <2>a. /\ LogTimestamps' \in Seq(Ages') /\ burst' \in Seq(Ages')
        /\ idle' \in Ages'
    BY <1>0, <2>1
  <2>b. Len(LogTimestamps') <= logMaxCount' /\ logNumber \in Nat
    BY <1>0, <2>1 DEF TypeOK
  <2>c. /\ logMaxCount' \in Int /\ logInterval' \in Nat
        /\ logKey' \in Keys \cup {NoKey} /\ logStartTime' \in Ages' \cup {NoTime}
    BY <1>0, <1>1 DEF TypeOK
  <2>2. TypeOK'
    BY <1>0, <1>1, <2>a, <2>b, <2>c DEF TypeOK
  <2>3. StampsFollowBurst' /\ RateLimited'
    BY <1>0, <1>1, <2>1 DEF StampsFollowBurst, RateLimited, TypeOK
  <2>4. UnlimitedShape'
    BY <1>0, <2>1 DEF UnlimitedShape, TypeOK
  <2> QED
    BY <1>1, <2>2, <2>3, <2>4 DEF Inv, ReducedShape
<1>3. CASE ~reducedLog
  <2>1. LogTimestamps' = LogTimestamps /\ burst' = burst
    BY <1>3 DEF revertCounter
  <2>2. TypeOK'
    BY <1>0, <1>1, <2>1 DEF TypeOK
  <2>3. StampsFollowBurst' /\ RateLimited'
    BY <1>0, <1>1, <1>3, <2>1 DEF Inv, StampsFollowBurst, RateLimited
  <2> QED
    BY <1>0, <1>1, <2>1, <2>2, <2>3 DEF Inv, ReducedShape, UnlimitedShape
<1> QED
  BY <1>2, <1>3

\* Time passes: every kept age grows alike, so the relation between the time
\* stamps and the burst is preserved.
LEMMA TickInv ==
    ASSUME Inv, Tick
    PROVE  Inv'
<1>0. /\ TypeOK /\ logMaxCount' = logMaxCount /\ logInterval' = logInterval
      /\ Ages' = Ages /\ Ages \subseteq Nat /\ logInterval \in Nat
  BY AgesFacts DEF Inv, Tick, config, TypeOK
<1>1. /\ LogTimestamps \in Seq(Ages) /\ burst \in Seq(Ages) /\ idle \in Ages
      /\ logMaxCount \in Int /\ Len(burst) \in Nat /\ window \in Seq(Ages)
      /\ logStartTime # NoTime => logStartTime \in Ages
  BY <1>0 DEF TypeOK
<1>2. /\ LogTimestamps' \in Seq(Ages) /\ Len(LogTimestamps') = Len(LogTimestamps)
      /\ burst' \in Seq(Ages) /\ Len(burst') = Len(burst)
      /\ \A i \in 1 .. Len(burst) : burst'[i] = Older(burst[i])
      /\ burst' = AllOlder(burst) /\ LogTimestamps' = AllOlder(LogTimestamps)
  BY <1>0, <1>1, AllOlderType DEF Tick
<1>3. /\ idle' \in Ages
      /\ logStartTime' = NoTime <=> logStartTime = NoTime
      /\ logStartTime' # NoTime => logStartTime' \in Ages
  <2>1. NoTime \notin Nat
    BY DEF NoTime
  <2> QED
    BY <1>0, <1>1, <2>1, OlderType DEF Tick
<1>4. window' \in Seq(Ages') /\ silent' \in Seq(Ages')
  BY <1>0, <1>1, AllOlderType DEF Tick, TypeOK
<1>5. TypeOK'
  BY <1>0, <1>2, <1>3, <1>4 DEF TypeOK, Tick
<1>6. LogTimestamps = <<>> <=> LogTimestamps' = <<>>
  BY <1>0, <1>1, <1>2, EmptySeq
<1>7. ReducedShape' /\ UnlimitedShape'
  BY <1>0, <1>3, <1>6 DEF Inv, Tick, ReducedShape, UnlimitedShape
<1>8. StampsFollowBurst'
  <2> SUFFICES ASSUME logMaxCount >= 1, ~reducedLog
               PROVE  LogTimestamps' = IF Len(burst') <= logMaxCount'
                                       THEN burst' ELSE Tail(burst')
    BY <1>0, <1>2 DEF Inv, StampsFollowBurst, Tick
  <2>1. CASE Len(burst) <= logMaxCount
    BY <1>0, <1>2, <2>1 DEF Inv, StampsFollowBurst
  <2>2. CASE Len(burst) > logMaxCount
    <3>1. LogTimestamps = Tail(burst) /\ burst # <<>>
      BY <1>1, <2>2, EmptySeq DEF Inv, StampsFollowBurst
    <3>2. LogTimestamps' = Tail(burst')
      BY <1>0, <1>1, <1>2, <3>1, AllOlderTail
    <3> QED
      BY <1>0, <1>1, <1>2, <2>2, <3>2
  <2> QED
    BY <1>1, <2>1, <2>2
<1>9. RateLimited'
  <2> SUFFICES ASSUME logMaxCount >= 1, Len(burst) = logMaxCount + 1
               PROVE  burst'[1] > logInterval
    BY <1>0, <1>2 DEF RateLimited
  <2>1. 1 \in 1 .. Len(burst) /\ burst[1] \in Ages /\ burst[1] > logInterval
    BY <1>1 DEF Inv, RateLimited
  <2>2. Older(burst[1]) \in Ages /\ Older(burst[1]) >= burst[1]
    BY <1>0, <2>1, OlderType
  <2>3. burst'[1] = Older(burst[1])
    BY <1>2, <2>1
  <2>4. Older(burst[1]) \in Nat /\ burst[1] \in Nat
    BY <1>0, <2>1, <2>2
  <2> QED
    BY <1>0, <2>1, <2>2, <2>3, <2>4
<1> QED
  BY <1>5, <1>7, <1>8, <1>9 DEF Inv

-----------------------------------------------------------------------------
(* The pace of a run of one error                                          *)

\* The members of a sequence of ages are natural numbers.
LEMMA AgesAreNat ==
    ASSUME NEW A, A \subseteq Nat, NEW s \in Seq(A)
    PROVE  Len(s) \in Nat /\ \A i \in 1 .. Len(s) : s[i] \in Nat
BY ElementOfSeq, LenProperties

\* r is s with x behind it, and perhaps without its first member.
Grown(r, s, x) ==
    \E d \in {0, 1} : /\ Len(r) = Len(s) + 1 - d /\ r[Len(r)] = x
                      /\ \A i \in 1 .. (Len(r) - 1) : r[i] = s[i + d]

\* What is remembered of a sequence that grows by one.
LEMMA RememberedLast ==
    ASSUME NEW S, NEW s \in Seq(S), NEW x \in S, NEW n \in Nat, n >= 1, Len(s) <= n,
           NEW r, r = Remembered(Append(s, x), n)
    PROVE  Len(r) <= n /\ r \in Seq(S) /\ Grown(r, s, x)
<1> USE DEF Grown
<1> DEFINE app == Append(s, x)
<1>1. /\ app \in Seq(S) /\ Len(app) = Len(s) + 1 /\ app # <<>> /\ Len(s) \in Nat
      /\ \A i \in 1 .. Len(s) : app[i] = s[i]
      /\ app[Len(s) + 1] = x
  BY AppendProperties
<1>2. r = IF Len(app) > n THEN Tail(app) ELSE app
  BY DEF Remembered
<1> HIDE DEF app
<1>3. CASE Len(s) < n
  BY <1>1, <1>2, <1>3
<1>4. CASE Len(s) = n
  <2>1. r = Tail(app)
    BY <1>1, <1>2, <1>4
  <2>2. r \in Seq(S) /\ Len(r) = Len(s) /\ \A i \in 1 .. Len(s) : r[i] = app[i + 1]
    BY <1>1, <2>1, HeadTailProperties
  <2>3. r[Len(r)] = x
    BY <1>1, <1>4, <2>2
  <2>4. \A i \in 1 .. (Len(r) - 1) : r[i] = s[i + 1]
    BY <1>1, <2>2
  <2> QED
    BY <1>1, <1>4, <2>2, <2>3, <2>4
<1> QED
  BY <1>1, <1>3, <1>4

\* Nothing is forgotten before there are n members.
LEMMA RememberedLength ==
    ASSUME NEW S, NEW s \in Seq(S), NEW x \in S, NEW n \in Nat, Len(s) <= n
    PROVE  Len(Remembered(Append(s, x), n)) = IF Len(s) < n THEN Len(s) + 1 ELSE n
<1>1. /\ Append(s, x) \in Seq(S) /\ Append(s, x) # <<>> /\ Len(s) \in Nat
      /\ Len(Append(s, x)) = Len(s) + 1
  BY AppendProperties
<1> QED
  BY <1>1, HeadTailProperties DEF Remembered

\* What a line that is written adds to the window.
LEMMA EmitShape ==
    ASSUME TypeOK, Paced, Emit, logMaxCount >= 1
    PROVE  /\ window' \in Seq(Ages) /\ Len(window') <= logMaxCount + 2
           /\ OldestFirst' /\ Grown(window', window, 0)
           /\ (Len(window') = logMaxCount + 2 \/ Len(window') = Len(window) + 1)
<1>1. /\ window \in Seq(Ages) /\ 0 \in Ages /\ Ages \subseteq Nat /\ logMaxCount \in Nat
      /\ Len(window) \in Nat /\ \A i \in 1 .. Len(window) : window[i] \in Nat
  BY AgesFacts DEF TypeOK
<1>2. /\ window' \in Seq(Ages) /\ Len(window') <= logMaxCount + 2
      /\ Grown(window', window, 0)
      /\ Len(window') = logMaxCount + 2 \/ Len(window') = Len(window) + 1
  <2>1. window' = Remembered(Append(window, 0), logMaxCount + 2)
    BY DEF Emit
  <2>2. Len(window) <= logMaxCount + 2 /\ logMaxCount + 2 \in Nat /\ logMaxCount + 2 >= 1
    BY <1>1 DEF Paced
  <2>3. Len(window') = logMaxCount + 2 \/ Len(window') = Len(window) + 1
    BY <1>1, <2>1, <2>2, RememberedLength
  <2>4. window' \in Seq(Ages) /\ Len(window') <= logMaxCount + 2 /\ Grown(window', window, 0)
    BY <1>1, <2>1, <2>2, RememberedLast, Zenon
  <2> QED
    BY <2>3, <2>4
<1>3. PICK d \in {0, 1} : /\ Len(window') = Len(window) + 1 - d
                          /\ window'[Len(window')] = 0
                          /\ \A i \in 1 .. (Len(window') - 1) : window'[i] = window[i + d]
  BY <1>2 DEF Grown
<1>4. OldestFirst'
  <2> SUFFICES ASSUME NEW i \in 1 .. Len(window'), NEW j \in 1 .. Len(window'), i <= j
               PROVE  window'[i] >= window'[j]
    BY DEF OldestFirst
  <2>1. Len(window') \in Nat /\ \A k \in 1 .. Len(window') : window'[k] \in Nat
    <3> DEFINE w == window'
    <3>1. w \in Seq(Ages)
      BY <1>2
    <3> HIDE DEF w
    <3>2. Len(w) \in Nat /\ \A k \in 1 .. Len(w) : w[k] \in Nat
      BY <1>1, <3>1, AgesAreNat
    <3> QED
      BY <3>2 DEF w
  <2>2. CASE j = Len(window')
    BY <1>3, <2>1, <2>2
  <2>3. CASE j # Len(window')
    <3>1. i \in 1 .. (Len(window') - 1) /\ j \in 1 .. (Len(window') - 1)
      BY <2>1, <2>3
    <3>a. i + d \in 1 .. Len(window) /\ j + d \in 1 .. Len(window) /\ i + d <= j + d
      BY <1>1, <1>3, <3>1
    <3>2. window[i + d] >= window[j + d]
      BY <3>a DEF Paced, OldestFirst
    <3> QED
      BY <1>3, <3>1, <3>2
  <2> QED
    BY <2>2, <2>3
<1> QED
  BY <1>2, <1>4

\* A summary comes a whole interval after all lines before it.
LEMMA SummarisePaced ==
    ASSUME Inv, Paced, NEW key \in Keys, Summarise(key), idle' = 0, UNCHANGED config
    PROVE  Paced'
<1>1. /\ TypeOK /\ reducedLog /\ LogTimestamps = <<>> /\ logMaxCount >= 1 /\ logStartTime >= logInterval
      /\ logMaxCount' = logMaxCount /\ logInterval' = logInterval /\ Emit
      /\ logMaxCount \in Nat /\ logInterval \in Nat /\ Ages \subseteq Nat
      /\ window \in Seq(Ages) /\ logStartTime \in Nat
  BY AgesFacts DEF Inv, ReducedShape, Summarise, config, TypeOK
<1>2. \/ reducedLog' = FALSE /\ LogTimestamps' = <<>>
      \/ reducedLog' = reducedLog /\ LogTimestamps' = <<>> /\ logStartTime' = 0
  BY <1>1 DEF Summarise
<1>3. /\ window' \in Seq(Ages) /\ Len(window') <= logMaxCount + 2 /\ OldestFirst'
      /\ Len(window') = logMaxCount + 2 \/ Len(window') = Len(window) + 1
  BY <1>1, EmitShape
<1>a. /\ Len(window') \in Nat /\ Len(window) \in Nat
      /\ \A i \in 1 .. Len(window') : window'[i] \in Nat
      /\ \A i \in 1 .. Len(window) : window[i] \in Nat
  BY <1>1, <1>3, AgesAreNat
<1>4. PICK d \in {0, 1} : /\ Len(window') = Len(window) + 1 - d
                          /\ \A i \in 1 .. (Len(window') - 1) : window'[i] = window[i + d]
  BY <1>1, EmitShape DEF Grown
<1>5. \A i \in 1 .. (Len(window') - 1) : window'[i] >= logInterval
  <2> SUFFICES ASSUME NEW i \in 1 .. (Len(window') - 1) PROVE window'[i] >= logInterval
    OBVIOUS
  <2>1. i + d \in 1 .. Len(window) /\ window'[i] = window[i + d]
    BY <1>3, <1>a, <1>4
  <2>2. window[i + d] >= logStartTime
    BY <1>1, <2>1 DEF Paced, SinceStart
  <2> QED
    BY <1>1, <1>3, <1>a, <2>1, <2>2
<1>6. Recent' \in Nat
  BY <1>1, <1>2, EmptySeq DEF Recent
<1>7. OthersOld'
  BY <1>1, <1>3, <1>a, <1>5, <1>6 DEF OthersOld
<1>8. SinceQuiet' /\ StampsEndWindow' /\ SinceStart'
  <2>1. SinceQuiet'
    BY <1>3, <1>a DEF SinceQuiet
  <2>2. StampsEndWindow'
    BY <1>2, <1>3, <1>a, EmptySeq DEF StampsEndWindow
  <2>3. SinceStart'
    BY <1>1, <1>2, <1>3, <1>a DEF SinceStart
  <2> QED
    BY <2>1, <2>2, <2>3
<1> QED
  BY <1>1, <1>3, <1>a, <1>7, <1>8 DEF Paced

\* One line more, below the limit or behind a line that is forgotten because it
\* is old: the time stamps stay the end of the window.
LEMMA LogPaced ==
    ASSUME Inv, Paced, NEW key \in Keys, SlideAndLog(key) \/ AppendAndLog(key),
           idle' = 0, UNCHANGED config
    PROVE  Paced'
<1> SUFFICES ASSUME logMaxCount >= 1 PROVE Paced'
  BY DEF Paced, config
<1> DEFINE n == logMaxCount
           k == Len(LogTimestamps)
           w == window'
           stamps == LogTimestamps'
<1>1. /\ TypeOK /\ n' = n /\ logInterval' = logInterval /\ n \in Nat /\ logInterval \in Nat
      /\ Ages \subseteq Nat /\ 0 \in Ages /\ LogTimestamps \in Seq(Ages) /\ window \in Seq(Ages)
      /\ k \in Nat /\ k <= n
  BY AgesFacts, LenProperties DEF Inv, config, TypeOK
<1>2. Emit /\ ~reducedLog /\ ~reducedLog'
  BY DEF SlideAndLog, AppendAndLog
<1>3. /\ w \in Seq(Ages) /\ Len(w) <= n + 2 /\ OldestFirst' /\ Grown(w, window, 0)
      /\ (Len(w) = n + 2 \/ Len(w) = Len(window) + 1)
  BY <1>1, <1>2, EmitShape
<1>4. /\ Len(w) \in Nat /\ Len(window) \in Nat
      /\ \A i \in 1 .. Len(w) : w[i] \in Nat
      /\ \A i \in 1 .. Len(window) : window[i] \in Nat
  BY <1>1, <1>3, AgesAreNat
<1>5. PICK d \in {0, 1} : /\ Len(w) = Len(window) + 1 - d /\ w[Len(w)] = 0
                          /\ \A i \in 1 .. (Len(w) - 1) : w[i] = window[i + d]
  BY <1>3 DEF Grown
<1>6. /\ OldestFirst /\ OthersOld /\ Len(window) <= n + 2 /\ k <= Len(window)
      /\ \A i \in 1 .. k : LogTimestamps[i] = window[Len(window) - k + i]
      /\ \A i \in 1 .. (Len(window) - k - 1) : window[i] >= logInterval
  BY <1>2 DEF Paced, StampsEndWindow, OthersOld, Recent
<1>7. /\ stamps \in Seq(Ages) /\ Len(stamps) \in 1 .. n /\ Len(stamps) <= Len(w)
      /\ \A i \in 1 .. Len(stamps) : stamps[i] = w[Len(w) - Len(stamps) + i]
      /\ \A i \in 1 .. (Len(w) - Len(stamps) - 1) : w[i] >= logInterval
  <2>1. CASE AppendAndLog(key)
    <3>1. stamps = Append(LogTimestamps, 0) /\ k < n
      BY <1>1, <2>1 DEF AppendAndLog
    <3>2. /\ stamps \in Seq(Ages) /\ Len(stamps) = k + 1 /\ stamps[k + 1] = 0
          /\ \A i \in 1 .. k : stamps[i] = LogTimestamps[i]
      BY <1>1, <3>1, AppendProperties
    <3> HIDE DEF w, stamps, k, n
    <3>3. Len(stamps) \in 1 .. n /\ Len(stamps) <= Len(w)
      BY <1>1, <1>3, <1>4, <1>5, <1>6, <3>1, <3>2
    <3>4. ASSUME NEW i \in 1 .. Len(stamps) PROVE stamps[i] = w[Len(w) - Len(stamps) + i]
      <4>1. CASE i = k + 1
        BY <1>1, <1>4, <1>5, <3>2, <4>1
      <4>2. CASE i \in 1 .. k
        <5>1. Len(w) - (k + 1) + i \in 1 .. (Len(w) - 1) /\ Len(w) - (k + 1) + i + d = Len(window) - k + i
          BY <1>1, <1>4, <1>5, <1>6, <3>2, <3>3, <4>2
        <5>2. w[Len(w) - (k + 1) + i] = window[Len(window) - k + i]
          BY <1>5, <5>1
        <5> QED
          BY <1>6, <3>2, <4>2, <5>2 DEF k
      <4> QED
        BY <1>1, <3>2, <4>1, <4>2
    <3>5. ASSUME NEW i \in 1 .. (Len(w) - Len(stamps) - 1) PROVE w[i] >= logInterval
      <4>1. i \in 1 .. (Len(w) - 1) /\ i + d \in 1 .. (Len(window) - k - 1)
        BY <1>1, <1>4, <1>5, <3>2
      <4> QED
        BY <1>5, <1>6, <4>1 DEF k
    <3> QED
      BY <3>2, <3>3, <3>4, <3>5
  <2>2. CASE SlideAndLog(key)
    <3>1. stamps = Append(Tail(LogTimestamps), 0) /\ k = n /\ LogTimestamps[1] > logInterval
      BY <2>2 DEF SlideAndLog
    <3>2. /\ Tail(LogTimestamps) \in Seq(Ages) /\ Len(Tail(LogTimestamps)) = n - 1
          /\ \A i \in 1 .. (n - 1) : Tail(LogTimestamps)[i] = LogTimestamps[i + 1]
      BY <1>1, <3>1, EmptySeq, HeadTailProperties
    <3>3. /\ stamps \in Seq(Ages) /\ Len(stamps) = n /\ stamps[n] = 0
          /\ \A i \in 1 .. (n - 1) : stamps[i] = LogTimestamps[i + 1]
      BY <1>1, <3>1, <3>2, AppendProperties
    <3> HIDE DEF w, stamps, k, n
    <3>4. Len(stamps) \in 1 .. n /\ Len(stamps) <= Len(w)
      BY <1>1, <1>3, <1>4, <1>5, <1>6, <3>1, <3>3
    <3>5. ASSUME NEW i \in 1 .. Len(stamps) PROVE stamps[i] = w[Len(w) - Len(stamps) + i]
      <4>1. CASE i = n
        BY <1>1, <1>4, <1>5, <3>3, <4>1
      <4>2. CASE i \in 1 .. (n - 1)
        <5>1. /\ Len(w) - n + i \in 1 .. (Len(w) - 1) /\ Len(w) - n + i + d = Len(window) - k + (i + 1)
              /\ i + 1 \in 1 .. k
          BY <1>1, <1>4, <1>5, <1>6, <3>1, <4>2
        <5>2. w[Len(w) - n + i] = window[Len(window) - k + (i + 1)]
          BY <1>5, <5>1
        <5> QED
          BY <1>6, <3>3, <4>2, <5>1, <5>2 DEF k
      <4> QED
        BY <1>1, <3>3, <4>1, <4>2
    <3>6. ASSUME NEW i \in 1 .. (Len(w) - Len(stamps) - 1) PROVE w[i] >= logInterval
      <4>1. i \in 1 .. (Len(w) - 1) /\ i + d \in 1 .. Len(window)
        BY <1>1, <1>4, <1>5, <3>3
      <4>a. i + d <= Len(window) - n + 1 /\ Len(window) - n + 1 \in 1 .. Len(window)
        BY <1>1, <1>4, <1>5, <1>6, <3>1, <3>3
      <4>2. window[i + d] >= window[Len(window) - n + 1]
        BY <1>6, <4>1, <4>a DEF OldestFirst
      <4>3. window[Len(window) - n + 1] > logInterval
        <5>1. 1 \in 1 .. k
          BY <1>1, <3>1, <3>4
        <5>2. LogTimestamps[1] = window[Len(window) - k + 1]
          BY <1>6, <5>1 DEF k
        <5> QED
          BY <3>1, <5>2
      <4>4. /\ w[i] = window[i + d] /\ window[i + d] \in Nat /\ window[Len(window) - n + 1] \in Nat
            /\ logInterval \in Nat
        BY <1>1, <1>4, <1>5, <4>1, <4>a
      <4> QED
        BY <4>2, <4>3, <4>4
    <3> QED
      BY <3>3, <3>4, <3>5, <3>6
  <2> QED
    BY <2>1, <2>2
<1>8. StampsEndWindow'
  BY <1>2, <1>7 DEF StampsEndWindow
<1>9. OthersOld'
  BY <1>1, <1>2, <1>7 DEF OthersOld, Recent
<1>10. SinceQuiet' /\ SinceStart'
  BY <1>2, <1>4 DEF SinceQuiet, SinceStart
<1> QED
  BY <1>1, <1>3, <1>8, <1>9, <1>10 DEF Paced

\* No line is written.
LEMMA SilentPaced ==
    ASSUME Inv, Paced, NEW key \in Keys, Suppress(key) \/ StartReducing(key),
           idle' = 0, UNCHANGED config
    PROVE  Paced'
<1> SUFFICES ASSUME logMaxCount >= 1 PROVE Paced'
  BY DEF Paced, config
<1>1. /\ logMaxCount' = logMaxCount /\ logInterval' = logInterval /\ window' = window
      /\ \A i \in 1 .. Len(window) : window[i] \in Nat
      /\ Recent' = Recent /\ reducedLog'
  <2>1. Ages \subseteq Nat /\ window \in Seq(Ages) /\ window' = window
    BY AgesFacts DEF Inv, TypeOK, Suppress, StartReducing
  <2>2. \A i \in 1 .. Len(window) : window[i] \in Nat
    BY <2>1, AgesAreNat
  <2>3. Recent' = Recent /\ reducedLog'
    BY DEF Suppress, StartReducing, Recent, config
  <2> QED
    BY <2>1, <2>2, <2>3 DEF config
<1>2. \/ reducedLog /\ logStartTime' = logStartTime
      \/ logStartTime' = 0
  BY DEF Suppress, StartReducing
<1>3. Len(window) >= 1
  <2>1. CASE Suppress(key)
    BY <2>1 DEF Suppress, Paced, SinceStart
  <2>2. CASE StartReducing(key)
    BY <2>2, LenProperties DEF StartReducing, Paced, StampsEndWindow, Inv, TypeOK
  <2> QED
    BY <2>1, <2>2
<1>4. SinceQuiet' /\ SinceStart'
  BY <1>1, <1>2, <1>3 DEF Paced, SinceQuiet, SinceStart
<1> QED
  BY <1>1, <1>4 DEF Paced, OldestFirst, StampsEndWindow, OthersOld

\* revertCounter: the timer fires when all lines are old; a success that ends
\* reduced mode ends the run.
LEMMA RevertPaced ==
    ASSUME Inv, Paced, ReceiveSuccess \/ IdleTimeout
    PROVE  Paced'
<1> SUFFICES ASSUME logMaxCount >= 1 PROVE Paced'
  BY DEF Paced, config, ReceiveSuccess, IdleTimeout
<1>1. /\ logMaxCount' = logMaxCount /\ logInterval' = logInterval /\ idle' = 0 /\ reducedLog' = FALSE
      /\ LogTimestamps' = IF reducedLog THEN <<>> ELSE LogTimestamps
      /\ window' = window \/ window' = <<>>
      /\ window' # window => reducedLog
      /\ window' = window /\ reducedLog => idle >= logInterval \/ window = <<>>
  BY DEF ReceiveSuccess, IdleTimeout, revertCounter, config
<1>2. /\ Ages \subseteq Nat /\ window \in Seq(Ages) /\ logInterval \in Nat /\ idle \in Nat /\ logMaxCount \in Nat
      /\ Len(window) \in Nat /\ \A i \in 1 .. Len(window) : window[i] \in Nat
  <2>1. Ages \subseteq Nat /\ window \in Seq(Ages)
    BY AgesFacts DEF Inv, TypeOK
  <2>2. logInterval \in Nat /\ idle \in Nat /\ logMaxCount \in Nat
    BY <2>1 DEF Inv, TypeOK
  <2> QED
    BY <2>1, <2>2, AgesAreNat
<1>3. CASE ~reducedLog
  <2>1. window' = window /\ LogTimestamps' = LogTimestamps
    BY <1>1, <1>3
  <2> QED
    BY <1>1, <1>2, <1>3, <2>1 DEF Paced, OldestFirst, SinceQuiet, SinceStart, StampsEndWindow, OthersOld, Recent
<1>4. CASE reducedLog /\ window' = <<>>
  <2>1. Len(window') = 0 /\ Len(LogTimestamps') = 0
    BY <1>1, <1>4, EmptySeq
  <2> QED
    BY <1>1, <1>2, <2>1 DEF Paced, OldestFirst, SinceQuiet, SinceStart, StampsEndWindow, OthersOld, Recent
<1>5. CASE reducedLog /\ window' = window /\ window # <<>>
  <2>1. Len(LogTimestamps') = 0 /\ Recent' = 0
    BY <1>1, <1>5, EmptySeq DEF Recent
  <2>2. \A i \in 1 .. Len(window) : window[i] >= logInterval
    BY <1>1, <1>2, <1>5 DEF Paced, SinceQuiet
  <2>3. OthersOld'
    BY <1>1, <1>2, <1>5, <2>1, <2>2 DEF OthersOld
  <2> QED
    BY <1>1, <1>2, <1>5, <2>1, <2>3 DEF Paced, OldestFirst, SinceQuiet, SinceStart, StampsEndWindow
<1> QED
  BY <1>1, <1>3, <1>4, <1>5

\* A different error begins a run.
LEMMA NewEventPaced ==
    ASSUME Inv, Paced, NEW key \in Keys, NewEvent(key), idle' = 0, UNCHANGED config
    PROVE  Paced'
<1> SUFFICES ASSUME logMaxCount >= 1 PROVE Paced'
  BY DEF Paced, config
<1>1. /\ logMaxCount' = logMaxCount /\ logMaxCount \in Int
      /\ window' = <<0>> /\ LogTimestamps' = <<0>> /\ reducedLog' = FALSE /\ idle' = 0
  BY DEF NewEvent, config, Inv, TypeOK
<1>2. Len(<<0>>) = 1 /\ <<0>>[1] = 0
  OBVIOUS
<1>3. OldestFirst' /\ SinceQuiet' /\ SinceStart'
  BY <1>1, <1>2 DEF OldestFirst, SinceQuiet, SinceStart
<1>4. StampsEndWindow' /\ OthersOld'
  BY <1>1, <1>2 DEF StampsEndWindow, OthersOld, Recent
<1> QED
  BY <1>1, <1>2, <1>3, <1>4 DEF Paced

\* Time passes for all lines alike.
LEMMA TickPaced ==
    ASSUME Inv, Paced, Tick
    PROVE  Paced'
<1> SUFFICES ASSUME logMaxCount >= 1 PROVE Paced'
  BY DEF Paced, config, Tick
<1>1. /\ logMaxCount' = logMaxCount /\ logInterval' = logInterval /\ logInterval \in Nat
      /\ window \in Seq(Ages) /\ LogTimestamps \in Seq(Ages) /\ idle \in Ages /\ Ages \subseteq Nat
      /\ logStartTime # NoTime => logStartTime \in Ages
      /\ reducedLog' = reducedLog
  BY AgesFacts DEF Inv, Tick, config, TypeOK
<1>2. /\ Len(window') = Len(window) /\ \A i \in 1 .. Len(window) : window'[i] = Older(window[i])
      /\ Len(LogTimestamps') = Len(LogTimestamps)
      /\ \A i \in 1 .. Len(LogTimestamps) : LogTimestamps'[i] = Older(LogTimestamps[i])
  BY <1>1, AllOlderType DEF Tick
<1>3. \A a, b \in Ages : a >= b => Older(a) >= Older(b)
  BY <1>1 DEF Older, Ages
<1>4. \A i \in 1 .. Len(window) : window[i] \in Ages /\ Older(window[i]) \in Nat /\ Older(window[i]) >= window[i]
  BY <1>1, OlderType, ElementOfSeq
<1>5. OldestFirst'
  BY <1>2, <1>3, <1>4 DEF Paced, OldestFirst
<1>6. SinceQuiet'
  BY <1>1, <1>2, <1>3, <1>4 DEF Paced, SinceQuiet, Tick
<1>7. SinceStart'
  <2> SUFFICES ASSUME reducedLog, NEW i \in 1 .. Len(window') PROVE window'[i] >= logStartTime'
    BY <1>1, <1>2 DEF Paced, SinceStart
  <2>1. logStartTime \in Ages /\ logStartTime' = Older(logStartTime)
    BY <1>1 DEF Inv, ReducedShape, Tick
  <2>2. window[i] >= logStartTime
    BY <1>2 DEF Paced, SinceStart
  <2> QED
    BY <1>2, <1>3, <1>4, <2>1, <2>2
<1>8. StampsEndWindow'
  <2> SUFFICES ASSUME ~reducedLog, NEW i \in 1 .. Len(LogTimestamps)
               PROVE  LogTimestamps'[i] = window'[Len(window) - Len(LogTimestamps) + i]
    BY <1>1, <1>2 DEF Paced, StampsEndWindow
  <2>1. /\ LogTimestamps[i] = window[Len(window) - Len(LogTimestamps) + i]
        /\ Len(LogTimestamps) <= Len(window)
    BY DEF Paced, StampsEndWindow
  <2>2. Len(window) - Len(LogTimestamps) + i \in 1 .. Len(window)
    BY <1>1, <2>1, LenProperties
  <2> QED
    BY <1>2, <2>1, <2>2
<1>9. OthersOld'
  <2>1. Recent' = Recent /\ Recent \in Nat
    BY <1>1, <1>2, LenProperties DEF Recent, Inv, TypeOK
  <2> SUFFICES ASSUME NEW i \in 1 .. (Len(window) - Recent - 1) PROVE window'[i] >= logInterval
    BY <1>1, <1>2, <2>1 DEF OthersOld
  <2>2. window[i] >= logInterval
    BY DEF Paced, OthersOld
  <2>3. i \in 1 .. Len(window)
    BY <1>1, <2>1, LenProperties
  <2>4. window[i] \in Nat /\ Older(window[i]) \in Nat /\ Older(window[i]) >= window[i]
    BY <1>1, <1>4, <2>3
  <2> QED
    BY <1>1, <1>2, <2>2, <2>3, <2>4
<1> QED
  BY <1>1, <1>2, <1>5, <1>6, <1>7, <1>8, <1>9 DEF Paced

LEMMA PacedInit == Init => Paced
<1> SUFFICES ASSUME Init PROVE Paced
  OBVIOUS
<1>1. Len(window) = 0 /\ Len(LogTimestamps) = 0 /\ reducedLog = FALSE /\ logMaxCount \in Int
  BY InitInv, EmptySeq DEF Init, InitChannels, Inv, TypeOK
<1> QED
  BY <1>1 DEF Paced, OldestFirst, SinceQuiet, SinceStart, StampsEndWindow, OthersOld, Recent

-----------------------------------------------------------------------------
(* Theorems                                                                *)

\* Every step of the select loop preserves the invariant.
LEMMA NextInv == Inv /\ [Next]_vars => Inv'
<1> SUFFICES ASSUME Inv, [Next]_vars PROVE Inv'
  OBVIOUS
<1>1. ASSUME NEW key \in Keys, ReceiveError(key) PROVE Inv'
  <2>1. checkLog(key) /\ idle' = 0 /\ UNCHANGED config
    BY <1>1 DEF ReceiveError
  <2> QED
    BY <2>1, NewEventInv, SummariseInv, SuppressInv, StartReducingInv,
       SlideAndLogInv, AppendAndLogInv DEF checkLog
<1>2. CASE ReceiveSuccess
  <2>1. window' \in Seq(Ages')
    BY <1>2, AgesFacts, EmptySeq DEF ReceiveSuccess, Inv, TypeOK
  <2> QED
    BY <1>2, <2>1, RevertInv DEF ReceiveSuccess
<1>3. CASE IdleTimeout
  <2>1. window' \in Seq(Ages')
    BY <1>3, AgesFacts DEF IdleTimeout, Inv, TypeOK
  <2> QED
    BY <1>3, <2>1, RevertInv DEF IdleTimeout
<1>4. CASE Tick
  BY <1>4, TickInv
<1>5. CASE UNCHANGED vars
  BY <1>5 DEF vars, config, counter, history, Inv, TypeOK, Ages, ReducedShape,
        UnlimitedShape, StampsFollowBurst, RateLimited
<1> QED
  BY <1>1, <1>2, <1>3, <1>4, <1>5 DEF Next, Receive

\* The inductive invariant holds in every reachable state of the limiter.
THEOREM Invariance == Spec => []Inv
BY InitInv, NextInv, PTL DEF Spec

\* logCounter and the package variables keep their types, and LogTimestamps is
\* bounded by a positive logMaxCount, for every configuration.
THEOREM TypeCorrect == Spec => []TypeOK
<1>1. Inv => TypeOK
  BY DEF Inv
<1> QED
  BY <1>1, Invariance, PTL

\* checkLog never indexes an empty LogTimestamps and never dereferences a nil
\* logStartTime, for every configuration.
THEOREM PanicFree == Spec => []NoPanic
<1>1. Inv => NoPanic
  BY EmptySeq DEF Inv, NoPanic, ReducedShape, UnlimitedShape, TypeOK
<1> QED
  BY <1>1, Invariance, PTL

\* Any logMaxCount + 1 consecutive individual lines since the last reset span
\* more than logInterval, for every configuration.
THEOREM LimiterLimits == Spec => []RateLimited
<1>1. Inv => RateLimited
  BY DEF Inv
<1> QED
  BY <1>1, Invariance, PTL

\* Every step of the select loop keeps the pace.
LEMMA PacedNext == Inv /\ Paced /\ [Next]_vars => Paced'
<1> SUFFICES ASSUME Inv, Paced, [Next]_vars PROVE Paced'
  OBVIOUS
<1>1. ASSUME NEW key \in Keys, ReceiveError(key) PROVE Paced'
  <2>1. checkLog(key) /\ idle' = 0 /\ UNCHANGED config
    BY <1>1 DEF ReceiveError
  <2> QED
    BY <2>1, NewEventPaced, SummarisePaced, SilentPaced, LogPaced DEF checkLog
<1>2. CASE ReceiveSuccess \/ IdleTimeout
  BY <1>2, RevertPaced
<1>3. CASE Tick
  BY <1>3, TickPaced
<1>4. CASE UNCHANGED vars
  BY <1>4 DEF vars, config, counter, history, Paced, OldestFirst, SinceQuiet, SinceStart,
        StampsEndWindow, OthersOld, Recent
<1> QED
  BY <1>1, <1>2, <1>3, <1>4 DEF Next, Receive

\* Whatever way checkLog and revertCounter enter and leave reduced mode, a run
\* of one error writes at most logMaxCount + 1 lines in less than logInterval,
\* for every configuration.
THEOREM RunsAreLimited == Spec => []WindowLimited
<1>1. Inv /\ Paced => WindowLimited
  <2> SUFFICES ASSUME Inv, Paced, logMaxCount >= 1, Len(window) = logMaxCount + 2
               PROVE  window[1] >= logInterval
    BY DEF WindowLimited
  <2>1. logMaxCount \in Nat /\ Recent \in Nat /\ Recent <= logMaxCount
    BY LenProperties DEF Inv, TypeOK, Recent
  <2>2. 1 \in 1 .. (Len(window) - Recent - 1)
    BY <2>1
  <2> QED
    BY <2>2 DEF Paced, OthersOld
<1> QED
  BY <1>1, Invariance, PacedInit, PacedNext, PTL DEF Spec

\* Every step of the select loop keeps the count: an event has no line exactly
\* when checkLog counts it, and whatever lets an old count or start time be writes
\* a line, or leaves no time stamp.
LEMMA TallyNext == Inv /\ Tally /\ [Next]_vars => Tally'
<1> SUFFICES ASSUME Inv, Tally, [Next]_vars PROVE Tally'
  OBVIOUS
<1> USE DEF Tally, NothingSilent, SilentCounted
<1>t. /\ silent \in Seq(Ages) /\ 0 \in Ages /\ Ages \subseteq Nat /\ logNumber \in Nat
      /\ Len(silent) \in Nat /\ Len(<<>>) = 0 /\ MaxNumber \in Nat \ {0}
      /\ \A i \in 1 .. Len(silent) : silent[i] \in Ages
      /\ logStartTime # NoTime => logStartTime \in Ages
  BY AgesFacts, EmptySeq, LenProperties, ElementOfSeq, BoundAssumption DEF Inv, TypeOK
<1>1. ASSUME NEW key \in Keys, NewEvent(key) PROVE Tally'
  BY <1>1 DEF NewEvent
<1>2. ASSUME NEW key \in Keys, SlideAndLog(key) \/ AppendAndLog(key) PROVE Tally'
  BY <1>2 DEF SlideAndLog, AppendAndLog, Emit
<1>3. ASSUME NEW key \in Keys, Summarise(key) PROVE Tally'
  <2>1. silent' = <<>> /\ (reducedLog' => logNumber' = 0)
    BY <1>3 DEF Summarise, Emit
  <2> QED
    BY <1>t, <2>1
<1>4. ASSUME NEW key \in Keys, Suppress(key) PROVE Tally'
  <2>1. /\ reducedLog /\ reducedLog' /\ logStartTime' = logStartTime /\ logStartTime \in Nat
        /\ logNumber' = Capped(logNumber) /\ Withhold /\ logNumber = Len(silent)
    BY <1>4, <1>t DEF Suppress, Inv, ReducedShape
  <2>2. CASE Len(silent) < MaxNumber
    <3>1. /\ silent' = Append(silent, 0) /\ Len(silent') = Len(silent) + 1
          /\ \A i \in 1 .. Len(silent) : silent'[i] = silent[i]
          /\ silent'[Len(silent) + 1] = 0
      BY <1>t, <2>1, <2>2, AppendProperties DEF Withhold
    <3> QED
      BY <1>t, <2>1, <2>2, <3>1 DEF Capped
  <2>3. CASE ~(Len(silent) < MaxNumber)
    BY <2>1, <2>3 DEF Withhold, Capped
  <2> QED
    BY <2>2, <2>3
<1>5. ASSUME NEW key \in Keys, StartReducing(key) PROVE Tally'
  <2>1. LogTimestamps # <<>> /\ ~reducedLog
    BY <1>5, KeysAssumption, EmptySeq DEF StartReducing, Inv, UnlimitedShape, TypeOK
  <2>2. silent' = <<0>> /\ logNumber' = 1 /\ logStartTime' = 0 /\ reducedLog'
    BY <1>5, <1>t, <2>1 DEF StartReducing, Withhold, Capped
  <2> QED
    BY <2>2
<1>6. CASE ReceiveSuccess \/ IdleTimeout
  BY <1>6 DEF ReceiveSuccess, IdleTimeout, revertCounter
<1>7. CASE Tick
  <2>1. /\ logInterval \in Nat /\ reducedLog' = reducedLog /\ logNumber' = logNumber
        /\ silent' = AllOlder(silent) /\ LogTimestamps' = AllOlder(LogTimestamps)
        /\ LogTimestamps \in Seq(Ages)
    BY <1>7 DEF Tick, Inv, TypeOK
  <2>2. /\ Len(silent') = Len(silent) /\ silent' \in Seq(Ages)
        /\ \A i \in 1 .. Len(silent) : silent'[i] = Older(silent[i])
        /\ LogTimestamps' \in Seq(Ages) /\ Len(LogTimestamps') = Len(LogTimestamps)
    BY <1>t, <2>1, AllOlderType
  <2>3. NothingSilent'
    BY <2>1, <2>2, EmptySeq, LenProperties
  <2>4. SilentCounted'
    <3> SUFFICES ASSUME reducedLog, NEW i \in 1 .. Len(silent)
                 PROVE  silent'[i] <= logStartTime'
      BY <2>1, <2>2
    <3>1. /\ logStartTime \in Ages /\ logStartTime' = Older(logStartTime)
          /\ silent[i] \in Ages /\ silent[i] <= logStartTime
      BY <1>7, <1>t DEF Tick, Inv, ReducedShape
    <3>2. \A a, b \in Ages : a <= b => Older(a) <= Older(b)
      BY <2>1 DEF Older, Ages
    <3> QED
      BY <2>2, <3>1, <3>2
  <2> QED
    BY <2>3, <2>4
<1>8. CASE UNCHANGED vars
  BY <1>8 DEF vars, counter, history
<1> QED
  BY <1>1, <1>2, <1>3, <1>4, <1>5, <1>6, <1>7, <1>8 DEF Next, Receive, ReceiveError, checkLog

\* Whatever changes of key and resets came before, the number in a summary is that
\* of the events since the last line of the log that no line was written for, and
\* its seconds reach back to all of them and not past that line, for every
\* configuration.
THEOREM SummariesExact == Spec => []SummaryExact
<1>1. Inv /\ Paced /\ Tally => SummaryExact
  <2> SUFFICES ASSUME Inv, Paced, Tally, reducedLog PROVE SummaryExact
    BY DEF SummaryExact
  <2>1. logMaxCount >= 1 /\ window \in Seq(Ages) /\ Len(window) \in Nat
    BY LenProperties DEF Inv, ReducedShape, TypeOK
  <2>2. Len(window) >= 1 /\ \A i \in 1 .. Len(window) : window[i] >= logStartTime
    BY <2>1 DEF Paced, SinceStart
  <2> QED
    BY <2>1, <2>2, EmptySeq DEF SummaryExact, Tally, SilentCounted
<1>2. Init => Tally
  BY DEF Init, InitChannels, Tally, NothingSilent, SilentCounted
<1> QED
  BY <1>1, <1>2, Invariance, PacedInit, PacedNext, TallyNext, PTL DEF Spec
=============================================================================
