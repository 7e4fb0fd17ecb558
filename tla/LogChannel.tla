----------------------------- MODULE LogChannel -----------------------------
(***************************************************************************)
(* The log limiter of one remote-write endpoint:                           *)
(* internal/remotewrite/logchannel.go.  A goroutine per endpoint owns a    *)
(* logCounter and loops over a select of two cases: a message from the     *)
(* forwarding goroutines (a success or an error under some key), or a      *)
(* timer of logInterval that is armed again by every pass of the loop.     *)
(*                                                                         *)
(* A time.Time is modelled by its age, in steps of Tick, so that           *)
(* time.Since(t) is the value itself.  The code only compares ages with    *)
(* logInterval, so ages saturate at logInterval + 1.                       *)
(***************************************************************************)
EXTENDS Integers, Sequences

CONSTANTS
    Keys,               \* message keys of errors
    DefaultMaxCount,    \* the package variable logMaxCount: 10 in the code
    DefaultInterval,    \* the package variable logInterval: 600 s in the code
    MaxInt,             \* largest int: what ParseInt returns on overflow
    EnvMaxCount,        \* what ParseInt makes of LOG_MAX_COUNT
    EnvInterval,        \* what ParseDuration makes of LOG_INTERVAL
    MaxNumber,          \* bound: counters of suppressed events stop here
    MaxStamps           \* bound: LogTimestamps without limit (logMaxCount = 0)

NoKey == "nokey"        \* the empty logKey of a new counter
NoTime == -1            \* a nil logStartTime

\* What os.Getenv and the parser deliver: set, err and v, the parsed value.
\* ParseInt's value is 0 for a syntax error and an extreme int for a range
\* error; ParseDuration's is 0 for every error.
ParsedInt == [set : BOOLEAN, err : BOOLEAN, v : Int]
ParsedDuration == [set : BOOLEAN, err : BOOLEAN, v : Nat]

ASSUME KeysAssumption == NoKey \notin Keys
ASSUME DefaultAssumption ==
    DefaultMaxCount \in Nat /\ DefaultInterval \in Nat /\ MaxInt \in Nat
ASSUME EnvAssumption ==
    /\ EnvMaxCount \subseteq ParsedInt
    /\ \A e \in EnvMaxCount : e.err => e.v \in {0, MaxInt, -MaxInt - 1}
    /\ EnvInterval \subseteq ParsedDuration
    /\ \A e \in EnvInterval : e.err => e.v = 0
ASSUME BoundAssumption == MaxNumber \in Nat \ {0} /\ MaxStamps \in Nat

VARIABLES
    logMaxCount,        \* package variables, fixed by InitChannels
    logInterval,
    logKey,             \* the fields of logCounter
    LogTimestamps,
    logStartTime,
    logNumber,
    reducedLog,
    idle,               \* age of the timer the select waits on
    burst,              \* history: ages of the last logMaxCount + 1 lines
                        \*   logged one by one since the counter was reset
    window,             \* history: ages of the last logMaxCount + 2 lines,
                        \*   summaries included, of the current run of one key
    silent              \* history: ages of the events since the last line that
                        \*   no line was written for

config == <<logMaxCount, logInterval>>
counter == <<logKey, LogTimestamps, logStartTime, logNumber, reducedLog>>
history == <<burst, window, silent>>
vars == <<config, counter, idle, history>>

Ages == 0 .. (logInterval + 1)

\* The types of the package variables and of logCounter (lines 17-40), and that
\* LogTimestamps stays within logMaxCount where there is such a limit.
TypeOK ==
    /\ logMaxCount \in Int /\ logInterval \in Nat
    /\ logKey \in Keys \cup {NoKey}
    /\ LogTimestamps \in Seq(Ages)
    /\ logMaxCount >= 1 => Len(LogTimestamps) <= logMaxCount
    /\ logStartTime \in Ages \cup {NoTime}
    /\ logNumber \in Nat /\ reducedLog \in BOOLEAN
    /\ idle \in Ages
    /\ burst \in Seq(Ages)
    /\ window \in Seq(Ages)
    /\ silent \in Seq(Ages)

-----------------------------------------------------------------------------
(* InitChannels                                                            *)

\* The test of the code is err != nil: a value that parses is ignored, and the
\* value that comes with an error replaces the default.
Configured(default, env) == IF env.set /\ env.err THEN env.v ELSE default

InitChannels ==
    /\ \E c \in EnvMaxCount : logMaxCount = Configured(DefaultMaxCount, c)
    /\ \E d \in EnvInterval : logInterval = Configured(DefaultInterval, d)
    /\ logKey = NoKey /\ LogTimestamps = <<>> /\ logStartTime = NoTime
    /\ logNumber = 0 /\ reducedLog = FALSE
    /\ idle = 0
    /\ burst = <<>> /\ window = <<>> /\ silent = <<>>

-----------------------------------------------------------------------------
(* History of what was written to the log                                  *)

Remembered(lines, n) == IF Len(lines) > n THEN Tail(lines) ELSE lines
Emit ==
    /\ window' = Remembered(Append(window, 0), logMaxCount + 2)
    /\ silent' = <<>>
Withhold == silent' = IF Len(silent) < MaxNumber THEN Append(silent, 0) ELSE silent
Capped(n) == IF n < MaxNumber THEN n + 1 ELSE n

-----------------------------------------------------------------------------
(* checkLog, one action per branch                                         *)

\* A different event: start to count from zero.
NewEvent(key) ==
    /\ key # logKey
    /\ logKey' = key
    /\ LogTimestamps' = <<0>>
    /\ reducedLog' = FALSE
    /\ UNCHANGED <<logStartTime, logNumber>>
    /\ burst' = <<0>> /\ window' = <<0>> /\ silent' = <<>>

MutSummarise(key) ==
    /\ key = logKey /\ reducedLog
    /\ logStartTime >= logInterval - 1
    /\ Emit
    /\ \/ /\ logNumber < logMaxCount
          /\ reducedLog' = FALSE /\ LogTimestamps' = <<>>
          /\ burst' = <<>>
          /\ UNCHANGED <<logNumber, logStartTime>>
       \/ /\ logNumber >= logMaxCount
          /\ logNumber' = 0 /\ logStartTime' = 0
          /\ UNCHANGED <<reducedLog, LogTimestamps, burst>>
    /\ UNCHANGED logKey

\* An interval of reduced logging is over: report its count, then stop
\* reducing or count a new interval.
Summarise(key) ==
    /\ key = logKey /\ reducedLog
    /\ logStartTime >= logInterval
    /\ Emit
    /\ \/ /\ logNumber < logMaxCount
          /\ reducedLog' = FALSE /\ LogTimestamps' = <<>>
          /\ burst' = <<>>
          /\ UNCHANGED <<logNumber, logStartTime>>
       \/ /\ logNumber >= logMaxCount
          /\ logNumber' = 0 /\ logStartTime' = 0
          /\ UNCHANGED <<reducedLog, LogTimestamps, burst>>
    /\ UNCHANGED logKey

MutSuppress(key) ==
    /\ key = logKey /\ reducedLog
    /\ logStartTime < logInterval
    /\ logNumber' = Capped(logNumber) /\ Withhold
    /\ logStartTime' = 0
    /\ UNCHANGED <<logKey, LogTimestamps, reducedLog, burst, window>>

Suppress(key) ==
    /\ key = logKey /\ reducedLog
    /\ logStartTime < logInterval
    /\ logNumber' = Capped(logNumber)
    /\ Withhold
    /\ UNCHANGED <<logKey, LogTimestamps, logStartTime, reducedLog, burst, window>>

MutStartReducing(key) ==
    /\ key = logKey /\ ~reducedLog
    /\ Len(LogTimestamps) = logMaxCount
    /\ LogTimestamps[1] <= logInterval
    /\ reducedLog' = TRUE /\ LogTimestamps' = <<>>
    /\ logNumber' = Capped(logNumber) /\ logStartTime' = 0
    /\ Withhold
    /\ UNCHANGED <<logKey, burst, window>>

MutStartReducingNoStart(key) ==
    /\ key = logKey /\ ~reducedLog
    /\ Len(LogTimestamps) = logMaxCount
    /\ LogTimestamps[1] <= logInterval
    /\ reducedLog' = TRUE /\ LogTimestamps' = <<>>
    /\ logNumber' = 1 /\ UNCHANGED logStartTime
    /\ Withhold
    /\ UNCHANGED <<logKey, burst, window>>

\* The event after logMaxCount lines within logInterval is the first one to be
\* suppressed.
StartReducing(key) ==
    /\ key = logKey /\ ~reducedLog
    /\ Len(LogTimestamps) = logMaxCount
    /\ LogTimestamps[1] <= logInterval
    /\ reducedLog' = TRUE /\ LogTimestamps' = <<>>
    /\ logNumber' = 1 /\ logStartTime' = 0
    /\ Withhold
    /\ UNCHANGED <<logKey, burst, window>>

MutSlideAndLog(key) ==
    /\ key = logKey /\ ~reducedLog
    /\ Len(LogTimestamps) = logMaxCount
    /\ LogTimestamps[1] >= logInterval
    /\ LogTimestamps' = Append(Tail(LogTimestamps), 0)
    /\ Emit /\ burst' = Remembered(Append(burst, 0), logMaxCount + 1)
    /\ UNCHANGED <<logKey, logStartTime, logNumber, reducedLog>>

MutSlideAndLogKeeps(key) ==
    /\ key = logKey /\ ~reducedLog
    /\ Len(LogTimestamps) = logMaxCount
    /\ LogTimestamps[1] > logInterval
    /\ LogTimestamps' = Append(LogTimestamps, 0)
    /\ Emit /\ burst' = Remembered(Append(burst, 0), logMaxCount + 1)
    /\ UNCHANGED <<logKey, logStartTime, logNumber, reducedLog>>

\* The limit was not reached within logInterval: forget the oldest line.
SlideAndLog(key) ==
    /\ key = logKey /\ ~reducedLog
    /\ Len(LogTimestamps) = logMaxCount
    /\ LogTimestamps[1] > logInterval
    /\ LogTimestamps' = Append(Tail(LogTimestamps), 0)
    /\ Emit /\ burst' = Remembered(Append(burst, 0), logMaxCount + 1)
    /\ UNCHANGED <<logKey, logStartTime, logNumber, reducedLog>>

AppendAndLog(key) ==
    /\ key = logKey /\ ~reducedLog
    /\ Len(LogTimestamps) # logMaxCount
    /\ Len(LogTimestamps) < MaxStamps
    /\ LogTimestamps' = Append(LogTimestamps, 0)
    /\ Emit /\ burst' = Remembered(Append(burst, 0), logMaxCount + 1)
    /\ UNCHANGED <<logKey, logStartTime, logNumber, reducedLog>>

checkLog(key) ==
    \/ NewEvent(key)
    \/ Summarise(key)
    \/ Suppress(key)
    \/ StartReducing(key)
    \/ SlideAndLog(key)
    \/ AppendAndLog(key)

-----------------------------------------------------------------------------
(* The select loop                                                         *)

revertCounter ==
    /\ reducedLog' = FALSE
    /\ LogTimestamps' = IF reducedLog THEN <<>> ELSE LogTimestamps
    /\ burst' = IF reducedLog THEN <<>> ELSE burst
    /\ UNCHANGED <<logKey, logStartTime, logNumber, silent>>

ReceiveSuccess ==
    /\ revertCounter
    /\ window' = IF reducedLog THEN <<>> ELSE window
    /\ idle' = 0
    /\ UNCHANGED config

ReceiveError(key) == checkLog(key) /\ idle' = 0 /\ UNCHANGED config

MutIdleTimeout ==
    /\ idle >= logInterval
    /\ idle' = 0
    /\ UNCHANGED <<config, counter, history>>

\* The timer of the select fires.
IdleTimeout ==
    /\ idle >= logInterval
    /\ revertCounter
    /\ idle' = 0
    /\ UNCHANGED <<window, config>>

\* Time passes.
Older(a) == IF a <= logInterval THEN a + 1 ELSE a
AllOlder(ages) == [i \in 1 .. Len(ages) |-> Older(ages[i])]

Tick ==
    /\ idle' = Older(idle)
    /\ LogTimestamps' = AllOlder(LogTimestamps)
    /\ logStartTime' = IF logStartTime = NoTime THEN NoTime ELSE Older(logStartTime)
    /\ burst' = AllOlder(burst)
    /\ window' = AllOlder(window)
    /\ silent' = AllOlder(silent)
    /\ UNCHANGED <<config, logKey, logNumber, reducedLog>>

Receive == ReceiveSuccess \/ \E key \in Keys : ReceiveError(key)

Next == Receive \/ IdleTimeout \/ Tick

Init == InitChannels

\* Time passes, and the goroutine of InitChannels does not stop selecting:
\* a timer that has fired is received unless a message is.  Nothing obliges
\* the forwarding goroutines to send.
Fairness == WF_vars(Tick) /\ WF_vars(IdleTimeout)

Spec == Init /\ [][Next]_vars /\ Fairness

-----------------------------------------------------------------------------
(* Properties                                                              *)

\* The index and the dereference of checkLog (lines 99 and 119) never panic,
\* whatever InitChannels made of the environment: a counter in reduced mode has
\* a start time, and LogTimestamps is not empty when its length is compared
\* equal to logMaxCount (which may be 0) for a repeated event.
NoPanic ==
    /\ reducedLog => logStartTime # NoTime
    /\ (~reducedLog /\ logKey # NoKey /\ Len(LogTimestamps) = logMaxCount)
          => LogTimestamps # <<>>

\* Individual lines of a repeated error (checkLog lines 117-134) are limited:
\* since the counter was last reset, any logMaxCount + 1 consecutive lines span
\* more than logInterval.
RateLimited ==
    (logMaxCount >= 1 /\ Len(burst) = logMaxCount + 1) => burst[1] > logInterval

\* Summaries and the idle timer's resets included, a run of one error that no
\* success ends in reduced mode (checkLog, revertCounter) writes at most
\* logMaxCount + 1 lines in any time shorter than logInterval: reduced mode has
\* no exit that is faster than the interval.
WindowLimited ==
    (logMaxCount >= 1 /\ Len(window) = logMaxCount + 2) => window[1] >= logInterval

\* A summary, "Error occurred %d times in last %d seconds" (checkLog lines
\* 101-104), is true of the log: the number is that of the events since the last
\* line of the log, whatever line it was, that no line was written for; and the
\* seconds reach back to all of these events, but to no time before that line.
\* The count and the start time survive changes of key and resets of the counter,
\* which write no line, so an old one could get into a summary.
SummaryExact ==
    reducedLog =>
        /\ logNumber = Len(silent)
        /\ \A i \in 1 .. Len(silent) : silent[i] <= logStartTime
        /\ window # <<>> /\ window[Len(window)] >= logStartTime

\* Errors are never reduced to silence: if errors keep arriving, checkLog keeps
\* writing lines.
Written == window # <<>> /\ window[Len(window)] = 0
ErrorsStayVisible ==
    []<><<\E key \in Keys : ReceiveError(key)>>_vars => []<>Written

\* An endpoint that goes quiet leaves reduced mode (the select's timer, line 79):
\* from some time on it is not reduced, unless messages keep arriving.
QuietRecovers == []<><<Receive>>_vars \/ <>[]~reducedLog

=============================================================================
