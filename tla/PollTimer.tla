----------------------------- MODULE PollTimer -----------------------------
(***************************************************************************)
(* When the poll loop polls: the ticker, the interval channel, the backoff *)
(* and the width of time.Duration (agent/internal/poller/poller.go,        *)
(* agent/internal/backoff/backoff.go).  PollAgent says what a poll does;   *)
(* here a poll takes some time and succeeds or fails.                      *)
(*                                                                         *)
(* Time is discrete and advances by one unit; every time below is what is  *)
(* left or has passed.  A goroutine that can go on does so before time     *)
(* advances.  The ticker is that of Go 1.21 (go.mod): its channel has one  *)
(* slot, a tick that finds it taken is dropped, Reset does not empty it.   *)
(***************************************************************************)
EXTENDS Integers

CONSTANTS Second,         \* units of time in a second
          DefaultPeriod,  \* the pollInterval of NewPoller
          MaxBackoff,     \* the MaxInterval of the backoff; the first one is a second
          Half,           \* a time.Duration is in -Half..Half-1 (2^63)
          Intervals,      \* the poll intervals the controller sends, in seconds
          Empty           \* updateIntervalCh is empty

ASSUME TimeAssumption ==
  /\ Second \in Nat \ {0} /\ DefaultPeriod \in Nat \ {0} /\ MaxBackoff \in Nat \ {0}
  /\ Second <= MaxBackoff /\ Half \in Nat \ {0}
ASSUME IntervalsAssumption == Intervals \subseteq Int /\ Empty \notin Int

VARIABLES
  loc,      \* where the loop is
  period,   \* Poller.pollInterval
  ticker,   \* until the ticker fires
  tick,     \* a tick is in the channel
  slot,     \* updateIntervalCh, in seconds
  current,  \* Backoff.currentInterval
  sleep,    \* what is left of time.After
  since,    \* history variable: since the last poll ended
  reset,    \* history variable: the ticker was reset since then
  asked     \* history variable: the seconds period was computed from, 0: default

vars == <<loc, period, ticker, tick, slot, current, sleep, since, reset, asked>>

\* time.Duration(n) * time.Second
Fits(n) == n * Second \in (-Half)..(Half - 1)
Duration(n) == IF Fits(n) THEN n * Second ELSE ((n * Second + Half) % (2 * Half)) - Half

TypeOK ==
  /\ loc \in {"select", "poll", "sleep", "panicked"}
  /\ period \in Nat \ {0} /\ ticker \in 1..period
  /\ tick \in BOOLEAN
  /\ slot \in {i \in Intervals : i > 0} \cup {Empty}
  /\ current \in 0..MaxBackoff
  /\ sleep \in Nat /\ since \in Nat /\ reset \in BOOLEAN
  /\ asked \in Intervals \cup {0}

Init ==
  /\ loc = "select"
  /\ period = DefaultPeriod /\ ticker = DefaultPeriod /\ tick = FALSE
  /\ slot = Empty
  /\ current = 0 /\ sleep = 0
  /\ since = 0 /\ reset = FALSE /\ asked = 0

\* Backoff.Next before the jitter.
NextBackoffUncapped == IF current = 0 THEN Second ELSE 2 * current
NextBackoff ==
  IF current = 0 THEN Second
  ELSE IF 2 * current > MaxBackoff THEN MaxBackoff ELSE 2 * current

\* The jitter of ten percent.
JitteredMore(b) == {s \in 0..(2 * b) : 9 * b <= 10 * s /\ 10 * s <= 12 * b}
Jittered(b) == {s \in 0..(2 * b) : 9 * b <= 10 * s /\ 10 * s <= 11 * b}

-----------------------------------------------------------------------------
(* Slips.                                                                    *)

PollFailsAtOnce ==
  /\ loc = "poll"
  /\ loc' = "select" /\ current' = NextBackoff /\ sleep' = 0 /\ since' = 0
  /\ reset' = FALSE
  /\ UNCHANGED <<period, ticker, tick, slot, asked>>

\* Without "PollIntervalSecs > 0".
OffersAny(i) == Duration(i) # period /\ slot = Empty

-----------------------------------------------------------------------------
\* One unit of time, unless the loop can go on.
Pass ==
  /\ \/ loc = "poll"
     \/ loc = "sleep" /\ sleep > 0
     \/ loc = "select" /\ ~tick /\ slot = Empty
  /\ IF ticker = 1 THEN ticker' = period /\ tick' = TRUE
                   ELSE ticker' = ticker - 1 /\ UNCHANGED tick
  /\ sleep' = IF loc = "sleep" THEN sleep - 1 ELSE sleep
  /\ since' = IF loc = "poll" THEN since ELSE since + 1
  /\ UNCHANGED <<loc, period, slot, current, reset, asked>>

\* ticker.Reset panics unless the new period is positive.
TakeInterval ==
  /\ loc = "select" /\ slot # Empty
  /\ asked' = slot /\ reset' = TRUE
  /\ IF Duration(slot) > 0
       THEN period' = Duration(slot) /\ ticker' = period' /\ slot' = Empty /\ UNCHANGED loc
       ELSE loc' = "panicked" /\ UNCHANGED <<period, ticker, slot>>
  /\ UNCHANGED <<tick, current, sleep, since>>

StartPoll ==
  /\ loc = "select" /\ tick
  /\ loc' = "poll" /\ tick' = FALSE
  /\ UNCHANGED <<period, ticker, slot, current, sleep, since, reset, asked>>

\* A new interval is offered unless the channel is taken.
Offers(i) == i > 0 /\ Duration(i) # period /\ slot = Empty

PollOK ==
  /\ loc = "poll"
  /\ \E i \in Intervals : slot' = IF Offers(i) THEN i ELSE slot
  /\ loc' = "select" /\ current' = 0 /\ since' = 0 /\ reset' = FALSE
  /\ UNCHANGED <<period, ticker, tick, sleep, asked>>

PollFails ==
  /\ loc = "poll"
  /\ loc' = "sleep" /\ current' = NextBackoff /\ since' = 0 /\ reset' = FALSE
  /\ sleep' \in Jittered(NextBackoff)
  /\ UNCHANGED <<period, ticker, tick, slot, asked>>

BackoffOver ==
  /\ loc = "sleep" /\ sleep = 0
  /\ loc' = "select"
  /\ UNCHANGED <<period, ticker, tick, slot, current, sleep, since, reset, asked>>

\* The container is restarted; loadCache does not look at the interval.
Restart ==
  /\ loc = "panicked"
  /\ loc' = "select"
  /\ period' = DefaultPeriod /\ ticker' = DefaultPeriod /\ tick' = FALSE
  /\ slot' = Empty /\ current' = 0 /\ sleep' = 0
  /\ since' = 0 /\ reset' = FALSE /\ asked' = 0

Next ==
  Pass \/ TakeInterval \/ StartPoll \/ PollOK \/ PollFails \/ BackoffOver \/ Restart

Spec == Init /\ [][Next]_vars

-----------------------------------------------------------------------------
(* Properties.                                                              *)

\* Whatever the controller sends, zero and negative intervals too, the agent
\* never panics and its ticker has the period it was sent, unless that does not
\* fit into a time.Duration.
IntervalHeld ==
  Fits(asked) =>
    loc # "panicked" /\ period = IF asked = 0 THEN DefaultPeriod ELSE asked * Second

\* The next poll comes when the period or the backoff with its jitter is over,
\* whichever is longer, in spite of ticks that are dropped; only an interval that
\* was left in its channel by an earlier poll, and resets the ticker after the
\* backoff, makes it as late as both together.
NextPollInTime ==
  loc \in {"select", "sleep"} =>
    \/ since <= period
    \/ 10 * since <= 11 * current
    \/ reset /\ 10 * since <= 10 * period + 11 * current

\* After a failure the controller is not asked again before the backoff less ten
\* percent has passed, also when a tick has been in the channel all along.
RetryWaits ==
  [][(loc = "select" /\ loc' = "poll") => 10 * since >= 9 * current]_vars
=============================================================================
