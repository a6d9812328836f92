-------------------------- MODULE PollTimerProofs --------------------------
(***************************************************************************)
(* Theorems about PollTimer, for every length of a second, default         *)
(* period, longest backoff, width of time.Duration and set of intervals.   *)
(*                                                                         *)
(* What is bounded is not since alone: in the backoff it is since plus     *)
(* what is left of the sleep, at the select since plus what is left of the *)
(* ticker (Bounded); and an interval that waits at the select can shorten  *)
(* the period, so that less may have passed by then.                       *)
(***************************************************************************)
EXTENDS PollTimer, TLAPS

InTime ==
  \/ since <= period
  \/ 10 * since <= 11 * current
  \/ reset /\ 10 * since <= 10 * period + 11 * current

Bounded ==
  /\ loc = "sleep" =>
       /\ ~reset
       /\ ~tick => since + ticker <= period
       /\ 10 * (since + sleep) <= 11 * current
  /\ loc = "select" =>
       /\ ~tick /\ ~reset => since + ticker <= period
       /\ ~tick /\ reset => 10 * (since + ticker) <= 10 * period + 11 * current
       /\ slot # Empty => 10 * since <= 11 * current
       /\ InTime

Waits ==
  /\ loc = "sleep" => 10 * (since + sleep) >= 9 * current
  /\ loc = "select" => 10 * since >= 9 * current

-----------------------------------------------------------------------------
\* A duration is a number, and positive if the seconds are and it fits.
LEMMA DurationFacts ==
  ASSUME NEW n \in Int
  PROVE  /\ Duration(n) \in Int
         /\ Fits(n) => Duration(n) = n * Second
         /\ Fits(n) /\ n > 0 => Duration(n) > 0
<1> DEFINE d == n * Second
<1>1. d \in Int /\ (n > 0 => d > 0)
  BY TimeAssumption
<1> HIDE DEF d
<1>2. Duration(n) = IF Fits(n) THEN d ELSE ((d + Half) % (2 * Half)) - Half
  BY DEF Duration, d
<1>3. ((d + Half) % (2 * Half)) - Half \in Int
  BY <1>1, TimeAssumption
<1>4. d = n * Second
  BY DEF d
<1> QED
  BY <1>1, <1>2, <1>3, <1>4

\* Adding the same time to both sides.
LEMMA Later ==
  ASSUME NEW s \in Int, NEW p \in Nat, NEW m \in Int, 10 * s <= 11 * m
  PROVE  10 * (s + p) <= 10 * p + 11 * m /\ 10 * s <= 10 * p + 11 * m
<1>1. 10 * (s + p) = 10 * p + 10 * s
  OBVIOUS
<1>2. 10 * s <= 10 * p + 10 * s
  OBVIOUS
<1> DEFINE x == 10 * s
          y == 11 * m
          z == 10 * p
<1>3. x \in Int /\ y \in Int /\ z \in Nat /\ x <= y /\ x <= z + x
  BY <1>2
<1> HIDE DEF x, y, z
<1>4. z + x <= z + y /\ x <= z + y
  BY <1>3
<1> QED
  BY <1>1, <1>4 DEF x, y, z

\* What the jitter leaves of a backoff.
LEMMA JitteredFacts ==
  ASSUME NEW b \in Nat, NEW s \in Jittered(b)
  PROVE  s \in Nat /\ 9 * b <= 10 * s /\ 10 * s <= 11 * b
  BY DEF Jittered

LEMMA SleepBounds ==
  ASSUME NEW b \in Nat, NEW s \in Nat, NEW t, t = 0, 9 * b <= 10 * s, 10 * s <= 11 * b
  PROVE  10 * (t + s) <= 11 * b /\ 10 * (t + s) >= 9 * b
<1>1. t + s = s
  OBVIOUS
<1> QED
  BY <1>1

\* The next backoff is a positive number within the bound.
LEMMA NextBackoffFacts ==
  ASSUME current \in 0..MaxBackoff
  PROVE  NextBackoff \in 0..MaxBackoff
  BY TimeAssumption DEF NextBackoff

\* Type correctness: the ticker always has a positive period and the backoff
\* stays within its bound (ticker.Reset in Poller.Start, Backoff.Next).
THEOREM TypeCorrect == Spec => []TypeOK
<1> USE TimeAssumption, IntervalsAssumption DEF TypeOK
<1>1. ASSUME Init PROVE TypeOK
  <2>1. tick \in BOOLEAN /\ reset \in BOOLEAN
    BY <1>1 DEF Init
  <2>2. period \in Nat \ {0} /\ ticker \in 1..period /\ current \in 0..MaxBackoff
    BY <1>1 DEF Init
  <2> QED
    BY <1>1, <2>1, <2>2 DEF Init
<1>2. ASSUME TypeOK, [Next]_vars PROVE TypeOK'
  <2>1. CASE Pass
    <3>1. tick' \in BOOLEAN /\ reset' \in BOOLEAN
      BY <1>2, <2>1 DEF Pass
    <3>2. ticker' \in 1..period /\ sleep' \in Nat /\ since' \in Nat
      BY <1>2, <2>1 DEF Pass
    <3> QED
      BY <1>2, <2>1, <3>1, <3>2 DEF Pass
  <2>2. CASE TakeInterval
    <3>1. tick' \in BOOLEAN /\ reset' \in BOOLEAN
      BY <1>2, <2>2 DEF TakeInterval
    <3>2. slot \in Int /\ Duration(slot) \in Int
      BY <1>2, <2>2, DurationFacts DEF TakeInterval
    <3> QED
      BY <1>2, <2>2, <3>1, <3>2 DEF TakeInterval
  <2>3. CASE StartPoll
    BY <1>2, <2>3 DEF StartPoll
  <2>4. CASE PollOK
    <3>1. slot' \in {i \in Intervals : i > 0} \cup {Empty}
      BY <1>2, <2>4 DEF PollOK, Offers
    <3>2. tick' \in BOOLEAN /\ reset' \in BOOLEAN
      BY <1>2, <2>4 DEF PollOK
    <3> QED
      BY <1>2, <2>4, <3>1, <3>2 DEF PollOK
  <2>5. CASE PollFails
    <3>1. tick' \in BOOLEAN /\ reset' \in BOOLEAN
      BY <1>2, <2>5 DEF PollFails
    <3>2. current' \in 0..MaxBackoff /\ sleep' \in Nat
      BY <1>2, <2>5, NextBackoffFacts DEF PollFails, Jittered
    <3> QED
      BY <1>2, <2>5, <3>1, <3>2 DEF PollFails
  <2>6. CASE BackoffOver
    <3>1. tick' \in BOOLEAN /\ reset' \in BOOLEAN
      BY <1>2, <2>6 DEF BackoffOver
    <3> QED
      BY <1>2, <2>6, <3>1 DEF BackoffOver
  <2>7. CASE Restart
    <3>1. tick' \in BOOLEAN /\ reset' \in BOOLEAN
      BY <2>7 DEF Restart
    <3>2. period' \in Nat \ {0} /\ ticker' \in 1..period' /\ current' \in 0..MaxBackoff
      BY <2>7 DEF Restart
    <3> QED
      BY <2>7, <3>1, <3>2 DEF Restart
  <2>8. CASE UNCHANGED vars
    <3>1. tick' \in BOOLEAN /\ reset' \in BOOLEAN
      BY <1>2, <2>8 DEF vars
    <3> QED
      BY <1>2, <2>8, <3>1 DEF vars
  <2> QED
    BY <1>2, <2>1, <2>2, <2>3, <2>4, <2>5, <2>6, <2>7, <2>8 DEF Next
<1> QED
  BY <1>1, <1>2, PTL DEF Spec

\* Whatever the controller sends, the agent does not panic and the ticker has
\* the period it was sent, unless that does not fit into a time.Duration
\* (newInterval in poll, ticker.Reset in Start).
THEOREM IntervalIsHeld == Spec => []IntervalHeld
<1> USE TimeAssumption, IntervalsAssumption
<1>1. Init => IntervalHeld
  BY DEF Init, IntervalHeld
<1>2. ASSUME TypeOK, IntervalHeld, [Next]_vars PROVE IntervalHeld'
  <2>1. CASE TakeInterval
    <3>1. slot \in Int /\ slot > 0 /\ slot # 0
      BY <1>2, <2>1 DEF TakeInterval, TypeOK
    <3>2. Fits(slot) => Duration(slot) > 0 /\ Duration(slot) = slot * Second
      BY <3>1, DurationFacts
    <3>3. asked' = slot /\ loc = "select"
      BY <2>1 DEF TakeInterval
    <3>4. Fits(asked') = Fits(slot)
      BY <3>3 DEF Fits
    <3>5. Fits(slot) => loc' = "select" /\ period' = slot * Second
      BY <2>1, <3>2, <3>3 DEF TakeInterval
    <3>6. Fits(asked)' = Fits(asked')
      BY DEF Fits
    <3> QED
      BY <3>1, <3>3, <3>4, <3>5, <3>6 DEF IntervalHeld
  <2>2. CASE Restart
    BY <2>2 DEF Restart, IntervalHeld
  <2>3. CASE Pass \/ StartPoll \/ PollOK \/ PollFails \/ BackoffOver \/ UNCHANGED vars
    <3>1. UNCHANGED <<period, asked>> /\ (loc' = "panicked" => loc = "panicked")
      BY <2>3 DEF Pass, StartPoll, PollOK, PollFails, BackoffOver, vars
    <3>2. Fits(asked)' = Fits(asked)
      BY <3>1 DEF Fits
    <3> QED
      BY <1>2, <3>1, <3>2 DEF IntervalHeld
  <2> QED
    BY <1>2, <2>1, <2>2, <2>3 DEF Next
<1> QED
  BY <1>1, <1>2, TypeCorrect, PTL DEF Spec

\* Both bounds on the time since the last poll.
LEMMA BoundsHold == Spec => [](Bounded /\ Waits)
<1> USE TimeAssumption, IntervalsAssumption
<1>1. Init => Bounded /\ Waits
  BY DEF Init, Bounded, Waits, InTime
<1>2. ASSUME TypeOK, Bounded, Waits, [Next]_vars PROVE (Bounded /\ Waits)'
  <2>0. since \in Nat /\ sleep \in Nat /\ current \in Nat /\ period \in Nat /\ ticker \in 1..period
    BY <1>2 DEF TypeOK
  <2>1. CASE Pass
    <3>1. CASE loc = "sleep"
      <4>1. /\ since' = since + 1 /\ sleep' = sleep - 1 /\ sleep > 0
            /\ UNCHANGED <<loc, period, slot, current, reset>>
            /\ ~tick' => ~tick /\ ticker' = ticker - 1
        BY <2>1, <3>1 DEF Pass
      <4>2. since' + sleep' = since + sleep /\ since' + (ticker - 1) = since + ticker
        BY <2>0, <4>1
      <4>3. 10 * since' >= 10 * since
        BY <2>0, <4>1
      <4>4. /\ ~reset /\ 10 * (since + sleep) <= 11 * current
            /\ ~tick => since + ticker <= period
            /\ 10 * (since + sleep) >= 9 * current
        BY <1>2, <3>1 DEF Bounded, Waits
      <4>5. ~tick' => since' + ticker' <= period'
        BY <4>1, <4>2, <4>4
      <4>6. 10 * (since' + sleep') <= 11 * current' /\ 10 * (since' + sleep') >= 9 * current'
        BY <4>1, <4>2, <4>4
      <4> QED
        BY <3>1, <4>1, <4>4, <4>5, <4>6, Zenon DEF Bounded, Waits
    <3>2. CASE loc = "select"
      <4>1. ~tick /\ slot = Empty
        BY <2>1, <3>2 DEF Pass
      <4>2. /\ since' = since + 1 /\ UNCHANGED <<loc, period, slot, current, reset>>
            /\ ~tick' => ticker' = ticker - 1
        BY <2>1, <3>2, <4>1 DEF Pass
      <4>3. /\ ~reset => since + ticker <= period
            /\ reset => 10 * (since + ticker) <= 10 * period + 11 * current
            /\ 10 * since >= 9 * current
        BY <1>2, <3>2, <4>1 DEF Bounded, Waits
      <4>4. since' + (ticker - 1) = since + ticker /\ since' <= since + ticker
        BY <2>0, <4>2
      <4>5. ~reset => since' <= period
        BY <2>0, <4>2, <4>3, <4>4
      <4>6. reset => 10 * since' <= 10 * period + 11 * current
        BY <2>0, <4>2, <4>3, <4>4
      <4>7. InTime'
        <5>1. CASE reset
          BY <4>2, <4>6, <5>1 DEF InTime
        <5>2. CASE ~reset
          BY <4>2, <4>5, <5>2 DEF InTime
        <5> QED
          BY <5>1, <5>2
      <4>8. 10 * since' >= 9 * current'
        BY <2>0, <4>2, <4>3
      <4>9. /\ ~tick' /\ ~reset' => since' + ticker' <= period'
            /\ ~tick' /\ reset' => 10 * (since' + ticker') <= 10 * period' + 11 * current'
        BY <4>2, <4>3, <4>4
      <4> QED
        BY <3>2, <4>1, <4>2, <4>7, <4>8, <4>9 DEF Bounded, Waits
    <3>3. CASE loc = "poll"
      BY <2>1, <3>3 DEF Pass, Bounded, Waits
    <3> QED
      BY <2>1, <3>1, <3>2, <3>3 DEF Pass
  <2>2. CASE TakeInterval
    <3>1. slot \in Int /\ Duration(slot) \in Int /\ 10 * since <= 11 * current
      BY <1>2, <2>2, DurationFacts DEF TakeInterval, TypeOK, Bounded
    <3>2. CASE Duration(slot) > 0
      <4>1. /\ loc = "select" /\ loc' = loc /\ since' = since /\ current' = current /\ reset'
            /\ period' \in Nat /\ ticker' = period' /\ slot' = Empty
        BY <2>2, <3>1, <3>2 DEF TakeInterval
      <4>2. 10 * (since' + ticker') <= 10 * period' + 11 * current'
        <5>1. since \in Int /\ current \in Int /\ period' \in Nat
          BY <2>0, <4>1
        <5>2. 10 * (since + period') <= 10 * period' + 11 * current
          BY <3>1, <5>1, Later
        <5> QED
          BY <4>1, <5>2
      <4>3. InTime'
        BY <3>1, <4>1 DEF InTime
      <4>4. 10 * since' >= 9 * current'
        BY <1>2, <4>1 DEF Waits
      <4> QED
        BY <4>1, <4>2, <4>3, <4>4 DEF Bounded, Waits
    <3>3. CASE ~(Duration(slot) > 0)
      BY <2>2, <3>3 DEF TakeInterval, Bounded, Waits
    <3> QED
      BY <3>2, <3>3
  <2>3. CASE StartPoll
    BY <2>3 DEF StartPoll, Bounded, Waits
  <2>4. CASE PollOK
    <3>1. /\ loc' = "select" /\ current' = 0 /\ since' = 0 /\ ~reset'
          /\ UNCHANGED <<period, ticker, tick>>
      BY <2>4 DEF PollOK
    <3> QED
      BY <2>0, <3>1 DEF Bounded, Waits, InTime
  <2>5. CASE PollFails
    <3>1. NextBackoff \in 0..MaxBackoff
      BY <1>2, NextBackoffFacts DEF TypeOK
    <3>2. /\ loc' = "sleep" /\ since' = 0 /\ current' = NextBackoff /\ ~reset'
          /\ sleep' \in Jittered(NextBackoff) /\ UNCHANGED <<period, ticker>>
      BY <2>5 DEF PollFails
    <3> DEFINE b == NextBackoff
    <3>3. b \in Nat
      BY <3>1
    <3> HIDE DEF b
    <3>4. sleep' \in Jittered(b) /\ current' = b
      BY <3>2 DEF b
    <3>5. sleep' \in Nat /\ 9 * b <= 10 * sleep' /\ 10 * sleep' <= 11 * b
      BY <3>3, <3>4, JitteredFacts
    <3>6. 10 * (since' + sleep') <= 11 * current' /\ 10 * (since' + sleep') >= 9 * current'
      BY <3>2, <3>3, <3>4, <3>5, SleepBounds
    <3>7. since' + ticker' <= period'
      BY <2>0, <3>2
    <3> QED
      BY <3>2, <3>6, <3>7 DEF Bounded, Waits
  <2>6. CASE BackoffOver
    <3>1. /\ loc = "sleep" /\ sleep = 0 /\ loc' = "select"
          /\ UNCHANGED <<period, ticker, tick, slot, current, since, reset>>
      BY <2>6 DEF BackoffOver
    <3>2. since + sleep = since
      BY <2>0, <3>1
    <3>3. /\ 10 * since <= 11 * current /\ 10 * since >= 9 * current
          /\ ~reset /\ (~tick => since + ticker <= period)
      BY <1>2, <3>1, <3>2 DEF Bounded, Waits
    <3> QED
      BY <3>1, <3>3 DEF Bounded, Waits, InTime
  <2>7. CASE Restart
    BY <2>7 DEF Restart, Bounded, Waits, InTime
  <2>8. CASE UNCHANGED vars
    BY <1>2, <2>8 DEF vars, Bounded, Waits, InTime
  <2> QED
    BY <1>2, <2>1, <2>2, <2>3, <2>4, <2>5, <2>6, <2>7, <2>8 DEF Next
<1> QED
  BY <1>1, <1>2, TypeCorrect, PTL DEF Spec

\* The next poll comes when the longer of the period and the jittered backoff is
\* over, or both together after a late interval (the ticker, ticker.Reset and
\* time.After in Poller.Start).
THEOREM NextPollComesInTime == Spec => []NextPollInTime
<1>1. ASSUME TypeOK, Bounded PROVE NextPollInTime
  <2>1. CASE loc = "select"
    BY <1>1, <2>1 DEF Bounded, NextPollInTime, InTime
  <2>2. CASE loc = "sleep"
    <3>1. since \in Nat /\ sleep \in Nat /\ current \in Nat
      BY <1>1 DEF TypeOK
    <3>2. 10 * (since + sleep) <= 11 * current /\ 10 * since <= 10 * (since + sleep)
      BY <1>1, <2>2, <3>1 DEF Bounded
    <3> QED
      BY <3>1, <3>2 DEF NextPollInTime
  <2> QED
    BY <2>1, <2>2 DEF NextPollInTime
<1> QED
  BY <1>1, TypeCorrect, BoundsHold, PTL

\* After a failure the controller is left alone for the backoff less ten
\* percent, also when a tick is waiting (time.After in Poller.Start).
THEOREM RetriesWait == Spec => RetryWaits
<1>1. ASSUME Waits PROVE (loc = "select" /\ loc' = "poll") => 10 * since >= 9 * current
  BY <1>1 DEF Waits
<1> QED
  BY <1>1, BoundsHold, PTL DEF Spec, RetryWaits
=============================================================================
