----------------------------- MODULE PollAgent -----------------------------
(***************************************************************************)
(* One agent with the POLLER strategy, its worker and its cache file:      *)
(* agent/cmd/main.go, agent/internal/poller/poller.go,                     *)
(* agent/internal/worker/manager.go, agent/internal/backoff/backoff.go.    *)
(* Agents share nothing but the controller, which they only read, so one   *)
(* agent stands for each of them.  The controller is VersionedRegister:    *)
(* one row, every update of it the next version.                           *)
(*                                                                         *)
(* Time is abstracted: a ticker or a timer fires at some moment after it   *)
(* was armed.  The poll loop is one goroutine; its blocking calls (GET to  *)
(* the controller, POST to the worker, writing the file) are its steps, so *)
(* that updates, crashes and restarts can come between them.               *)
(***************************************************************************)
EXTENDS VersionedRegister

CONSTANTS
  DefaultPeriod,  \* the pollInterval of NewPoller (30)
  MaxBackoff,     \* the MaxInterval of the backoff (300), in seconds
  Faults,         \* which of FaultKinds may happen
  MaxFaults,      \* bound: how many faults a behaviour has
  MaxVersion,     \* bound: no update once the row has this version
  NoConfig,       \* no row: nothing cached, or nothing configured yet
  Torn,           \* a cache file that is not valid JSON
  Empty           \* updateIntervalCh is empty

FaultKinds == {
  "poll",           \* a request to the controller fails or is answered 500
  "forward",        \* a POST to the worker fails before it takes effect
  "forwardReply",   \* a POST to the worker takes effect, its answer is lost
  "agentCrash",     \* the agent process ends at any point
  "workerRestart",  \* the worker, whose store is in memory, restarts
  "stall",          \* the worker accepts connections and does not answer
  "outage",         \* the controller goes down
  "disk" }          \* the cache file cannot be opened or written

ASSUME IntervalsAssumption == Intervals \subseteq Int
ASSUME PeriodAssumption == DefaultPeriod \in Nat \ {0} /\ MaxBackoff \in Nat \ {0}
ASSUME FaultsAssumption == Faults \subseteq FaultKinds /\ MaxFaults \in Nat
ASSUME VersionAssumption == MaxVersion \in Nat
ASSUME MarkersAssumption ==
  /\ NoConfig \notin Row /\ Torn \notin Row /\ NoConfig # Torn
  /\ Empty \notin Int

VARIABLES
  up,       \* the controller answers
  pc,       \* where the agent process is; "down" when it does not run
  ver,      \* Poller.currentVersion
  resp,     \* the local configResp of poll and of loadCache
  period,   \* Poller.pollInterval, the period of the ticker
  pending,  \* the slot of updateIntervalCh (capacity 1)
  backoff,  \* Backoff.currentInterval, in seconds
  cache,    \* the cache file
  worker,   \* what the worker stores (it keeps the data only; the rest of the
            \* row is a history variable that says which update it was)
  missed,   \* history variable: the last configuration forwarded to the worker
            \* never arrived, or a restart of the worker has wiped it
  stalled,  \* the worker does not answer (a process that is stopped)
  late,     \* a POST of an agent that has died, which a stalled worker has yet
            \* to read; a further one replaces it (bound: one at a time)
  overtaken,\* history variable: such a POST was the last to reach the worker
  budget    \* faults still to come

agent == <<pc, ver, resp, period, pending, backoff>>
link  == <<missed, stalled, late, overtaken>>
vars  == <<row, up, agent, cache, worker, link, budget>>

Starting == {"register", "load", "loadForward"}
Polling  == {"select", "request", "response", "forward", "save", "write",
             "offer", "wait"}

Forwarding == {"loadForward", "forward"}

Periods == {DefaultPeriod} \cup {i \in Intervals : i > 0}

TypeOK ==
  /\ row \in Row
  /\ up \in BOOLEAN
  /\ pc \in {"down"} \cup Starting \cup Polling
  /\ ver \in Nat
  /\ resp \in Row \cup {NoConfig}
  /\ period \in Periods
  /\ pending \in Periods \cup {Empty}
  /\ backoff \in 0..MaxBackoff
  /\ cache \in Row \cup {NoConfig, Torn}
  /\ worker \in Row \cup {NoConfig}
  /\ missed \in BOOLEAN
  /\ stalled \in BOOLEAN
  /\ late \in Row \cup {NoConfig}
  /\ overtaken \in BOOLEAN
  /\ budget \in 0..MaxFaults

-----------------------------------------------------------------------------
\* The fields of a Poller that was just created.
NewPoller ==
  /\ ver' = 0
  /\ resp' = NoConfig
  /\ period' = DefaultPeriod
  /\ pending' = Empty
  /\ backoff' = 0

Init ==
  /\ RegisterInit
  /\ up \in BOOLEAN
  /\ pc = "down"
  /\ ver = 0
  /\ resp = NoConfig
  /\ period = DefaultPeriod
  /\ pending = Empty
  /\ backoff = 0
  /\ cache = NoConfig
  /\ worker = NoConfig
  /\ missed = FALSE
  /\ stalled = FALSE
  /\ late = NoConfig
  /\ overtaken = FALSE
  /\ budget = MaxFaults

Fault(kind) == kind \in Faults /\ budget > 0 /\ budget' = budget - 1

Goto(l) == pc' = l

\* Backoff.Next without its jitter, which is not stored.
NextBackoffUnbounded == IF backoff = 0 THEN 1 ELSE 2 * backoff
NextBackoff ==
  IF backoff = 0 THEN 1
  ELSE IF 2 * backoff > MaxBackoff THEN MaxBackoff ELSE 2 * backoff

\* The cache file is there and parses.
HasCache == cache \notin {NoConfig, Torn}

\* poll returned an error: Start computes the next backoff and sleeps.
PollError ==
  /\ backoff' = NextBackoff
  /\ Goto("wait")

\* The answer of the worker to ForwardConfig, and what it does to the worker.
\* The client has no timeout: while the worker is stalled there is no answer.
Applied ==
  /\ ~stalled
  /\ worker' = resp
  /\ missed' = FALSE
  /\ overtaken' = FALSE
  /\ UNCHANGED <<stalled, late>>

Delivered   == Applied /\ UNCHANGED budget
ReplyLost   == Applied /\ Fault("forwardReply")
Undelivered == missed' = TRUE /\ UNCHANGED <<worker, stalled, late, overtaken>>
                 /\ Fault("forward")

-----------------------------------------------------------------------------
(* The controller, the worker and the machine.                              *)

AdminUpdate ==
  /\ up
  /\ row.version < MaxVersion
  /\ \E d \in Data, i \in Intervals : Set(d, i)
  /\ UNCHANGED <<up, agent, cache, worker, link, budget>>

ControllerStops ==
  /\ up
  /\ Fault("outage")
  /\ up' = FALSE
  /\ UNCHANGED <<row, agent, cache, worker, link>>

ControllerStarts ==
  /\ ~up
  /\ up' = TRUE
  /\ UNCHANGED <<row, agent, cache, worker, link, budget>>

WorkerRestarts ==
  /\ Fault("workerRestart")
  /\ worker' = NoConfig
  /\ missed' = TRUE
  /\ stalled' = FALSE
  /\ late' = NoConfig
  /\ overtaken' = FALSE
  /\ UNCHANGED <<row, up, agent, cache>>

WorkerStalls ==
  /\ ~stalled
  /\ Fault("stall")
  /\ stalled' = TRUE
  /\ UNCHANGED <<row, up, agent, cache, worker, missed, late, overtaken>>

WorkerResumes ==
  /\ stalled
  /\ stalled' = FALSE
  /\ UNCHANGED <<row, up, agent, cache, worker, missed, late, overtaken, budget>>

\* The worker reads a POST whose sender is gone, whatever it got meanwhile.
LateArrives ==
  /\ ~stalled
  /\ late # NoConfig
  /\ worker' = late
  /\ late' = NoConfig
  /\ overtaken' = TRUE
  /\ UNCHANGED <<row, up, agent, cache, missed, stalled, budget>>

\* A POST that a stalled worker has not read may be read later.
AgentCrash ==
  /\ pc # "down"
  /\ Fault("agentCrash")
  /\ Goto("down")
  /\ NewPoller
  /\ late' \in IF stalled /\ pc \in Forwarding THEN {late, resp} ELSE {late}
  /\ UNCHANGED <<row, up, cache, worker, missed, stalled, overtaken>>

-----------------------------------------------------------------------------
(* Faulty variants of actions below, one plausible slip each (the one-line  *)
(* variants of the helpers stand next to them).  No specification uses      *)
(* them; each shows that a property would notice the slip.                  *)

\* loadCache records the version and forgets to forward.
LoadCacheNotForwarded ==
  /\ pc = "load"
  /\ Goto("select")
  /\ ver' = IF HasCache THEN cache.version ELSE ver
  /\ UNCHANGED <<row, up, resp, period, pending, backoff, cache, worker, link, budget>>

\* A cache file that does not parse is fatal.
LoadCacheFatal ==
  /\ pc = "load"
  /\ Goto(IF cache = Torn THEN "down" ELSE IF HasCache THEN "loadForward" ELSE "select")
  /\ IF HasCache THEN ver' = cache.version /\ resp' = cache ELSE UNCHANGED <<ver, resp>>
  /\ UNCHANGED <<row, up, period, pending, backoff, cache, worker, link, budget>>

\* A failed request falls back to the cached configuration.
RequestFailsToCache ==
  /\ pc = "request"
  /\ HasCache
  /\ IF up THEN Fault("poll") ELSE UNCHANGED budget
  /\ resp' = cache
  /\ Goto("response")
  /\ UNCHANGED <<row, up, ver, period, pending, backoff, cache, worker, link>>

\* An unchanged version ends the poll before the interval is looked at.
RespondEndsEarly ==
  /\ pc = "response"
  /\ IF resp.version # ver
       THEN ver' = resp.version /\ Goto("forward")
       ELSE Goto("select") /\ UNCHANGED ver
  /\ UNCHANGED <<row, up, resp, period, pending, backoff, cache, worker, link, budget>>

\* The error of ForwardConfig is logged but not returned.
ForwardFailsUnnoticed ==
  /\ pc = "forward"
  /\ ReplyLost \/ Undelivered
  /\ Goto("save")
  /\ UNCHANGED <<row, up, ver, resp, period, pending, backoff, cache>>

-----------------------------------------------------------------------------
(* Start of the agent: register, then load and forward the cached config.   *)

AgentStart ==
  /\ pc = "down"
  /\ Goto("register")
  /\ NewPoller
  /\ UNCHANGED <<row, up, cache, worker, link, budget>>

Register ==
  /\ pc = "register"
  /\ up
  /\ Goto("load")
  /\ UNCHANGED <<row, up, ver, resp, period, pending, backoff, cache, worker, link, budget>>

\* Fatalf: the process exits, before it has looked at the cache.
RegisterFails ==
  /\ pc = "register"
  /\ IF up THEN Fault("poll") ELSE UNCHANGED budget
  /\ Goto("down")
  /\ UNCHANGED <<row, up, ver, resp, period, pending, backoff, cache, worker, link>>

LoadCache ==
  /\ pc = "load"
  /\ IF HasCache
       THEN Goto("loadForward") /\ ver' = cache.version /\ resp' = cache
       ELSE Goto("select") /\ UNCHANGED <<ver, resp>>
  /\ UNCHANGED <<row, up, period, pending, backoff, cache, worker, link, budget>>

\* Any outcome lets Start go on; an error is only logged.
ForwardCached ==
  /\ pc = "loadForward"
  /\ Delivered \/ ReplyLost \/ Undelivered
  /\ Goto("select")
  /\ UNCHANGED <<row, up, ver, resp, period, pending, backoff, cache>>

-----------------------------------------------------------------------------
(* The poll loop.                                                           *)

\* The two cases of select; Go chooses at random when both are ready.
TakeInterval ==
  /\ pc = "select"
  /\ pending # Empty
  /\ period' = pending
  /\ pending' = Empty
  /\ UNCHANGED <<row, up, pc, ver, resp, backoff, cache, worker, link, budget>>

Tick ==
  /\ pc = "select"
  /\ Goto("request")
  /\ UNCHANGED <<row, up, ver, resp, period, pending, backoff, cache, worker, link, budget>>

\* GetConfig at the controller; it never answers 304.
Request ==
  /\ pc = "request"
  /\ up
  /\ resp' = row
  /\ Goto("response")
  /\ UNCHANGED <<row, up, ver, period, pending, backoff, cache, worker, link, budget>>

\* No connection, a timeout, a status other than 200, a body cut off.
RequestFails ==
  /\ pc \in {"request", "response"}
  /\ IF pc = "request" /\ ~up THEN UNCHANGED budget ELSE Fault("poll")
  /\ PollError
  /\ UNCHANGED <<row, up, ver, resp, period, pending, cache, worker, link>>

IsChangeByTwo == resp.version > ver + 1
IsChange == resp.version # ver

Respond ==
  /\ pc = "response"
  /\ IF IsChange
       THEN ver' = resp.version /\ Goto("forward")
       ELSE Goto("offer") /\ UNCHANGED ver
  /\ UNCHANGED <<row, up, resp, period, pending, backoff, cache, worker, link, budget>>

ForwardOK ==
  /\ pc = "forward"
  /\ Delivered
  /\ Goto("save")
  /\ UNCHANGED <<row, up, ver, resp, period, pending, backoff, cache>>

ForwardFails ==
  /\ pc = "forward"
  /\ ReplyLost \/ Undelivered
  /\ PollError
  /\ UNCHANGED <<row, up, ver, resp, period, pending, cache>>

\* os.WriteFile truncates the file before it writes it.
TruncateCache ==
  /\ pc = "save"
  /\ cache' = Torn
  /\ Goto("write")
  /\ UNCHANGED <<row, up, ver, resp, period, pending, backoff, worker, link, budget>>

WriteCache ==
  /\ pc = "write"
  /\ cache' = resp
  /\ Goto("offer")
  /\ UNCHANGED <<row, up, ver, resp, period, pending, backoff, worker, link, budget>>

\* An error of WriteFile is only logged; the file stays as it is by then.
SaveFails ==
  /\ pc \in {"save", "write"}
  /\ Fault("disk")
  /\ Goto("offer")
  /\ UNCHANGED <<row, up, ver, resp, period, pending, backoff, cache, worker, link>>

NewInterval == resp.interval > 0 /\ resp.interval # period

\* The end of a successful poll: a send that gives up when the slot is taken.
OfferInterval ==
  /\ pc = "offer"
  /\ pending' = IF NewInterval /\ pending = Empty THEN resp.interval ELSE pending
  /\ backoff' = 0
  /\ Goto("select")
  /\ UNCHANGED <<row, up, ver, resp, period, cache, worker, link, budget>>

BackoffOver ==
  /\ pc = "wait"
  /\ Goto("select")
  /\ UNCHANGED <<row, up, ver, resp, period, pending, backoff, cache, worker, link, budget>>

-----------------------------------------------------------------------------
Startup == Register \/ RegisterFails \/ LoadCache \/ ForwardCached

Poll ==
  \/ Tick
  \/ Request
  \/ RequestFails
  \/ Respond
  \/ ForwardOK
  \/ ForwardFails
  \/ TruncateCache
  \/ WriteCache
  \/ SaveFails
  \/ OfferInterval
  \/ BackoffOver

Environment ==
  \/ AdminUpdate
  \/ ControllerStops
  \/ ControllerStarts
  \/ WorkerRestarts
  \/ WorkerStalls
  \/ WorkerResumes
  \/ LateArrives
  \/ AgentCrash

Next == Environment \/ AgentStart \/ Startup \/ TakeInterval \/ Poll

(***************************************************************************)
(* The agent's goroutine keeps running and its container is restarted      *)
(* (restart: unless-stopped).  Go's select chooses uniformly among the     *)
(* cases that are ready, so a case that is ready again and again is taken: *)
(* strong fairness for the interval case.                                  *)
(***************************************************************************)
Fairness ==
  /\ WF_vars(AgentStart)
  /\ WF_vars(Startup)
  /\ WF_vars(TakeInterval \/ Poll)
  /\ SF_vars(TakeInterval)

\* An outage of the controller may last for ever.
OutageSpec == Init /\ [][Next]_vars /\ Fairness

\* The controller is always brought back.
Spec == OutageSpec /\ WF_vars(ControllerStarts)

-----------------------------------------------------------------------------
(* Properties.                                                              *)

\* What the agent believes is what the worker has: outside of a forward in
\* progress, a version the agent has recorded is the version the worker runs,
\* unless the worker never got it, has lost it since or was given another one by
\* an agent that is gone.
InSync ==
  (pc \in Polling \ {"forward"} /\ ver > 0)
    => missed \/ overtaken \/ (worker # NoConfig /\ worker.version = ver)

\* A poll that ends without an error has left the worker with the very configuration
\* the controller answered, also when it forwarded nothing because the version was
\* the one it had recorded; the same exceptions.
PollDelivers == pc = "offer" => missed \/ overtaken \/ worker = resp

\* Only what the worker has received is cached, so a restart of the agent never
\* takes the worker to a configuration it skipped: the cached version is not
\* above the worker's, unless a late POST has taken the worker back.
CacheWasDelivered ==
  (HasCache /\ worker # NoConfig /\ ~overtaken) => cache.version <= worker.version

\* The worker goes back to an older configuration only when an agent that has
\* just started forwards its cache, or by a late POST of its predecessor;
\* polling never takes it back.
NoRegressByPolling ==
  [][(pc # "loadForward" /\ ~overtaken' /\ worker # NoConfig /\ worker' # NoConfig)
       => worker'.version >= worker.version]_vars

WorkerIsCurrent == worker # NoConfig /\ worker.data = row.data

\* Once updates and faults are over the worker has the active configuration.
Converges == <>[]WorkerIsCurrent

\* Why a worker may be left behind for good: the last forward to it was lost, it
\* restarted or took a late POST after that forward, or it does not answer.
LeftBehind == missed \/ overtaken \/ stalled

\* The worker has the active configuration in the end, but for those reasons: no
\* other fault, and no order of faults, updates and restarts of the agent,
\* leaves it behind.
ConvergesUnlessMissed == <>[](LeftBehind \/ WorkerIsCurrent)

\* ... and the agent polls at the interval the controller asks for, although a
\* new interval is dropped when an older one is still in the channel.
IntervalConverges == <>[](stalled \/ (row.interval > 0 => period = row.interval))

\* An agent never stops asking the controller, through outages, torn cache files
\* and restarts; only a worker that takes a POST and never answers stops it (the
\* client of ForwardConfig has no timeout).
KeepsPolling == []<>(pc = "request") \/ <>[]stalled

\* An agent that starts with a cached configuration hands it to its worker,
\* even when the controller cannot be reached.
CacheFallback == (pc = "register" /\ HasCache) ~> (worker # NoConfig)
=============================================================================
