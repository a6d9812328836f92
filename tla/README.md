# Verification of the configuration management system

TLA+ models of the controller, the agents and the workers of this repository,
the TLC configurations that check them and the TLAPS proofs about them.  Paths
are relative to the repository.

## 1. The system

A **controller** (Go, gin, SQLite) keeps one global worker configuration.  An
**agent** next to each worker fetches it, by polling or over Redis or NATS, and
hands it to its **worker**, which runs `GET <url>` on demand.

| component | state | operations | hard behaviour |
|---|---|---|---|
| configuration store, `controller/internal/database/database.go`, `controller/internal/api/handlers.go` | tables `active_config` (one row) and `configurations` (version UNIQUE) | `New`/`migrate` at every start, `UpdateConfig` (SELECT, UPDATE, INSERT), `GetActiveConfig` | a goroutine per request, three statements without a transaction, a failing statement, the process ending in between |
| agent registry, same files | table `agents` | `RegisterAgent`, `GetAllAgents`, `UpdateAgentPoll` (never called) | every start of an agent adds a row |
| polling agent, `agent/cmd/main.go`, `agent/internal/poller/poller.go`, `agent/internal/backoff` , `agent/internal/worker` | `currentVersion`, `pollInterval`, the one-slot `updateIntervalCh`, the backoff, the cache file | register, load and forward the cache, poll, forward, save, retry | crashes and torn files, lost calls and answers, an interval dropped from a full channel, a controller that is away |
| publishing, the end of `Handler.UpdateConfig`, `pkg/redis`, `pkg/nats` | the broker client; `latest_config` in Redis | check the connection, publish, store | outside any lock, best effort, never repeated |
| subscribing agent, `agent/internal/poller/distribution.go` | `lastVersion`, a channel of ten slots (Redis), the library's queue (NATS) | subscribe, receive, handle, forward | dropped when full, lost while away, any *different* version accepted |
| worker, `worker/internal` | the configuration, in memory, behind an RWMutex | `POST /config`, `GET /hit`, `GET /health` | restart wipes it; a hit uses a copy it took while an update was being stored |
| authentication, agent settings, `pkg/auth`, `agent/internal/config` | none over time | create and validate a header; environment, `config.yaml`, default | user names with a colon; settings that do not fit the controller's |
| logger, generated API docs, deployment files | none | | |

Interactions: agents call the controller (`POST /register`, `GET /config`) and
their worker (`POST /config`); administrators call `POST /config` at any time,
several at once; controller and agents share the broker.  Agents share nothing
with each other, so a single one is modelled wherever no property relates two.

What makes the parts correct: every update gets a version of its own and the
version never goes back (agents detect changes by comparing versions); the
history is complete and true; what an agent believes its worker runs is what
it runs; the cache never leads a worker to something it was not given; a
worker ends up with the active configuration; with a broker, a worker only runs
what was recorded, and everything not lost arrives, in order; hits see whole
configurations and never an older one than was acknowledged; polls come in time
and retries wait; only agents with the right credentials register, and one that
is set up like its controller hears from it.

## 2. Modules

| module | models | builds on |
|---|---|---|
| `VersionedRegister` | what the agents rely on: one row, each update the next version | |
| `ConfigStore` | the store and the database part of the update handler | refines `VersionedRegister` (serial case) |
| `PollAgent` | one agent with the POLLER strategy, its worker and cache file | extends `VersionedRegister` |
| `PollOverStore` | the composition of the two: the agent over the store it really polls | extends `ConfigStore`, instantiates `PollAgent` |
| `PollTimer` | when the poll loop polls: ticker, interval channel, backoff, `time.Duration` | |
| `ConfigRegister` | what the worker promises: one register | |
| `WorkerStore` | the worker's handlers over its mutex and memory | refines `ConfigRegister` |
| `AgentRegistry` | how an agent joins: settings, authentication, registration, listing, choice and start of a distributor | |
| `Broadcast` | publishing, the broker, subscribing agents and their workers | extends `ConfigStore` |
| `MC...` | instances for TLC | |
| `...Proofs` | theorems | extend the module they are about |

### ConfigStore

`active`, `history` are the two tables.  `pc[a]`, `req[a]`, `read[a]` are the
program counter and the locals (`config`/`pollInterval`, `currentVersion`) of
the handler goroutine of caller `a`; a caller has one request at a time, so the
number of callers is the number of overlapping requests.  Each SQL statement is
one atomic step (`SetMaxOpenConns(1)` serialises statements, not calls):
`SelectVersion`, `UpdateActive`, `InsertHistory` or, when UNIQUE refuses it,
`InsertConflict`.  `StatementFails` is an error from any of the three, after
which nothing is undone.  `Crash` loses the goroutines and keeps the tables;
`Boot` is `New` and `migrate`, which stores the first row only into an empty
table.  `published`, `acked` and `interrupted` are history variables: rows ever
active, updates answered 200, versions whose INSERT never ran.
`Spec` has every interleaving.  `SerialSpec` is the same system when a request
only starts after the previous one has ended.

### PollAgent

`pc` follows the one goroutine from `main` through `Poller.Start`; a step is one
blocking call or the code up to the next, so updates, crashes and restarts come
in between.  `ver`, `period`, `pending`, `backoff` are the fields of `Poller`
and `Backoff`; `cache` is the file, `Torn` after `os.WriteFile` has truncated it
(`TruncateCache`) and before it has written it (`WriteCache`).  `worker` is what
the worker stores; it keeps the data only, the version of the row in the model
says which update it was.  A forward either takes effect and is answered, takes
effect and the answer is lost, or never takes effect; while the worker is
`stalled` (it accepts connections and does not answer) a forward does not end,
since the client in `manager.go` has no timeout.  A POST whose sender dies
meanwhile stays in `late` and is read later, whatever the worker got since.
`missed` (the last forward did not take effect, or the worker has restarted
since) and `overtaken` (such a late POST came last) are history variables.
Faults come from a budget (`MaxFaults`), of the kinds in `Faults`.

### PollOverStore

`ConfigStore` with the variables of an agent; `Agent` is `PollAgent` with its
register replaced by the row a SELECT would return (`Current`).  Start and crash
of the controller are one joint step of both; a statement of an update is a step
of the store, anything else of the agent a step of `PollAgent`.  `Wipe` removes
the database while the controller is down (docs/DOCKER.md tells how), the agents
and workers of other machines stay: versions start at 1 again.  `overlapped`,
`retired` and `wipes` are history variables.

### PollTimer

Discrete time; `ticker`, `sleep` are what is left, `tick` and `slot` the two
one-slot channels.  The ticker drops a tick that finds its channel full and
`Reset` does not drain it (go.mod asks for Go 1.21).  A poll takes any time and
succeeds or fails.  `Duration` is the product with its wrap-around at a width
`Half`; `ticker.Reset` panics on a period that is not positive.  `since`,
`reset` (the ticker was reset since the last poll ended) and `asked` are history
variables.

### WorkerStore

A goroutine per request (`Clients`).  The configuration is a Go string: two
words, then the flag, stored and loaded one after the other, so that only the
RWMutex keeps a reader from half an update.  The mutex is external and modelled
as its documentation and the code need it: a waiting writer keeps new readers
out, an unlock lets in every reader that waits before the next writer.  `Stop`
and `Exit` are SIGTERM and the end, with or without requests in flight.

### AgentRegistry

A deployment (`Deployments`) gives the controller its environment and each agent
its environment and `config.yaml`.  An agent registers (the middleware
validates), the handler inserts over the one connection of the pool and answers,
the agent creates and starts its distributor; each `Fatalf` is a way down, an
error of `Start` is only logged and leaves a process that does nothing
(`zombie`).  `GetAgents` holds the connection from `Query` to `LastRow`.  Ids are
counted in the order `uuid.New` makes them, and `Insert` is refused an id that is
there (PRIMARY KEY).  A credential is a sequence of characters.

`Offered` is what the controller sends on: over HTTP always, and over the broker
while it has a client (`connected`) and the broker answers, the two together being
`IsConnected`.  `Channel` is what an agent listens to.  A NATS connection is closed
for good after ten attempts to reconnect, on the controller's side
(`ControllerGivesUp`) and on an agent's (`LinkGivesUp`, `closed`); neither process
ends.  An agent `Hears` when it runs, its connection is not closed and its channel
is offered.

### Broadcast

Adds to `ConfigStore`, for REDIS and NATS (`strategy`, chosen in the initial
state): after the INSERT the handler checks the connection, publishes, under
REDIS also writes `latest_config`, and only then answers (`todo[a]`).  The
broker hands a message to whoever is subscribed (`link[g] = "on"`); `wire[g]`
is what is between broker and agent, `slots[g]` the channel (`Capacity` slots
under REDIS, unbounded under NATS), `inhand[g]` the message being forwarded.
The receiving goroutine (`Receive`, `ReceiveDropped`) and the handler (`Handle`,
`ForwardArrives`, `ForwardFails`) interleave.  The forward is the one of
`PollAgent`: while the worker is `stalled` it does not end, and a POST whose sender
dies meanwhile stays in `late[g]` until the worker reads it (`LateArrives`), whatever
the next agent has forwarded by then; `late[g]` is a set, so equal POSTs count as
one, which changes nothing but how often the same configuration is stored.  Servers and client libraries are
external and are modelled by what the code relies on: in order, at most once per
publication; go-redis repeats a command whose reply was lost, so a publication
may come twice (`PublishRetried`); both libraries subscribe again after a
reconnect; NATS gives up after ten attempts (`ClientGivesUp`, `LinkGivesUp`).
`newest`, `dropped`, `failed`, `overlapped` and `overtaken` (a late POST was the
last to reach the worker) are history variables.

Definitions named `...Unchecked`, `...OldVersion`, `...Unnoticed` and the like,
marked as faulty variants, belong to no specification.  Each puts one plausible
slip into an action; replacing the action by it makes TLC report the property
named in PROJECT.json, which shows that the property depends on the code.

## 3. Runs

Deadlock is checked in every run.

| run | question | bounds |
|---|---|---|
| `store_concurrent` | what still holds when updates overlap: history true and without gaps of its own making, acknowledged updates recorded once | 3 callers, 2 configurations, no request started at version 3, crashes; callers symmetric |
| `store_serial` | without overlap: implements the versioned register, version identifies the row, acknowledged is active or superseded, version never back | 2 callers, 2 configurations, 2 intervals, 4 versions, crashes, failing statements |
| `agent` | agent and worker agree; a poll without an error has delivered; cache never ahead; polling never takes a worker back; worker, interval and poll loop converge but for named reasons | all eight kinds of faults, 3 of them, 3 versions, intervals 0, 5, 30 |
| `poll_over_store` | without overlap and wipe the composition is `PollAgent` and polls see what was acknowledged; otherwise a poll without an error has delivered and the agent misses a configuration only under an ambiguous version | 2 callers, 2 configurations, 2 versions, 1 wipe, 2 crashes of agent or controller |
| `poll_timer` | no panic and the right period unless the interval does not fit; polls in time; retries wait | a second of 10 units, backoff up to 4 s, intervals 0, 1, 5 s and two that wrap, to a negative and to a tiny positive period |
| `worker_store` | linearizable; whoever waits for the lock waits for one that can go on; updates end | 3 requests at a time, 2 configurations |
| `agent_registry` | who registers; what a listing shows; that registrations end; who ends up listening where the controller sends | 2 agents, 16 deployments, 3 rows, 2 faults |
| `broadcast_safety` | workers run what is recorded; what is not lost arrives; agents compare with what they delivered; without overlap only a late POST takes a worker back | 2 callers, 1 agent, both strategies, `Capacity` 1, crashes, 2 faults of the eight kinds |
| `store_version_ambiguous`, `agent_forward_fails`, `agent_outage`, `broadcast_no_fallback` | the disagreements of section 6 | the smallest instance that shows them |

Why these bounds: a version goes back only with three overlapping requests (two
that share a version and a third between them), hence three callers; a refused
INSERT needs two.  Two posted configurations make "same version, different data"
visible.  For agents the interesting sequences are pairs and triples of faults
(a crash between truncate and write, or a lost answer, then another crash before
the next save; a stalled worker and the death of its agent, which together make a
late POST), three versions distinguish skipped, old and current.  In
`poll_over_store` one overlap or one wipe and a second version already make
every kind of ambiguity, and two crashes let a restart of the agent follow it;
forwards are not lost in this run, so that ambiguity is the only way to be left
behind.  In `poll_timer` the longest backoff is reached after three failures and outlasts several ticks, and the
periods are below, equal to and above it.  Two readers and a writer, or two
writers and a reader, are all the roles a lock has to keep apart.  In
`agent_registry` the second agent only runs in the deployment where both have
the default settings, since their only common state is table and connection;
the other deployments vary one setting each, and credentials that clash.  A channel of one slot overflows with the second message that ten slots
would need eleven for; two faults allow a repeated publication and a loss of one
of the copies, or a stalled worker and the death of the agent that forwards to it,
after which the next agent's forward and the late POST come in either order.  `broadcast_safety` posts one configuration only, since its
properties compare entries by version and the theorems cover the data;
`latest_config` does not expire in the model as nobody reads it.  `MaxVersion`
only guards the start of an update, so a request in flight always finishes.

## 4. Fairness

Safety needs none.  Liveness assumes what the deployment gives:

* every goroutine that can run does (weak fairness of the start-up and of the
  poll loop, of receiver and handler);
* containers are restarted: `restart: unless-stopped` in the compose files
  (`WF(AgentStart)`, and in `PollAgent!Spec` `WF(ControllerStarts)`).
  `OutageSpec` drops the latter: a controller may stay away for ever;
* Go's `select` picks uniformly among ready cases, so an interval that waits in
  the channel is taken in the end although a tick is ready each time:
  `SF(TakeInterval)`;
* faults are finitely many and updates end, because of the bounds.  Liveness
  says what holds once they have.

No fairness is put on the environment: updates, faults, crashes, wipes and the
resumption of a stalled worker never have to happen.  In `WorkerStore` a writer
gets the mutex in the end although others take it first (the starvation mode of
`sync.Mutex`): `SF(Lock)`; a target answers or the client of `proxy.go`
gives up after thirty seconds.  In `AgentRegistry` a statement that waits for the
connection gets it in the end (`database/sql` queues its callers): `SF(Insert)`.
`PollTimer` checks no liveness: what it says of time is an invariant.

## 5. What is proved

TLAPS checks these for every value of the constants (any number of callers,
agents, versions, faults; any `Capacity`), from the named assumptions in the
modules, which only give the constants their types and keep the marker values
apart from data.

`ConfigStoreProofs` — with `TypeInv` (types, and `Ready`: a handler only runs
while the process does, which only runs once there is a row):

* `HistoryTrue`, via `HistoryInv`: a handler past its UPDATE has published its row;
* `AcknowledgedOnce`: inductive with the types, because the handlers in `stored`
  are part of it: their entry is recorded and nobody else holds that version;
* `NoVersionLost` (`GapsAreInterruptions`): inductive with the types; a gap is
  always covered by a handler that is about to insert, or by `interrupted`;
* for `SerialSpec`, from `SerialInv` (at most one handler in flight, its
  `read` is the current version, the active row is the newest ever published):
  `SerialVersionIdentifiesRow`, `SerialAckedNotLost`, `SerialHistoryHasActive`,
  `SerialVersionNeverDecreases`, `SerialNoneRefused` (nothing recorded has the
  version about to be inserted, so a refused INSERT needs an overlap), and `SerialRefinement`: every step of the serial
  store is a step of `VersionedRegister` or leaves the row alone.

`PollAgentProofs`, all for `OutageSpec`, hence for `Spec` too:

* `TypeCorrect`, with `RespReady`: a response is there whenever one is used;
* `AgentInSync`, via `VersionInHand`: what is being forwarded is what was recorded;
* `CacheDelivered` and `PollingNeverRegresses`, via `FlowInv`: row, response,
  version, worker and cache are ordered by version, wherever the goroutine is,
  until a late POST has overtaken;
* `PollsDeliver`, via `DeliverInv`: of all the copies of a row (`Copies`: the
  register, the response, the worker, the file, a late POST) two with one version
  are the same (`VersionTellsRow`).  The delicate step is the poll that
  forwards nothing: the recorded version equals the answered one, the worker runs
  that version (`AgentInSync`), hence that row.

`PollOverStoreProofs`:

* `PollAgentIsImplemented` (`RefinesPollAgent`): until requests overlap, the one
  handler in flight has read the current version, so its UPDATE is the
  register's `Set`; every other step of the store leaves the register alone;
* `RecordedVersionTells` (`VersionTellsData`): rows that the agent, the cache, the
  worker or a late POST hold were published by this database or a removed one,
  and what the worker runs has the recorded version; two rows of one version are
  then the same configuration or an ambiguity;
* `PollsDeliverOverStore` (`DeliversUnlessAmbiguous`) by the same argument for the
  row answered instead of the active one;
* `PollsSeeAcknowledged` (`AnswersAreCurrent`): only `Request` reads the row, and
  until requests overlap an acknowledged entry is active or superseded;
* `AgentInSyncOverStore` and `NoRegressOverStore`: what `PollAgentProofs` shows of
  the agent carries over to the real store, the first through overlap and removed
  databases, the second (`FlowSoFar`) until then.  They reuse the step lemmas of
  `PollAgentProofs` through an instance of it.

`WorkerStoreProofs`: `TypeCorrect`, and `IsLinearizable` from `IInv`: `Exclusive`
(the lock does its work), `HalfStored` and `HalfLoaded` (what an update has stored
and a reader has loaded so far), which make each step one of `ConfigRegister`.
`LockIsReleased`, from the same invariant, is the safety half of `UpdateEnds`:
whoever has the lock is at a step that does not wait, so the fairness of the
goroutines is all that liveness adds.

`PollTimerProofs`, for every width, second, period and set of intervals:
`TypeCorrect`; `IntervalIsHeld`, inductive with the types; `NextPollComesInTime`
and `RetriesWait` via `Bounded` and `Waits`, which bound not the time since the
last poll alone but its sum with what is left of the sleep or the ticker.  The
invariant shows when the two waits add up: only if an interval that an earlier
poll left in the channel resets the ticker after the backoff (`reset`); without it
the ticker runs on during the sleep and the longer wait counts.

`AgentRegistryProofs`: `TypeCorrect`, with `Ids`: what a handler will answer is in
the table; `ListingHasEverybody`, because what was answered is in `list` or still in
`rest` while the connection is held;
`ConnectionComesBack`: the connection is out only while that is so;
`OnlyTheRightOnesRegister` from `HeaderSplits`: a header splits into the user name
and password it was made of, unless the user name has a colon.
`SameSettingsFitTogether`, from `HeaderFits`, is the other direction and the safety
half of `Joins`: with the controller's environment an agent's header validates and
its channel is one the controller sends on while the broker is up (`Outage`), whatever
its `config.yaml` says, but for the reasons in `Misfit`, a controller without a client
of its broker among them.

`BroadcastProofs`:

* `BroadcastImplementsStore`: every behaviour with a broker is a behaviour of
  `ConfigStore!Spec`, so `TypeCorrect`, `HistoryTrue`, `AcknowledgedOnce` and
  `NoVersionLost` hold of it;
* `BroadcastTypeCorrect`;
* `WorkersRunRecorded`, via `UnderWayRecorded`: everything on a wire, in a slot
  or in hand is in the history, which only grows;
* `SameVersionSameConfiguration`, from that and `HistoryTrue`;
* `EverythingElseArrives` (`UpToDate`), via `ArrivalInv`: unless it was lost or a
  late POST has overtaken it, the newest message is the last on the wire, or with nothing on the wire the last
  in the slots, or with nothing there the one in hand, or what the worker runs.
  The delicate step is the one that ignores a version it has seen: the worker
  runs that very message, because a version is recorded once;
* `RecordedVersionRuns` (`LastIsRunning`), a part of `ArrivalInv` that the same
  step rests on; a late POST sets `overtaken`, and only a forward that arrives, or a
  restart, clears it;
* `WorkersRunActive` (`ActiveRuns`, stated in this module), from
  `EverythingElseArrives`: until updates have overlapped the newest message, if it has
  the active version, is the active row, because nothing else was published under
  that version; it is about the data, of which the run has one value only;
* `WorkersNeverStepBack` (`NoStepBack`), via `SerialSoFar` (until updates have
  overlapped the invariant of the serial store holds, so nothing recorded is
  newer than what is being published) and `OrderInv`: hand, slots and wire are sorted
  by version, and none of them is older than what the worker runs or a late POST
  holds; a step back can then only be the reading of such a POST.

Some theorems state more than the runs list: `SerialNoneRefused`, `ConnectionComesBack`
and `SameSettingsFitTogether` are about invariants (`NoneRefused`,
`ConnectionIsReturned`, `SameSettingsFit`) that stand next to the properties of the
runs and hold on the same instances; adding their names to the cfg of the run with
the theorem's specification makes TLC look at them.

Only model-checked: liveness (`ConvergesUnlessMissed`, `IntervalConverges`,
`KeepsPolling`, `ConvergesUnlessAmbiguous`, `UpdateEnds`, `RegistrationEnds`,
`Joins`), which is out of the prover's reach because it rests on fairness.

## 6. Where the code and its documents disagree

Each of these is a run that ends in a counterexample; PROJECT.json quotes the
documents.

* Two overlapping updates read the same version and become active under the same
  new one; an agent that polled in between never sees the second
  (`store_version_ambiguous`).  With a third the version goes back.
* A failed forward is never repeated: the version is recorded before it
  (`agent_forward_fails`).
* An agent that starts while the controller is away exits before it looks at its
  cache (`agent_outage`).
* An update that could not be published is not published later, and agents with
  a broker do not poll (`broadcast_no_fallback`).

The following show as an exception in a property that holds:

* a request whose INSERT is refused, or cut off by a crash, is answered 500 or not
  at all and is active (`interrupted` in `GapsAreInterruptions`, `HistoryHasActive`);
* a restarted worker stays without configuration until the next update (`missed`);
* a worker that accepts a POST and never answers stops its agent for good
  (`stalled` in `KeepsPolling`); a POST it reads after its agent has died can
  take it back for good, under every strategy (`overtaken`, and `late` in
  `NoStepBack`);
* after the database was removed an agent whose version comes round again ignores
  another configuration (`Ambiguous`);
* an interval above 2^63 ns makes every agent panic, again after every restart, or
  tick at a tiny period (`Fits` in `IntervalHeld`);
* a retry waits for the backoff and then for the next tick of the ticker, which went
  on meanwhile, or, with a tick in the channel, for the backoff alone (`NextPollInTime`, `RetryWaits`);
  docs/IMPLEMENTATION.md:157 mentions the backoff only;
* a user name with a colon never validates; and long-user and long-password
  pairs share a header (`RegisteredRightly`, `Misfit`);
* a controller that starts before its broker never publishes, and NATS_SUBJECT is
  ignored by `handlers.go:215` (`Misfit`);
* a NATS connection that was away for ten attempts, twenty seconds, is closed for good
  (`pkg/nats/client.go:53`) and neither the controller nor the agent ends: the one
  sends nothing any more (`connected` in `Misfit`), the other hears nothing (`closed`
  in `Joins`);
* a cursor that breaks off is answered with 200 and a shorter list (`cut`).

Seen while reading, outside of any property: every start of an agent leaves a row
(nothing deletes one), `registered_at` and `last_poll` are never set, so the order
of the listing means nothing; an error of `DistributionManager.Start` is only
logged and the process stays; the client that registers has no timeout;
`pkg/nats/client.go:79` connects to the default URL first and leaks that
connection when URLs are given, which they always are; the `validate` tag of
`WorkerConfig.URL` is one gin does not read, so an empty URL is accepted; the
worker's shutdown gives up after five seconds while a hit may take thirty.

## 7. Not modelled

* `SetPollingInterval`, `UpdateAgentPoll`, `GetConfigFromRedis`, `QueueSubscribe`,
  `PublishRequest`, `Flush`, `Stats`, `HealthCheck` of `pkg/nats`, `GetLastConfig`,
  `GetLastVersion`, `GetStrategy`, `GetType`: no callers.  The 304 branch of the
  agent: the controller never answers 304.
* The orderly stop of agent and controller: everything it loses, a crash loses.
* `latest_config` in Redis is written but its expiry is not: nobody reads it.  A
  subscriber that starts late gets nothing until the next update; no document
  promises more, so no property says so.
* More than one late POST at a time under POLLER (under a broker there may be any
  number); a registration that is never answered, which `main.go:120` would wait for
  without end; a stalled broker; the failure of `migrate`,
  after which the process exits and is restarted.
* Numbers and flags among the settings; TLS and credentials of the brokers;
  headers that are not Basic authentication at all.
* The admin's credentials: the same middleware with other constants.
* `controller/docs/docs.go` and `worker/docs/docs.go` are generated and hold no
  behaviour; logging, nginx, Makefile, scripts and CI.

## 8. What is left

1. `Broadcast` with two agents that share versions, and with a removed database
   (its `retired` rows), as in `PollOverStore`.
2. `PollTimer` as the clock of `PollAgent`: how long after an update the worker
   has it, with a bound on the time of a poll.
3. The invariants of `Broadcast` about a controller that gave up its broker, as a
   refinement of `AgentRegistry`'s `Offered`.
