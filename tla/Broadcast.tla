----------------------------- MODULE Broadcast -----------------------------
(***************************************************************************)
(* The REDIS and NATS strategies: the controller publishes an update after *)
(* it has stored it, and the agents wait for what is published instead of  *)
(* polling.  controller/internal/api/handlers.go (the end of UpdateConfig) *)
(* and controller/cmd/main.go, agent/internal/poller/distribution.go and   *)
(* agent/cmd/main.go, pkg/redis/client.go, pkg/nats/client.go.             *)
(*                                                                         *)
(* ConfigStore is the database under it: every step of it is a step here.  *)
(* The broker servers and their client libraries are external: a message   *)
(* goes to whoever is subscribed at that moment, in order, at most once    *)
(* per publication; nothing is kept for a subscriber that is away.         *)
(***************************************************************************)
EXTENDS ConfigStore, Sequences

CONSTANTS
  Agents,        \* agents, each with a worker of its own
  Strategies,    \* values of DISTRIBUTION_STRATEGY to consider
  Capacity,      \* slots of the channel SubscribeToConfig returns (10)
  BrokerFaults,  \* which of BrokerFaultKinds may happen
  MaxFaults,     \* bound: how many of them a behaviour has
  NoMessage      \* no configuration

BrokerFaultKinds == {
  "outage",         \* the broker goes down
  "link",           \* the connection of one agent to the broker breaks
  "publish",        \* a call of the controller to the broker fails or is lost
  "retry",          \* the client repeats a PUBLISH whose reply was lost
  "forward",        \* a POST to the worker fails before it takes effect
  "agentCrash",     \* an agent process ends at any point
  "workerRestart",  \* a worker, whose store is in memory, restarts
  "stall" }         \* a worker accepts connections and does not answer

ASSUME StrategiesAssumption == Strategies \subseteq {"REDIS", "NATS"}
ASSUME CapacityAssumption == Capacity \in Nat \ {0}
ASSUME BrokerFaultsAssumption ==
  BrokerFaults \subseteq BrokerFaultKinds /\ MaxFaults \in Nat
ASSUME NoMessageAssumption == NoMessage \notin Entry

VARIABLES
  strategy,    \* DISTRIBUTION_STRATEGY of the controller and of the agents
  broker,      \* the broker answers
  client,      \* the controller has a client that is not closed
  todo,        \* what the handler of each admin has yet to do after UpdateConfig
  latest,      \* the key latest_config in Redis
  newest,      \* history variable: the message published last
  overlapped,  \* history variable: some request began before another had ended
  apc,         \* where the message handler of each agent is
  link,        \* the subscription of each agent
  wire,        \* messages between the broker and the agent's receiver
  slots,       \* configChan (REDIS), the subscription's queue (NATS)
  inhand,      \* the message being forwarded
  last,        \* lastVersion of the distributor, 0 for the empty string
  worker,      \* what the worker stores (the version is a history variable)
  dropped,     \* history variable: the newest message never got to the handler
  failed,      \* history variable: the last forward did not arrive, or the
               \* worker has lost what it had
  stalled,     \* the worker does not answer (a process that is stopped)
  late,        \* POSTs of agents that have died, which the worker has yet to
               \* read (equal ones count as one)
  overtaken,   \* history variable: such a POST was the last to reach the worker
  budget       \* faults still to come

publisher == <<client, todo, latest, newest, overlapped>>
posts == <<stalled, late, overtaken>>
agents == <<apc, link, wire, slots, inhand, last, worker, dropped, failed, posts>>
brokerVars == <<strategy, broker, publisher, agents, budget>>
allVars == <<vars, brokerVars>>

Todo == {"check", "publish", "keep", "done"}

BroadcastTypeOK ==
  /\ strategy \in Strategies
  /\ broker \in BOOLEAN
  /\ client \in BOOLEAN
  /\ todo \in [Admins -> Todo]
  /\ latest \in Entry \cup {NoMessage}
  /\ newest \in Entry \cup {NoMessage}
  /\ overlapped \in BOOLEAN
  /\ apc \in [Agents -> {"down", "ready", "forward"}]
  /\ link \in [Agents -> {"none", "off", "on", "closed"}]
  /\ wire \in [Agents -> Seq(Entry)]
  /\ slots \in [Agents -> Seq(Entry)]
  /\ inhand \in [Agents -> Entry \cup {NoMessage}]
  /\ \A g \in Agents : apc[g] = "forward" => inhand[g] # NoMessage
  /\ last \in [Agents -> Nat]
  /\ worker \in [Agents -> Entry \cup {NoMessage}]
  /\ dropped \in [Agents -> BOOLEAN]
  /\ failed \in [Agents -> BOOLEAN]
  /\ stalled \in [Agents -> BOOLEAN]
  /\ late \in [Agents -> SUBSET Entry]
  /\ overtaken \in [Agents -> BOOLEAN]
  /\ budget \in 0..MaxFaults

BroadcastInit ==
  /\ Init
  /\ strategy \in Strategies
  /\ broker = TRUE
  /\ client = FALSE
  /\ todo = [a \in Admins |-> "check"]
  /\ latest = NoMessage
  /\ newest = NoMessage
  /\ overlapped = FALSE
  /\ apc = [g \in Agents |-> "down"]
  /\ link = [g \in Agents |-> "none"]
  /\ wire = [g \in Agents |-> <<>>]
  /\ slots = [g \in Agents |-> <<>>]
  /\ inhand = [g \in Agents |-> NoMessage]
  /\ last = [g \in Agents |-> 0]
  /\ worker = [g \in Agents |-> NoMessage]
  /\ dropped = [g \in Agents |-> FALSE]
  /\ failed = [g \in Agents |-> FALSE]
  /\ stalled = [g \in Agents |-> FALSE]
  /\ late = [g \in Agents |-> {}]
  /\ overtaken = [g \in Agents |-> FALSE]
  /\ budget = MaxFaults

-----------------------------------------------------------------------------
(* Helpers.                                                                 *)

Fault(kind) == kind \in BrokerFaults /\ budget > 0 /\ budget' = budget - 1

\* The configMessage of a handler: its newVersion and the posted data (the
\* variant before it sends the whole row).
MessageWithInterval(a) == NewRow(a)
Message(a) == EntryOf(NewRow(a))

\* The handler of a is past UpdateConfig and at this point of the publishing
\* (the first variant, one that no specification uses, publishes too early).
AtAnyTime(a, step) == pc[a] \in {"insert", "stored"} /\ todo[a] = step
At(a, step) == pc[a] = "stored" /\ todo[a] = step

Then(a, step) == todo' = [todo EXCEPT ![a] = step]

\* The broker hands m to everybody who is subscribed now.
Broadcasted(m) ==
  /\ newest' = m
  /\ wire' = [g \in Agents |->
                IF link[g] = "on" THEN Append(wire[g], m) ELSE wire[g]]
  /\ dropped' = [g \in Agents |-> link[g] # "on"]

\* What these agents have on the wire is gone.
Disconnected(S) ==
  /\ link' = [g \in Agents |-> IF g \in S THEN "off" ELSE link[g]]
  /\ wire' = [g \in Agents |-> IF g \in S THEN <<>> ELSE wire[g]]
  /\ dropped' = [g \in Agents |-> dropped[g] \/ (g \in S /\ wire[g] # <<>>)]

Subscribed == {g \in Agents : link[g] = "on"}

\* A channel of Capacity slots under REDIS; a queue that never fills up here
\* under NATS, whose library keeps half a million messages.
Room(g) == strategy = "NATS" \/ Len(slots[g]) < Capacity

\* Any other version than the last one counts as new, an older one too (the
\* variant before it, which no specification uses, compares them).
IsNewerVersion(g, m) == m.version > last[g]
IsNewVersion(g, m) == m.version # last[g]

\* Nothing for this agent is under way.
Settled(g) ==
  apc[g] = "ready" /\ wire[g] = <<>> /\ slots[g] = <<>>

-----------------------------------------------------------------------------
(* The controller: the database, and then the broker.                       *)

\* main: the client exists if the broker answered when the process started.
ControllerBoot ==
  /\ Boot
  /\ client' = broker
  /\ UNCHANGED <<strategy, broker, todo, latest, newest, overlapped, agents, budget>>

ControllerCrash ==
  /\ Crash
  /\ client' = FALSE
  /\ todo' = [a \in Admins |-> "check"]
  /\ UNCHANGED <<strategy, broker, latest, newest, overlapped, agents, budget>>

\* nats.MaxReconnects(10), two seconds apart, then the connection is closed.
ClientGivesUp ==
  /\ strategy = "NATS"
  /\ up
  /\ client
  /\ ~broker
  /\ client' = FALSE
  /\ UNCHANGED <<vars, strategy, broker, todo, latest, newest, overlapped, agents, budget>>

BeginRequest(a) ==
  /\ BeginUpdate(a)
  /\ overlapped' = (overlapped \/ ~Quiet)
  /\ UNCHANGED <<strategy, broker, client, todo, latest, newest, agents, budget>>

\* Everything else until the update is stored or refused.
StoreStep(a) ==
  /\ \/ RejectUpdate(a)
     \/ SelectVersion(a)
     \/ UpdateActive(a)
     \/ InsertHistory(a)
     \/ InsertConflict(a)
     \/ StatementFails(a)
     \/ RespondError(a)
  /\ UNCHANGED brokerVars

\* h.redisClient.IsConnected(), a PING; h.natsClient.IsConnected().
CheckConnected(a) ==
  /\ At(a, "check")
  /\ client /\ broker
  /\ Then(a, "publish")
  /\ UNCHANGED <<vars, strategy, broker, client, latest, newest, overlapped, agents, budget>>

\* No client, or it is not connected: the broker is skipped, without an error.
CheckNotConnected(a) ==
  /\ At(a, "check")
  /\ IF client /\ broker THEN Fault("publish") ELSE UNCHANGED budget
  /\ Then(a, "done")
  /\ UNCHANGED <<vars, strategy, broker, client, latest, newest, overlapped, agents>>

Publish(a) ==
  /\ At(a, "publish")
  /\ broker
  /\ Broadcasted(Message(a))
  /\ Then(a, IF strategy = "REDIS" THEN "keep" ELSE "done")
  /\ UNCHANGED <<vars, strategy, broker, client, latest, overlapped, budget>>
  /\ UNCHANGED <<apc, link, slots, inhand, last, worker, failed, posts>>

\* The reply to the PUBLISH is lost and go-redis sends it again.
PublishRetried(a) ==
  /\ strategy = "REDIS"
  /\ At(a, "publish")
  /\ broker
  /\ Fault("retry")
  /\ Broadcasted(Message(a))
  /\ UNCHANGED <<vars, strategy, broker, client, todo, latest, overlapped>>
  /\ UNCHANGED <<apc, link, slots, inhand, last, worker, failed, posts>>

\* PublishConfig returns an error that is only logged, or the buffer of the
\* NATS connection is lost although Publish returned none.
PublishFails(a) ==
  /\ At(a, "publish")
  /\ IF broker THEN Fault("publish") ELSE UNCHANGED budget
  /\ Then(a, "done")
  /\ UNCHANGED <<vars, strategy, broker, client, latest, newest, overlapped, agents>>

\* StoreConfigInRedis.
KeepLatest(a) ==
  /\ At(a, "keep")
  /\ broker
  /\ latest' = Message(a)
  /\ Then(a, "done")
  /\ UNCHANGED <<vars, strategy, broker, client, newest, overlapped, agents, budget>>

\* Its error is not even logged.
KeepFails(a) ==
  /\ At(a, "keep")
  /\ IF broker THEN Fault("publish") ELSE UNCHANGED budget
  /\ Then(a, "done")
  /\ UNCHANGED <<vars, strategy, broker, client, latest, newest, overlapped, agents>>

RespondUpdated(a) ==
  /\ todo[a] = "done"
  /\ RespondOK(a)
  /\ Then(a, "check")
  /\ UNCHANGED <<strategy, broker, client, latest, newest, overlapped, agents, budget>>

-----------------------------------------------------------------------------
(* The broker and the machines.                                             *)

BrokerStops ==
  /\ broker
  /\ Fault("outage")
  /\ broker' = FALSE
  /\ Disconnected(Subscribed)
  /\ UNCHANGED <<vars, strategy, publisher, apc, slots, inhand, last, worker, failed, posts>>

BrokerStarts ==
  /\ ~broker
  /\ broker' = TRUE
  /\ UNCHANGED <<vars, strategy, publisher, agents, budget>>

LinkBreaks(g) ==
  /\ link[g] = "on"
  /\ Fault("link")
  /\ Disconnected({g})
  /\ UNCHANGED <<vars, strategy, broker, publisher, apc, slots, inhand, last, worker, failed, posts>>

WorkerRestarts(g) ==
  /\ Fault("workerRestart")
  /\ worker' = [worker EXCEPT ![g] = NoMessage]
  /\ failed' = [failed EXCEPT ![g] = TRUE]
  /\ stalled' = [stalled EXCEPT ![g] = FALSE]
  /\ late' = [late EXCEPT ![g] = {}]
  /\ overtaken' = [overtaken EXCEPT ![g] = FALSE]
  /\ UNCHANGED <<vars, strategy, broker, publisher, apc, link, wire, slots, inhand, last, dropped>>

\* A worker answers whoever forwards to it late, or not at all.
WorkerStalls(g) ==
  /\ ~stalled[g]
  /\ Fault("stall")
  /\ stalled' = [stalled EXCEPT ![g] = TRUE]
  /\ UNCHANGED <<vars, strategy, broker, publisher, apc, link, wire, slots, inhand, last>>
  /\ UNCHANGED <<worker, dropped, failed, late, overtaken>>

WorkerResumes(g) ==
  /\ stalled[g]
  /\ stalled' = [stalled EXCEPT ![g] = FALSE]
  /\ UNCHANGED <<vars, strategy, broker, publisher, apc, link, wire, slots, inhand, last>>
  /\ UNCHANGED <<worker, dropped, failed, late, overtaken, budget>>

\* The worker reads a POST whose sender is gone, whatever it got meanwhile.
LateArrives(g) ==
  /\ ~stalled[g]
  /\ \E m \in late[g] :
       /\ worker' = [worker EXCEPT ![g] = m]
       /\ late' = [late EXCEPT ![g] = @ \ {m}]
  /\ overtaken' = [overtaken EXCEPT ![g] = TRUE]
  /\ UNCHANGED <<vars, strategy, broker, publisher, apc, link, wire, slots, inhand, last>>
  /\ UNCHANGED <<dropped, failed, stalled, budget>>

\* What an agent that ends now may leave with its worker: the POST in hand, if
\* the worker is stalled and has not read it.
Left(g) == IF stalled[g] /\ apc[g] = "forward" THEN {inhand[g]} ELSE {}

AgentCrash(g) ==
  /\ apc[g] # "down"
  /\ Fault("agentCrash")
  /\ apc' = [apc EXCEPT ![g] = "down"]
  /\ link' = [link EXCEPT ![g] = "none"]
  /\ wire' = [wire EXCEPT ![g] = <<>>]
  /\ slots' = [slots EXCEPT ![g] = <<>>]
  /\ inhand' = [inhand EXCEPT ![g] = NoMessage]
  /\ last' = [last EXCEPT ![g] = 0]
  /\ dropped' = [dropped EXCEPT ![g] = @ \/ ~Settled(g)]
  /\ \E S \in SUBSET Left(g) : late' = [late EXCEPT ![g] = @ \cup S]
  /\ UNCHANGED <<vars, strategy, broker, publisher, worker, failed, stalled, overtaken>>

-----------------------------------------------------------------------------
(* The agent: the goroutine of SubscribeToConfig or of the NATS library     *)
(* receives, the message handler forwards.                                  *)

\* Registered with the controller, connected to the broker: main goes on only
\* then, otherwise it exits and is started again.
AgentStart(g) ==
  /\ apc[g] = "down"
  /\ up /\ broker
  /\ apc' = [apc EXCEPT ![g] = "ready"]
  /\ link' = [link EXCEPT ![g] = "off"]
  /\ UNCHANGED <<vars, strategy, broker, publisher, wire, slots, inhand, last, worker, dropped, failed, posts, budget>>

\* SUBSCRIBE; both libraries send it again after they have reconnected.
Subscribe(g) ==
  /\ link[g] = "off"
  /\ broker
  /\ link' = [link EXCEPT ![g] = "on"]
  /\ UNCHANGED <<vars, strategy, broker, publisher, apc, wire, slots, inhand, last, worker, dropped, failed, posts, budget>>

\* After ten attempts the NATS connection is closed; the process stays.
LinkGivesUp(g) ==
  /\ strategy = "NATS"
  /\ link[g] = "off"
  /\ ~broker
  /\ link' = [link EXCEPT ![g] = "closed"]
  /\ UNCHANGED <<vars, strategy, broker, publisher, apc, wire, slots, inhand, last, worker, dropped, failed, posts, budget>>

\* ch <- configMsg
Receive(g) ==
  /\ wire[g] # <<>>
  /\ Room(g)
  /\ wire' = [wire EXCEPT ![g] = Tail(@)]
  /\ slots' = [slots EXCEPT ![g] = Append(@, Head(wire[g]))]
  /\ UNCHANGED <<vars, strategy, broker, publisher, apc, link, inhand, last, worker, dropped, failed, posts, budget>>

\* The channel is full: the message that has just come is dropped.
ReceiveDropped(g) ==
  /\ wire[g] # <<>>
  /\ ~Room(g)
  /\ wire' = [wire EXCEPT ![g] = Tail(@)]
  /\ dropped' = [dropped EXCEPT ![g] = @ \/ Head(wire[g]) = newest]
  /\ UNCHANGED <<vars, strategy, broker, publisher, apc, link, slots, inhand, last, worker, failed, posts, budget>>

\* Faulty variant, which no specification uses: the message that came last is
\* handled first, as with a goroutine for each message.
HandleUnordered(g) ==
  /\ apc[g] = "ready"
  /\ slots[g] # <<>>
  /\ slots' = [slots EXCEPT ![g] = SubSeq(@, 1, Len(@) - 1)]
  /\ LET m == slots[g][Len(slots[g])] IN
       IF IsNewVersion(g, m)
         THEN /\ last' = [last EXCEPT ![g] = m.version]
              /\ inhand' = [inhand EXCEPT ![g] = m]
              /\ apc' = [apc EXCEPT ![g] = "forward"]
         ELSE UNCHANGED <<last, inhand, apc>>
  /\ UNCHANGED <<vars, strategy, broker, publisher, link, wire, worker, dropped, failed, posts, budget>>

\* Faulty variant, which no specification uses: the version is recorded before
\* it is compared, and an older one is not forwarded.
HandleRecordsStale(g) ==
  /\ apc[g] = "ready"
  /\ slots[g] # <<>>
  /\ slots' = [slots EXCEPT ![g] = Tail(@)]
  /\ LET m == Head(slots[g]) IN
       /\ last' = [last EXCEPT ![g] = m.version]
       /\ IF IsNewerVersion(g, m)
            THEN /\ inhand' = [inhand EXCEPT ![g] = m]
                 /\ apc' = [apc EXCEPT ![g] = "forward"]
            ELSE UNCHANGED <<inhand, apc>>
  /\ UNCHANGED <<vars, strategy, broker, publisher, link, wire, worker, dropped, failed, posts, budget>>

\* handleRedisMessages, handleNatsMessage: a new version is recorded, then
\* forwarded.
Handle(g) ==
  /\ apc[g] = "ready"
  /\ slots[g] # <<>>
  /\ slots' = [slots EXCEPT ![g] = Tail(@)]
  /\ LET m == Head(slots[g]) IN
       IF IsNewVersion(g, m)
         THEN /\ last' = [last EXCEPT ![g] = m.version]
              /\ inhand' = [inhand EXCEPT ![g] = m]
              /\ apc' = [apc EXCEPT ![g] = "forward"]
         ELSE UNCHANGED <<last, inhand, apc>>
  /\ UNCHANGED <<vars, strategy, broker, publisher, link, wire, worker, dropped, failed, posts, budget>>

ForwardEnds(g) ==
  /\ apc[g] = "forward"
  /\ apc' = [apc EXCEPT ![g] = "ready"]
  /\ inhand' = [inhand EXCEPT ![g] = NoMessage]
  /\ UNCHANGED <<vars, strategy, broker, publisher, link, wire, slots, last, dropped>>

\* The worker has it.  Whether its answer reaches the agent makes a difference
\* to the log only.  The client has no timeout: the handler waits for a worker
\* that is stalled.
ForwardArrives(g) ==
  /\ ForwardEnds(g)
  /\ ~stalled[g]
  /\ worker' = [worker EXCEPT ![g] = inhand[g]]
  /\ failed' = [failed EXCEPT ![g] = FALSE]
  /\ overtaken' = [overtaken EXCEPT ![g] = FALSE]
  /\ UNCHANGED <<stalled, late, budget>>

\* Logged, never repeated.
ForwardFails(g) ==
  /\ ForwardEnds(g)
  /\ failed' = [failed EXCEPT ![g] = TRUE]
  /\ Fault("forward")
  /\ UNCHANGED <<worker, posts>>

-----------------------------------------------------------------------------
Handler(a) ==
  \/ StoreStep(a)
  \/ CheckConnected(a)
  \/ CheckNotConnected(a)
  \/ Publish(a)
  \/ PublishRetried(a)
  \/ PublishFails(a)
  \/ KeepLatest(a)
  \/ KeepFails(a)
  \/ RespondUpdated(a)

\* What happens to agent g and to its worker.
Machine(g) ==
  \/ WorkerRestarts(g)
  \/ WorkerStalls(g)
  \/ WorkerResumes(g)
  \/ LateArrives(g)
  \/ AgentCrash(g)
  \/ LinkGivesUp(g)

Environment ==
  \/ ControllerCrash
  \/ ClientGivesUp
  \/ BrokerStops
  \/ \E a \in Admins : BeginRequest(a)
  \/ \E g \in Agents : LinkBreaks(g) \/ Machine(g)

Forward(g) == ForwardArrives(g) \/ ForwardFails(g)

Agent(g) ==
  \/ AgentStart(g)
  \/ Subscribe(g)
  \/ Receive(g)
  \/ ReceiveDropped(g)
  \/ Handle(g)
  \/ Forward(g)

BroadcastNext ==
  \/ ControllerBoot
  \/ BrokerStarts
  \/ Environment
  \/ \E a \in Admins : Handler(a)
  \/ \E g \in Agents : Agent(g)

BroadcastSpec == BroadcastInit /\ [][BroadcastNext]_allVars

\* Every process and goroutine that can run does, and what has stopped is
\* started again (restart: unless-stopped); requests may stop coming.
BroadcastFairness ==
  /\ WF_allVars(ControllerBoot)
  /\ WF_allVars(BrokerStarts)
  /\ \A a \in Admins : WF_allVars(Handler(a) /\ pc[a] # "idle")
  /\ \A g \in Agents :
       /\ WF_allVars(AgentStart(g))
       /\ WF_allVars(Subscribe(g))
       /\ WF_allVars(Receive(g) \/ ReceiveDropped(g))
       /\ WF_allVars(Handle(g))
       /\ WF_allVars(Forward(g))

FairBroadcastSpec == BroadcastSpec /\ BroadcastFairness

-----------------------------------------------------------------------------
(* Properties.                                                              *)

\* Workers run, and Redis keeps, only what the history has recorded: what is
\* published was stored before, under a version that stands for it alone.
\* (Polling does not give this: a row is active before it is recorded.)
RunsRecorded ==
  /\ \A g \in Agents : worker[g] # NoMessage => worker[g] \in history
  /\ latest # NoMessage => latest \in history

\* Once everything under way has arrived, a worker runs the message that was
\* published last, unless that message was dropped, was published while the
\* agent was not subscribed, its forward failed, or a POST of an agent that has
\* died came after it.
UpToDate ==
  \A g \in Agents :
    (Settled(g) /\ newest # NoMessage /\ ~dropped[g] /\ ~failed[g] /\ ~overtaken[g])
      => worker[g] = newest

\* The version an agent has recorded, and compares every message with, is the
\* one its worker runs, unless the forward of that version did not arrive or a
\* POST of an earlier agent came after it: an agent never passes over a message
\* because of a version it did not deliver.
LastIsRunning ==
  \A g \in Agents :
    (apc[g] = "ready" /\ last[g] # 0 /\ ~failed[g] /\ ~overtaken[g])
      => worker[g] # NoMessage /\ worker[g].version = last[g]

\* As long as requests do not overlap, only a POST whose sender has died takes a
\* worker back to an older configuration: nothing else that is dropped,
\* repeated, restarted or lost does.
NoStepBack ==
  [][~overlapped =>
       \A g \in Agents :
         (worker[g] # NoMessage /\ worker'[g] # NoMessage
            /\ worker'[g].version < worker[g].version)
           => worker'[g] \in late[g] \ late'[g]]_allVars

\* A subscribed agent gets every stored update in the end, over the broker or,
\* "continuing with polling", without it.
SubscriberGetsUpdate ==
  \A g \in Agents, a \in Admins, v \in 2..MaxVersion :
    (link[g] = "on" /\ pc[a] = "stored" /\ NewVersion(a) = v)
      ~> (worker[g] # NoMessage /\ worker[g].version >= v)
=============================================================================
