-------------------------- MODULE BroadcastProofs --------------------------
(***************************************************************************)
(* What Broadcast guarantees for every number of callers and agents, every *)
(* capacity of the channel and every number of faults.                     *)
(***************************************************************************)
EXTENDS Broadcast, ConfigStoreProofs

-----------------------------------------------------------------------------
(* Publishing does not disturb the store.                                   *)

LEMMA StoreStepIsNext ==
  ASSUME [BroadcastNext]_allVars
  PROVE  [Next]_vars
<1> USE DEF vars
<1>1. CASE UNCHANGED allVars
  BY <1>1 DEF allVars
<1>2. CASE ControllerBoot
  BY <1>2 DEF ControllerBoot, Next
<1>3. CASE BrokerStarts
  BY <1>3 DEF BrokerStarts
<1>4. CASE Environment
  BY <1>4 DEF Environment, ControllerCrash, ClientGivesUp, BrokerStops,
     BeginRequest, LinkBreaks, Machine, WorkerRestarts, WorkerStalls,
     WorkerResumes, LateArrives, AgentCrash, LinkGivesUp, Next
<1>5. ASSUME NEW a \in Admins, Handler(a) PROVE [Next]_vars
  <2>1. CASE StoreStep(a)
    BY <2>1 DEF StoreStep, Step, Next
  <2>2. CASE RespondUpdated(a)
    BY <2>2 DEF RespondUpdated, Step, Next
  <2> QED
    BY <1>5, <2>1, <2>2 DEF Handler, CheckConnected, CheckNotConnected, Publish,
       PublishRetried, PublishFails, KeepLatest, KeepFails
<1>6. ASSUME NEW g \in Agents, Agent(g) PROVE [Next]_vars
  BY <1>6 DEF Agent, AgentStart, Subscribe, Receive, ReceiveDropped, Handle,
     Forward, ForwardArrives, ForwardFails, ForwardEnds
<1> QED
  BY <1>1, <1>2, <1>3, <1>4, <1>5, <1>6 DEF BroadcastNext

\* The controller with a broker is still the configuration store, step for
\* step: everything proved of ConfigStore holds with publishing as well.
THEOREM BroadcastImplementsStore == BroadcastSpec => Spec
<1>1. BroadcastInit => Init
  BY DEF BroadcastInit
<1>2. [BroadcastNext]_allVars => [Next]_vars
  BY StoreStepIsNext
<1> QED
  BY <1>1, <1>2, PTL DEF BroadcastSpec, Spec

LEMMA StoreInvariant == BroadcastSpec => [](TypeInv /\ HistoryInv /\ AckedOnce)
<1>1. Spec => []HistoryInv
  BY HistoryInit, HistoryStep, TypeInvariant, PTL DEF Spec
<1> QED
  BY <1>1, TypeInvariant, AcknowledgedOnce, BroadcastImplementsStore, PTL

-----------------------------------------------------------------------------
(* Types.                                                                   *)

\* What a handler publishes is a recorded entry.
LEMMA MessageIsEntry ==
  ASSUME TypeInv, NEW a \in Admins
  PROVE  Message(a) \in Entry /\ Message(a).version = NewVersion(a)
BY NewRowIsRow DEF Message, TypeInv

LEMMA BroadcastTypeInit == BroadcastInit => BroadcastTypeOK
<1> SUFFICES ASSUME BroadcastInit PROVE BroadcastTypeOK
  OBVIOUS
<1> USE DEF BroadcastInit
<1>1. strategy \in Strategies /\ budget \in 0..MaxFaults
  BY BrokerFaultsAssumption
<1>2. broker \in BOOLEAN /\ client \in BOOLEAN /\ overlapped \in BOOLEAN
  OBVIOUS
<1>3. todo \in [Admins -> Todo]
  BY DEF Todo
<1>4. latest \in Entry \cup {NoMessage} /\ newest \in Entry \cup {NoMessage}
  OBVIOUS
<1>5. /\ apc \in [Agents -> {"down", "ready", "forward"}]
      /\ link \in [Agents -> {"none", "off", "on", "closed"}]
  OBVIOUS
<1>6. wire \in [Agents -> Seq(Entry)] /\ slots \in [Agents -> Seq(Entry)]
  OBVIOUS
<1>7. /\ inhand \in [Agents -> Entry \cup {NoMessage}]
      /\ worker \in [Agents -> Entry \cup {NoMessage}]
  OBVIOUS
<1>8. last \in [Agents -> Nat] /\ dropped \in [Agents -> BOOLEAN]
      /\ failed \in [Agents -> BOOLEAN]
  OBVIOUS
<1>9. /\ stalled \in [Agents -> BOOLEAN] /\ late \in [Agents -> SUBSET Entry]
      /\ overtaken \in [Agents -> BOOLEAN]
      /\ \A g \in Agents : apc[g] = "forward" => inhand[g] # NoMessage
  OBVIOUS
<1> QED
  BY <1>1, <1>2, <1>3, <1>4, <1>5, <1>6, <1>7, <1>8, <1>9 DEF BroadcastTypeOK

LEMMA FaultType ==
  ASSUME BroadcastTypeOK, NEW kind, Fault(kind)
  PROVE  budget' \in 0..MaxFaults
BY BrokerFaultsAssumption DEF Fault, BroadcastTypeOK

\* An agent that ends leaves with its worker at most the message in hand.
LEMMA CrashLeaves ==
  ASSUME BroadcastTypeOK, NEW g \in Agents, AgentCrash(g), NEW H,
         inhand[g] \in H \cup {NoMessage}, late \in [Agents -> SUBSET H]
  PROVE  late' \in [Agents -> SUBSET H]
<1>1. PICK S \in SUBSET Left(g) : late' = [late EXCEPT ![g] = @ \cup S]
  BY DEF AgentCrash
<1>2. S \subseteq H
  BY <1>1 DEF Left, BroadcastTypeOK
<1> QED
  BY <1>1, <1>2

LEMMA BroadcastTypeStep ==
  TypeInv /\ BroadcastTypeOK /\ [BroadcastNext]_allVars => BroadcastTypeOK'
<1> SUFFICES ASSUME TypeInv, BroadcastTypeOK, [BroadcastNext]_allVars
             PROVE  BroadcastTypeOK'
  OBVIOUS
<1> USE DEF BroadcastTypeOK, Todo, posts
<1>1. CASE UNCHANGED allVars
  BY <1>1 DEF allVars, brokerVars, publisher, agents
<1>2. CASE ControllerBoot
  BY <1>2 DEF ControllerBoot, agents
<1>3. CASE BrokerStarts
  BY <1>3 DEF BrokerStarts, agents, publisher
<1>4. CASE ControllerCrash
  BY <1>4 DEF ControllerCrash, agents
<1>5. CASE ClientGivesUp
  BY <1>5 DEF ClientGivesUp, agents
<1>6. CASE BrokerStops
  <2>1. Disconnected(Subscribed)
    BY <1>6 DEF BrokerStops
  <2>2. /\ link' \in [Agents -> {"none", "off", "on", "closed"}]
        /\ wire' \in [Agents -> Seq(Entry)]
        /\ dropped' \in [Agents -> BOOLEAN]
    BY <2>1 DEF Disconnected
  <2> QED
    BY <1>6, <2>2, FaultType DEF BrokerStops, publisher
<1>7. ASSUME NEW a \in Admins, BeginRequest(a) PROVE BroadcastTypeOK'
  <2>1. overlapped' \in BOOLEAN
    BY <1>7, Zenon DEF BeginRequest
  <2> QED
    BY <1>7, <2>1 DEF BeginRequest, agents
<1>8. ASSUME NEW a \in Admins, Handler(a) PROVE BroadcastTypeOK'
  <2>1. CASE StoreStep(a)
    BY <2>1 DEF StoreStep, brokerVars, publisher, agents
  <2>2. CASE CheckConnected(a) \/ CheckNotConnected(a)
    BY <2>2, FaultType DEF CheckConnected, CheckNotConnected, Then, agents
  <2>3. CASE Publish(a) \/ PublishRetried(a)
    <3>1. Broadcasted(Message(a)) /\ Message(a) \in Entry
      BY <2>3, MessageIsEntry DEF Publish, PublishRetried
    <3>2. wire' \in [Agents -> Seq(Entry)]
      BY <3>1 DEF Broadcasted
    <3>3. newest' \in Entry \cup {NoMessage} /\ dropped' \in [Agents -> BOOLEAN]
      BY <3>1 DEF Broadcasted
    <3> QED
      BY <2>3, <3>2, <3>3, FaultType DEF Publish, PublishRetried, Then
  <2>4. CASE PublishFails(a) \/ KeepFails(a)
    BY <2>4, FaultType DEF PublishFails, KeepFails, Then, agents
  <2>5. CASE KeepLatest(a)
    BY <2>5, MessageIsEntry DEF KeepLatest, Then, agents
  <2>6. CASE RespondUpdated(a)
    BY <2>6 DEF RespondUpdated, Then, agents
  <2> QED
    BY <1>8, <2>1, <2>2, <2>3, <2>4, <2>5, <2>6 DEF Handler
<1>9. ASSUME NEW g \in Agents, LinkBreaks(g) \/ Machine(g)
      PROVE  BroadcastTypeOK'
  <2>1. CASE LinkBreaks(g)
    BY <2>1, FaultType DEF LinkBreaks, Disconnected, publisher
  <2>2. CASE WorkerRestarts(g)
    BY <2>2, FaultType DEF WorkerRestarts, publisher
  <2>3. CASE AgentCrash(g)
    <3>1. late' \in [Agents -> SUBSET Entry]
      BY <2>3, CrashLeaves
    <3> QED
      BY <2>3, <3>1, FaultType DEF AgentCrash, publisher, Settled
  <2>4. CASE LinkGivesUp(g)
    BY <2>4 DEF LinkGivesUp, publisher
  <2>5. CASE WorkerStalls(g) \/ WorkerResumes(g)
    BY <2>5, FaultType DEF WorkerStalls, WorkerResumes, publisher
  <2>6. CASE LateArrives(g)
    BY <2>6 DEF LateArrives, publisher
  <2> QED
    BY <1>9, <2>1, <2>2, <2>3, <2>4, <2>5, <2>6 DEF Machine
<1>10. ASSUME NEW g \in Agents, Agent(g) PROVE BroadcastTypeOK'
  <2>1. CASE AgentStart(g)
    BY <2>1 DEF AgentStart, publisher
  <2>2. CASE Subscribe(g)
    BY <2>2 DEF Subscribe, publisher
  <2>3. CASE Receive(g)
    BY <2>3 DEF Receive, publisher
  <2>4. CASE ReceiveDropped(g)
    BY <2>4 DEF ReceiveDropped, publisher
  <2>5. CASE Handle(g)
    <3>1. Head(slots[g]) \in Entry /\ Tail(slots[g]) \in Seq(Entry)
      BY <2>5 DEF Handle
    <3>2. Head(slots[g]).version \in Nat /\ Head(slots[g]) # NoMessage
      BY <3>1, NoMessageAssumption DEF Entry
    <3> QED
      BY <2>5, <3>1, <3>2 DEF Handle, publisher
  <2>6. CASE ForwardArrives(g)
    BY <2>6 DEF ForwardArrives, ForwardEnds, publisher
  <2>7. CASE ForwardFails(g)
    BY <2>7, FaultType DEF ForwardFails, ForwardEnds, publisher
  <2> QED
    BY <1>10, <2>1, <2>2, <2>3, <2>4, <2>5, <2>6, <2>7 DEF Agent, Forward
<1> QED
  BY <1>1, <1>2, <1>3, <1>4, <1>5, <1>6, <1>7, <1>8, <1>9, <1>10
     DEF BroadcastNext, Environment

\* Type correctness with a broker, for every capacity and every number of faults.
THEOREM BroadcastTypeCorrect == BroadcastSpec => []BroadcastTypeOK
BY BroadcastTypeInit, BroadcastTypeStep, StoreInvariant, PTL DEF BroadcastSpec

-----------------------------------------------------------------------------
(* Workers run what the history has recorded.                               *)

\* Whatever is on its way to a worker has been recorded before.
UnderWayRecorded ==
  /\ wire \in [Agents -> Seq(history)]
  /\ slots \in [Agents -> Seq(history)]
  /\ inhand \in [Agents -> history \cup {NoMessage}]
  /\ worker \in [Agents -> history \cup {NoMessage}]
  /\ late \in [Agents -> SUBSET history]
  /\ latest \in history \cup {NoMessage}
  /\ newest \in history \cup {NoMessage}

LEMMA UnderWayInit == BroadcastInit => UnderWayRecorded
<1> SUFFICES ASSUME BroadcastInit PROVE UnderWayRecorded
  OBVIOUS
<1> USE DEF BroadcastInit
<1>1. wire \in [Agents -> Seq(history)] /\ slots \in [Agents -> Seq(history)]
  OBVIOUS
<1>2. /\ inhand \in [Agents -> history \cup {NoMessage}]
      /\ worker \in [Agents -> history \cup {NoMessage}]
  OBVIOUS
<1>3. /\ latest \in history \cup {NoMessage} /\ newest \in history \cup {NoMessage}
      /\ late \in [Agents -> SUBSET history]
  OBVIOUS
<1> QED
  BY <1>1, <1>2, <1>3 DEF UnderWayRecorded

\* The history only grows.
LEMMA HistoryGrows ==
  ASSUME [BroadcastNext]_allVars
  PROVE  history \subseteq history'
<1>1. [Next]_vars
  BY StoreStepIsNext
<1> QED
  BY <1>1 DEF Next, vars, Step, Boot, Crash, BeginUpdate, RejectUpdate,
     SelectVersion, UpdateActive, InsertHistory, InsertConflict, StatementFails,
     RespondOK, RespondError, Finish

\* A step that leaves what is under way alone.
LEMMA UnderWayUnchanged ==
  ASSUME UnderWayRecorded, history \subseteq history',
         UNCHANGED <<wire, slots, inhand, worker, late, latest, newest>>
  PROVE  UnderWayRecorded'
<1>1. Seq(history) \subseteq Seq(history')
  OBVIOUS
<1> QED
  BY <1>1 DEF UnderWayRecorded

LEMMA UnderWayStep ==
  TypeInv /\ AckedOnce /\ BroadcastTypeOK /\ UnderWayRecorded
    /\ [BroadcastNext]_allVars => UnderWayRecorded'
<1> SUFFICES ASSUME TypeInv, AckedOnce, BroadcastTypeOK, UnderWayRecorded,
                    [BroadcastNext]_allVars
             PROVE  UnderWayRecorded'
  OBVIOUS
<1>h. history \subseteq history'
  BY HistoryGrows
<1>q. \A a \in Admins : pc[a] = "stored" => Message(a) \in history
  BY DEF AckedOnce, Message
<1> USE DEF UnderWayRecorded, posts
<1>1. CASE UNCHANGED allVars
  BY <1>1, <1>h, UnderWayUnchanged DEF allVars, brokerVars, publisher, agents
<1>2. CASE ControllerBoot \/ BrokerStarts \/ ControllerCrash \/ ClientGivesUp
  BY <1>2, <1>h, UnderWayUnchanged
     DEF ControllerBoot, BrokerStarts, ControllerCrash, ClientGivesUp, publisher, agents
<1>3. CASE BrokerStops
  <2>1. UNCHANGED <<vars, slots, inhand, worker, late, latest, newest>>
    BY <1>3 DEF BrokerStops, publisher
  <2>2. history' = history
    BY <2>1 DEF vars
  <2>3. wire' \in [Agents -> Seq(history)]
    BY <1>3 DEF BrokerStops, Disconnected
  <2> QED
    BY <2>1, <2>2, <2>3
<1>4. ASSUME NEW a \in Admins, BeginRequest(a) PROVE UnderWayRecorded'
  BY <1>4, <1>h, UnderWayUnchanged DEF BeginRequest, agents
<1>5. ASSUME NEW a \in Admins, Handler(a) PROVE UnderWayRecorded'
  <2>1. CASE StoreStep(a) \/ RespondUpdated(a)
    BY <2>1, <1>h, UnderWayUnchanged
       DEF StoreStep, RespondUpdated, brokerVars, publisher, agents
  <2>2. CASE CheckConnected(a) \/ CheckNotConnected(a) \/ PublishFails(a) \/ KeepFails(a)
    BY <2>2, <1>h, UnderWayUnchanged
       DEF CheckConnected, CheckNotConnected, PublishFails, KeepFails, agents
  <2>3. CASE Publish(a) \/ PublishRetried(a)
    <3>1. /\ UNCHANGED <<vars, slots, inhand, worker, late, latest>>
          /\ Broadcasted(Message(a))
          /\ pc[a] = "stored"
      BY <2>3 DEF Publish, PublishRetried, At
    <3>2. history' = history /\ Message(a) \in history
      BY <3>1, <1>q DEF vars
    <3>3. wire' \in [Agents -> Seq(history)] /\ newest' \in history
      BY <3>1, <3>2 DEF Broadcasted
    <3> QED
      BY <3>1, <3>2, <3>3
  <2>4. CASE KeepLatest(a)
    <3>1. /\ UNCHANGED <<vars, wire, slots, inhand, worker, late, newest>>
          /\ latest' = Message(a)
          /\ pc[a] = "stored"
      BY <2>4 DEF KeepLatest, At, agents
    <3>2. history' = history /\ Message(a) \in history
      BY <3>1, <1>q DEF vars
    <3> QED
      BY <3>1, <3>2
  <2> QED
    BY <1>5, <2>1, <2>2, <2>3, <2>4 DEF Handler
<1>6. ASSUME NEW g \in Agents, LinkBreaks(g) \/ Machine(g) \/ Agent(g)
      PROVE  UnderWayRecorded'
  <2>v. history' = history /\ UNCHANGED <<latest, newest>>
    BY <1>6 DEF Agent, AgentStart, Subscribe, Receive, ReceiveDropped, Handle,
       Forward, ForwardArrives, ForwardFails, ForwardEnds, LinkBreaks, Machine,
       WorkerRestarts, WorkerStalls, WorkerResumes, LateArrives, AgentCrash,
       LinkGivesUp, publisher, vars
  <2>1. CASE LinkBreaks(g)
    <3>1. wire' \in [Agents -> Seq(history)]
      BY <2>1 DEF LinkBreaks, Disconnected
    <3> QED
      BY <2>1, <2>v, <3>1 DEF LinkBreaks
  <2>2. CASE WorkerRestarts(g)
    BY <2>2, <2>v DEF WorkerRestarts
  <2>3. CASE AgentCrash(g)
    <3>1. late' \in [Agents -> SUBSET history]
      BY <2>3, CrashLeaves
    <3> QED
      BY <2>3, <2>v, <3>1 DEF AgentCrash, BroadcastTypeOK
  <2>4. CASE LinkGivesUp(g) \/ Subscribe(g) \/ WorkerStalls(g) \/ WorkerResumes(g)
    BY <2>4, <2>v DEF LinkGivesUp, Subscribe, WorkerStalls, WorkerResumes
  <2>10. CASE LateArrives(g)
    BY <2>10, <2>v DEF LateArrives
  <2>5. CASE AgentStart(g)
    BY <2>5, <2>v DEF AgentStart, BroadcastTypeOK
  <2>6. CASE Receive(g)
    BY <2>6, <2>v DEF Receive
  <2>7. CASE ReceiveDropped(g)
    BY <2>7, <2>v DEF ReceiveDropped
  <2>8. CASE Handle(g)
    <3>1. Head(slots[g]) \in history /\ Tail(slots[g]) \in Seq(history)
      BY <2>8 DEF Handle
    <3> QED
      BY <2>8, <2>v, <3>1 DEF Handle, BroadcastTypeOK
  <2>9. CASE ForwardArrives(g) \/ ForwardFails(g)
    BY <2>9, <2>v DEF ForwardArrives, ForwardFails, ForwardEnds, BroadcastTypeOK
  <2> QED
    BY <1>6, <2>1, <2>2, <2>3, <2>4, <2>5, <2>6, <2>7, <2>8, <2>9, <2>10
       DEF Agent, Forward, Machine
<1> QED
  BY <1>1, <1>2, <1>3, <1>4, <1>5, <1>6 DEF BroadcastNext, Environment

LEMMA UnderWayInvariant == BroadcastSpec => []UnderWayRecorded
BY UnderWayInit, UnderWayStep, StoreInvariant, BroadcastTypeCorrect, PTL
   DEF BroadcastSpec

\* Overlapping updates, crashes of the controller, repeated publications: a
\* worker never runs, and Redis never keeps, a configuration that the history
\* does not have.
THEOREM WorkersRunRecorded == BroadcastSpec => []RunsRecorded
<1>1. UnderWayRecorded => RunsRecorded
  BY DEF UnderWayRecorded, RunsRecorded
<1> QED
  BY <1>1, UnderWayInvariant, PTL

\* Two workers that were given the same version run the same configuration.
\* (Not so for polling agents, as one version can stand for two rows.)
THEOREM SameVersionSameConfiguration ==
  BroadcastSpec => [](\A g, h \in Agents :
    (worker[g] # NoMessage /\ worker[h] # NoMessage
       /\ worker[g].version = worker[h].version) => worker[g] = worker[h])
<1>1. HistoryInv /\ RunsRecorded =>
        \A g, h \in Agents :
          (worker[g] # NoMessage /\ worker[h] # NoMessage
             /\ worker[g].version = worker[h].version) => worker[g] = worker[h]
  BY DEF HistoryInv, HistoryIsTrue, RunsRecorded
<1> QED
  BY <1>1, StoreInvariant, WorkersRunRecorded, PTL

-----------------------------------------------------------------------------
(* What is not lost arrives.                                                *)

NewestAtEnd(q) == q # <<>> => q[Len(q)] = newest

\* Unless agent g has lost it, the newest message is the last one under way to
\* its worker, or the one the worker has got and not lost to a late POST.
Arrival(g) ==
  /\ ~dropped[g] =>
       /\ NewestAtEnd(wire[g])
       /\ wire[g] = <<>> =>
            /\ NewestAtEnd(slots[g])
            /\ (slots[g] = <<>> /\ apc[g] = "forward") => inhand[g] = newest
            /\ (slots[g] = <<>> /\ apc[g] # "forward" /\ ~failed[g]
                  /\ ~overtaken[g] /\ newest # NoMessage) => worker[g] = newest
  /\ (apc[g] = "ready" /\ last[g] # 0 /\ ~failed[g] /\ ~overtaken[g])
       => worker[g] # NoMessage /\ worker[g].version = last[g]
  /\ apc[g] = "forward" => inhand[g] # NoMessage /\ inhand[g].version = last[g]
  /\ apc[g] = "down" =>
       link[g] = "none" /\ wire[g] = <<>> /\ slots[g] = <<>> /\ last[g] = 0
  /\ link[g] # "on" => wire[g] = <<>>

ArrivalInv == \A g \in Agents : Arrival(g)

\* What was appended last is at the end.
LEMMA AppendLast ==
  ASSUME NEW S, NEW q \in Seq(S), NEW e \in S
  PROVE  Append(q, e) # <<>> /\ Append(q, e)[Len(Append(q, e))] = e
OBVIOUS

\* A step that leaves agent g and the newest message alone.
LEMMA ArrivalUnchanged ==
  ASSUME NEW g \in Agents, Arrival(g), newest' = newest,
         apc'[g] = apc[g], link'[g] = link[g], wire'[g] = wire[g],
         slots'[g] = slots[g], inhand'[g] = inhand[g], last'[g] = last[g],
         worker'[g] = worker[g], dropped'[g] = dropped[g], failed'[g] = failed[g],
         overtaken'[g] = overtaken[g]
  PROVE  Arrival(g)'
BY DEF Arrival, NewestAtEnd

LEMMA ArrivalInit == BroadcastInit => ArrivalInv
BY DEF BroadcastInit, ArrivalInv, Arrival, NewestAtEnd

\* Steps of the controller, of the broker and of the connections.
LEMMA ArrivalPublish ==
  ASSUME BroadcastTypeOK, ArrivalInv, NEW m \in Entry, Broadcasted(m),
         UNCHANGED <<apc, link, slots, inhand, last, worker, failed, overtaken>>
  PROVE  ArrivalInv'
<1> SUFFICES ASSUME NEW g \in Agents PROVE Arrival(g)'
  BY DEF ArrivalInv
<1>1. Arrival(g)
  BY DEF ArrivalInv
<1>2. CASE link[g] = "on"
  <2>1. wire'[g] = Append(wire[g], m) /\ newest' = m /\ wire[g] \in Seq(Entry)
    BY <1>2 DEF Broadcasted, BroadcastTypeOK
  <2>2. wire'[g] # <<>> /\ wire'[g][Len(wire'[g])] = m
    BY <2>1
  <2>3. apc[g] # "down"
    BY <1>1, <1>2 DEF Arrival
  <2>4. /\ apc'[g] = apc[g] /\ link'[g] = link[g] /\ slots'[g] = slots[g]
        /\ inhand'[g] = inhand[g] /\ last'[g] = last[g] /\ worker'[g] = worker[g]
        /\ failed'[g] = failed[g] /\ overtaken'[g] = overtaken[g]
    OBVIOUS
  <2>5. NewestAtEnd(wire[g])'
    BY <2>1, <2>2 DEF NewestAtEnd
  <2> QED
    BY <1>1, <1>2, <2>2, <2>3, <2>4, <2>5 DEF Arrival
<1>3. CASE link[g] # "on"
  BY <1>1, <1>3 DEF Arrival, Broadcasted
<1> QED
  BY <1>2, <1>3

LEMMA ArrivalDisconnect ==
  ASSUME BroadcastTypeOK, ArrivalInv, NEW S \in SUBSET Subscribed, Disconnected(S),
         UNCHANGED <<newest, apc, slots, inhand, last, worker, failed, overtaken>>
  PROVE  ArrivalInv'
<1> SUFFICES ASSUME NEW g \in Agents PROVE Arrival(g)'
  BY DEF ArrivalInv
<1>1. Arrival(g)
  BY DEF ArrivalInv
<1>2. /\ link'[g] = IF g \in S THEN "off" ELSE link[g]
      /\ wire'[g] = IF g \in S THEN <<>> ELSE wire[g]
      /\ dropped'[g] = (dropped[g] \/ (g \in S /\ wire[g] # <<>>))
  BY DEF Disconnected
<1>3. CASE g \in S
  <2>1. link[g] = "on" /\ apc[g] # "down"
    BY <1>1, <1>3 DEF Subscribed, Arrival
  <2>2. link'[g] = "off" /\ wire'[g] = <<>>
    BY <1>2, <1>3
  <2>3. ~dropped'[g] => ~dropped[g] /\ wire[g] = <<>>
    BY <1>2, <1>3
  <2> QED
    BY <1>1, <2>1, <2>2, <2>3 DEF Arrival, NewestAtEnd
<1>4. CASE g \notin S
  <2>1. link'[g] = link[g] /\ wire'[g] = wire[g]
    BY <1>2, <1>4
  <2>2. ~dropped'[g] => ~dropped[g]
    BY <1>2
  <2> QED
    BY <1>1, <2>1, <2>2 DEF Arrival, NewestAtEnd
<1> QED
  BY <1>3, <1>4

\* Steps of agent g.
LEMMA ArrivalAgent ==
  ASSUME TypeInv, BroadcastTypeOK, HistoryInv, UnderWayRecorded, NEW g \in Agents,
         Arrival(g), Agent(g) \/ Machine(g)
  PROVE  Arrival(g)'
<1>n. newest' = newest
  BY DEF Agent, AgentStart, Subscribe, Receive, ReceiveDropped, Handle, Forward,
     ForwardArrives, ForwardFails, ForwardEnds, Machine, WorkerRestarts,
     WorkerStalls, WorkerResumes, LateArrives, AgentCrash, LinkGivesUp, publisher
<1> USE DEF BroadcastTypeOK, posts
<1>1. CASE AgentStart(g)
  BY <1>n, <1>1 DEF AgentStart, Arrival, NewestAtEnd
<1>2. CASE Subscribe(g)
  BY <1>n, <1>2 DEF Subscribe, Arrival, NewestAtEnd
<1>3. CASE LinkGivesUp(g)
  BY <1>n, <1>3 DEF LinkGivesUp, Arrival, NewestAtEnd
<1>4. CASE WorkerRestarts(g)
  BY <1>n, <1>4 DEF WorkerRestarts, Arrival, NewestAtEnd
<1>5. CASE AgentCrash(g)
  <2>1. /\ apc'[g] = "down" /\ link'[g] = "none" /\ wire'[g] = <<>>
        /\ slots'[g] = <<>> /\ last'[g] = 0
        /\ worker'[g] = worker[g] /\ failed'[g] = failed[g]
        /\ overtaken'[g] = overtaken[g]
    BY <1>5 DEF AgentCrash
  <2>2. dropped'[g] = (dropped[g] \/ ~Settled(g))
    BY <1>5 DEF AgentCrash
  <2>3. ~dropped'[g] => ~dropped[g] /\ Settled(g)
    BY <2>2
  <2> QED
    BY <1>n, <2>1, <2>3 DEF Arrival, NewestAtEnd, Settled
<1>6. CASE Receive(g) \/ ReceiveDropped(g)
  <2>1. /\ wire[g] # <<>> /\ wire[g] \in Seq(Entry) /\ slots[g] \in Seq(Entry)
        /\ wire'[g] = Tail(wire[g])
        /\ apc'[g] = apc[g] /\ link'[g] = link[g] /\ inhand'[g] = inhand[g]
        /\ last'[g] = last[g] /\ worker'[g] = worker[g] /\ failed'[g] = failed[g]
        /\ overtaken'[g] = overtaken[g]
    BY <1>6 DEF Receive, ReceiveDropped
  <2>2. link[g] = "on" /\ apc[g] # "down"
    BY <2>1 DEF Arrival
  <2>3. wire'[g] # <<>> =>
          wire'[g][Len(wire'[g])] = wire[g][Len(wire[g])]
    BY <2>1
  <2>4. wire'[g] = <<>> => Head(wire[g]) = wire[g][Len(wire[g])]
    BY <2>1
  <2>5. CASE Receive(g)
    <3>1. slots'[g] = Append(slots[g], Head(wire[g])) /\ dropped'[g] = dropped[g]
      BY <2>5 DEF Receive
    <3>0. Head(wire[g]) \in Entry /\ slots[g] \in Seq(Entry)
      BY <2>1
    <3>a. /\ Append(slots[g], Head(wire[g])) # <<>>
          /\ Append(slots[g], Head(wire[g]))[Len(Append(slots[g], Head(wire[g])))]
               = Head(wire[g])
      <4> HIDE DEF BroadcastTypeOK
      <4> QED
        BY <3>0, AppendLast, Zenon
    <3>2. slots'[g] # <<>> /\ slots'[g][Len(slots'[g])] = Head(wire[g])
      BY <3>1, <3>a, Zenon
    <3>3. ~dropped'[g] => NewestAtEnd(wire[g])'
      BY <1>n, <2>1, <2>3, <3>1 DEF Arrival, NewestAtEnd
    <3>4. ~dropped'[g] /\ wire'[g] = <<>> => NewestAtEnd(slots[g])'
      BY <1>n, <2>1, <2>4, <3>1, <3>2 DEF Arrival, NewestAtEnd
    <3> QED
      BY <2>1, <2>2, <3>2, <3>3, <3>4 DEF Arrival
  <2>6. CASE ReceiveDropped(g)
    <3>1. /\ dropped'[g] = (dropped[g] \/ Head(wire[g]) = newest)
          /\ slots'[g] = slots[g]
      BY <2>6 DEF ReceiveDropped
    <3> QED
      BY <1>n, <2>1, <2>2, <2>3, <2>4, <3>1 DEF Arrival, NewestAtEnd
  <2> QED
    BY <1>6, <2>5, <2>6
<1>7. CASE Handle(g)
  <2> DEFINE m == Head(slots[g])
  <2>1. /\ apc[g] = "ready" /\ slots[g] # <<>> /\ slots[g] \in Seq(Entry)
        /\ slots'[g] = Tail(slots[g])
        /\ wire'[g] = wire[g] /\ link'[g] = link[g] /\ worker'[g] = worker[g]
        /\ failed'[g] = failed[g] /\ dropped'[g] = dropped[g]
        /\ overtaken'[g] = overtaken[g]
    BY <1>7 DEF Handle
  <2>2. slots'[g] # <<>> => slots'[g][Len(slots'[g])] = slots[g][Len(slots[g])]
    BY <2>1
  <2>3. slots'[g] = <<>> => m = slots[g][Len(slots[g])]
    BY <2>1
  <2>4. m \in Entry /\ m \in history /\ m # NoMessage /\ m.version # 0
    <3>1. slots[g] \in Seq(history)
      BY DEF UnderWayRecorded
    <3>2. m \in Entry /\ m \in history
      BY <2>1, <3>1
    <3> QED
      BY <3>2, NoMessageAssumption DEF Entry
  <2>5. CASE IsNewVersion(g, m)
    <3>1. last'[g] = m.version /\ inhand'[g] = m /\ apc'[g] = "forward"
      BY <1>7, <2>5 DEF Handle
    <3>2. slots'[g] = <<>> /\ wire'[g] = <<>> /\ ~dropped'[g] => m = newest
      BY <2>1, <2>3 DEF Arrival, NewestAtEnd
    <3>3. wire'[g] = <<>> /\ ~dropped'[g] => NewestAtEnd(slots[g])
      BY <2>1 DEF Arrival
    <3>4. wire'[g] = <<>> /\ ~dropped'[g] => NewestAtEnd(slots[g])'
      BY <1>n, <2>1, <2>2, <3>3 DEF NewestAtEnd
    <3>5. ~dropped'[g] => NewestAtEnd(wire[g])'
      BY <1>n, <2>1 DEF Arrival, NewestAtEnd
    <3> HIDE DEF m
    <3> QED
      BY <1>n, <2>1, <2>4, <3>1, <3>2, <3>4, <3>5 DEF Arrival
  <2>6. CASE ~IsNewVersion(g, m)
    <3>1. last'[g] = last[g] /\ inhand'[g] = inhand[g] /\ apc'[g] = apc[g]
          /\ m.version = last[g]
      BY <1>7, <2>6 DEF Handle, IsNewVersion
    <3>2. ~failed[g] /\ ~overtaken[g] => worker[g] = m
      <4> HAVE ~failed[g] /\ ~overtaken[g]
      <4>1. worker[g] \in history /\ worker[g].version = m.version
        BY <2>1, <2>4, <3>1 DEF Arrival, UnderWayRecorded
      <4> QED
        BY <2>4, <4>1 DEF HistoryInv, HistoryIsTrue
    <3> QED
      BY <1>n, <2>1, <2>2, <2>3, <3>1, <3>2 DEF Arrival, NewestAtEnd
  <2> QED
    BY <2>5, <2>6
<1>8. CASE ForwardArrives(g)
  BY <1>n, <1>8 DEF ForwardArrives, ForwardEnds, Arrival, NewestAtEnd
<1>9. CASE ForwardFails(g)
  BY <1>n, <1>9 DEF ForwardFails, ForwardEnds, Arrival, NewestAtEnd
<1>10. CASE WorkerStalls(g) \/ WorkerResumes(g)
  BY <1>n, <1>10 DEF WorkerStalls, WorkerResumes, Arrival, NewestAtEnd
<1>11. CASE LateArrives(g)
  BY <1>n, <1>11 DEF LateArrives, Arrival, NewestAtEnd
<1> QED
  BY <1>1, <1>2, <1>3, <1>4, <1>5, <1>6, <1>7, <1>8, <1>9, <1>10, <1>11
     DEF Agent, Forward, Machine

\* Steps of agent g seen from another agent.
LEMMA ArrivalOther ==
  ASSUME BroadcastTypeOK, NEW g \in Agents, NEW h \in Agents \ {g}, Arrival(h),
         Agent(g) \/ Machine(g)
  PROVE  Arrival(h)'
<1>1. /\ newest' = newest
      /\ apc'[h] = apc[h] /\ link'[h] = link[h] /\ wire'[h] = wire[h]
      /\ slots'[h] = slots[h] /\ inhand'[h] = inhand[h] /\ last'[h] = last[h]
      /\ worker'[h] = worker[h] /\ dropped'[h] = dropped[h]
      /\ failed'[h] = failed[h] /\ overtaken'[h] = overtaken[h]
  BY DEF Agent, AgentStart, Subscribe, Receive, ReceiveDropped, Handle, Forward,
     ForwardArrives, ForwardFails, ForwardEnds, Machine, WorkerRestarts,
     WorkerStalls, WorkerResumes, LateArrives, AgentCrash, LinkGivesUp, publisher,
     posts, BroadcastTypeOK
<1> QED
  BY <1>1, ArrivalUnchanged

LEMMA ArrivalStep ==
  TypeInv /\ BroadcastTypeOK /\ HistoryInv /\ UnderWayRecorded /\ ArrivalInv
    /\ [BroadcastNext]_allVars => ArrivalInv'
<1> SUFFICES ASSUME TypeInv, BroadcastTypeOK, HistoryInv, UnderWayRecorded,
                    ArrivalInv, [BroadcastNext]_allVars
             PROVE  ArrivalInv'
  OBVIOUS
<1> USE DEF posts
<1>u. ASSUME UNCHANGED <<newest, agents>> PROVE ArrivalInv'
  BY <1>u, ArrivalUnchanged DEF ArrivalInv, agents
<1>1. CASE UNCHANGED allVars
  BY <1>1, <1>u DEF allVars, brokerVars, publisher
<1>2. CASE ControllerBoot \/ BrokerStarts \/ ControllerCrash \/ ClientGivesUp
  BY <1>2, <1>u
     DEF ControllerBoot, BrokerStarts, ControllerCrash, ClientGivesUp, publisher
<1>3. CASE BrokerStops
  BY <1>3, ArrivalDisconnect DEF BrokerStops, publisher
<1>4. ASSUME NEW a \in Admins, BeginRequest(a) PROVE ArrivalInv'
  BY <1>4, <1>u DEF BeginRequest
<1>5. ASSUME NEW a \in Admins, Handler(a) PROVE ArrivalInv'
  <2>1. CASE Publish(a) \/ PublishRetried(a)
    BY <2>1, ArrivalPublish, MessageIsEntry DEF Publish, PublishRetried
  <2>2. CASE ~(Publish(a) \/ PublishRetried(a))
    BY <1>5, <2>2, <1>u DEF Handler, StoreStep, CheckConnected, CheckNotConnected,
       PublishFails, KeepLatest, KeepFails, RespondUpdated, brokerVars, publisher
  <2> QED
    BY <2>1, <2>2
<1>6. ASSUME NEW g \in Agents, LinkBreaks(g) PROVE ArrivalInv'
  <2>1. {g} \in SUBSET Subscribed
    BY <1>6 DEF LinkBreaks, Subscribed
  <2> QED
    BY <1>6, <2>1, ArrivalDisconnect DEF LinkBreaks, publisher
<1>7. ASSUME NEW g \in Agents,
             Agent(g) \/ Machine(g)
      PROVE  ArrivalInv'
  BY <1>7, ArrivalAgent, ArrivalOther DEF ArrivalInv
<1> QED
  BY <1>1, <1>2, <1>3, <1>4, <1>5, <1>6, <1>7 DEF BroadcastNext, Environment

LEMMA ArrivalInvariant == BroadcastSpec => []ArrivalInv
BY ArrivalInit, ArrivalStep, StoreInvariant, BroadcastTypeCorrect,
   UnderWayInvariant, PTL DEF BroadcastSpec

\* Under every fault and every overlap of updates: once nothing is under way to
\* an agent, its worker runs the message published last, unless that message or
\* its forward was lost, or a POST of an agent that has died came after it.  A
\* full channel, a repeated publication and messages in the wrong order of their
\* versions lose nothing else.
THEOREM EverythingElseArrives == BroadcastSpec => []UpToDate
<1>1. ArrivalInv => UpToDate
  BY DEF ArrivalInv, Arrival, UpToDate, Settled
<1> QED
  BY <1>1, ArrivalInvariant, PTL

\* The agents' memory of versions is right under every fault, overlap and
\* order of messages: what they have recorded is what their workers run, unless
\* the forward of it failed or a POST of an earlier agent came after it.
THEOREM RecordedVersionRuns == BroadcastSpec => []LastIsRunning
<1>1. ArrivalInv => LastIsRunning
  BY DEF ArrivalInv, Arrival, LastIsRunning
<1> QED
  BY <1>1, ArrivalInvariant, PTL

-----------------------------------------------------------------------------
(* Without overlapping updates workers never go back.                       *)

\* Until updates have overlapped, the store is the serial one.
LEMMA SerialUntilOverlap ==
  ASSUME [BroadcastNext]_allVars, ~overlapped'
  PROVE  ~overlapped /\ [SerialNext]_vars
<1> USE DEF vars
<1>1. CASE UNCHANGED allVars
  BY <1>1 DEF allVars, brokerVars, publisher
<1>2. CASE ControllerBoot \/ BrokerStarts \/ ControllerCrash \/ ClientGivesUp \/ BrokerStops
  BY <1>2 DEF ControllerBoot, BrokerStarts, ControllerCrash, ClientGivesUp,
     BrokerStops, publisher, SerialNext
<1>3. ASSUME NEW a \in Admins, BeginRequest(a)
      PROVE  ~overlapped /\ [SerialNext]_vars
  BY <1>3 DEF BeginRequest, SerialNext
<1>4. ASSUME NEW a \in Admins, Handler(a)
      PROVE  ~overlapped /\ [SerialNext]_vars
  <2>1. CASE StoreStep(a)
    BY <2>1 DEF StoreStep, Step, SerialNext, brokerVars, publisher
  <2>2. CASE RespondUpdated(a)
    BY <2>2 DEF RespondUpdated, Step, SerialNext
  <2> QED
    BY <1>4, <2>1, <2>2 DEF Handler, CheckConnected, CheckNotConnected, Publish,
       PublishRetried, PublishFails, KeepLatest, KeepFails
<1>5. ASSUME NEW g \in Agents, LinkBreaks(g) \/ Machine(g) \/ Agent(g)
      PROVE  ~overlapped /\ [SerialNext]_vars
  BY <1>5 DEF Agent, AgentStart, Subscribe, Receive, ReceiveDropped, Handle,
     Forward, ForwardArrives, ForwardFails, ForwardEnds, LinkBreaks, Machine,
     WorkerRestarts, WorkerStalls, WorkerResumes, LateArrives, AgentCrash,
     LinkGivesUp, publisher
<1> QED
  BY <1>1, <1>2, <1>3, <1>4, <1>5 DEF BroadcastNext, Environment

SerialSoFar == ~overlapped => SerialInv

LEMMA SerialSoFarInvariant == BroadcastSpec => []SerialSoFar
<1>1. BroadcastInit => SerialSoFar
  BY SerialInit DEF BroadcastInit, SerialSoFar
<1>2. TypeInv /\ SerialSoFar /\ [BroadcastNext]_allVars => SerialSoFar'
  BY SerialUntilOverlap, SerialStep DEF SerialSoFar
<1> QED
  BY <1>1, <1>2, StoreInvariant, PTL DEF BroadcastSpec

\* Then nothing recorded is newer than what a handler is about to publish.
LEMMA MessageIsNewest ==
  ASSUME TypeInv, HistoryInv, SerialInv, NEW a \in Admins, pc[a] = "stored",
         NEW e \in history
  PROVE  e.version <= Message(a).version
<1>1. active = NewRow(a) /\ NewRow(a).version \in Nat
  BY NewRowIsRow DEF SerialInv, HandlerIsCurrent, TypeInv
<1>2. PICK r \in published : EntryOf(r) = e
  BY DEF HistoryInv, HistoryIsTrue
<1>3. r.version = e.version /\ r.version \in Nat
  BY <1>2 DEF EntryOf, TypeInv, TypeOK, Row
<1>4. r.version < active.version \/ r = active
  BY DEF SerialInv, ActiveIsNewest
<1>5. Message(a).version = NewRow(a).version
  BY DEF Message, EntryOf
<1> QED
  BY <1>1, <1>3, <1>4, <1>5

\* A published version that is active stands for the active row.
LEMMA NewestIsActive ==
  ASSUME TypeInv, HistoryInv, SerialInv, UnderWayRecorded, newest # NoMessage,
         newest.version = active.version
  PROVE  newest = EntryOf(active)
<1>1. newest \in history
  BY DEF UnderWayRecorded
<1>2. PICK r \in published : EntryOf(r) = newest
  BY <1>1 DEF HistoryInv, HistoryIsTrue
<1>3. r.version = newest.version /\ r.version \in Nat
  BY <1>2 DEF EntryOf, TypeInv, TypeOK, Row
<1>4. r.version < active.version \/ r = active
  BY DEF SerialInv, ActiveIsNewest
<1> QED
  BY <1>2, <1>3, <1>4

\* Across the controller's two stores of an update, the database and the broker:
\* if the active configuration has been published, and nothing of it was lost,
\* the settled workers run just what the database answers.  Overlapping requests
\* can leave active a row that was never published under a version that was.
ActiveRuns ==
  (~overlapped /\ newest # NoMessage /\ newest.version = active.version)
    => \A g \in Agents :
         (Settled(g) /\ ~dropped[g] /\ ~failed[g] /\ ~overtaken[g])
           => worker[g] = EntryOf(active)

\* From the database to the worker, as long as requests have not overlapped: the
\* active configuration, once published, is what every settled agent's worker
\* runs, unless it was lost on the way or a late POST came after it.
THEOREM WorkersRunActive == BroadcastSpec => []ActiveRuns
<1>1. TypeInv /\ HistoryInv /\ UnderWayRecorded /\ SerialSoFar /\ UpToDate
        => ActiveRuns
  BY NewestIsActive DEF SerialSoFar, UpToDate, ActiveRuns
<1> QED
  BY <1>1, StoreInvariant, UnderWayInvariant, SerialSoFarInvariant,
     EverythingElseArrives, PTL

\* e does not come after the elements of q.
Before(e, q) == \A i \in 1..Len(q) : e.version <= q[i].version

Sorted(q) == \A i, j \in 1..Len(q) : i <= j => q[i].version <= q[j].version

\* What the worker of g has read or has yet to read of agents that have died.
Stored(g) == late[g] \cup ({worker[g]} \ {NoMessage})

\* What an agent has on the way to its worker is in the order of the versions,
\* and none of it is older than what the worker stores or may read late: message
\* in hand, slots and wire.
InOrder(g) ==
  /\ Sorted(wire[g])
  /\ Sorted(slots[g])
  /\ \A i \in 1..Len(slots[g]) : Before(slots[g][i], wire[g])
  /\ apc[g] = "forward" => Before(inhand[g], slots[g]) /\ Before(inhand[g], wire[g])
  /\ \A e \in Stored(g) :
       /\ Before(e, slots[g]) /\ Before(e, wire[g])
       /\ apc[g] = "forward" => e.version <= inhand[g].version

(* Facts about such queues.                                                 *)

LEMMA SortedTail ==
  ASSUME NEW q \in Seq(Entry), q # <<>>, Sorted(q)
  PROVE  Sorted(Tail(q)) /\ Before(Head(q), Tail(q))
<1>1. /\ Len(Tail(q)) = Len(q) - 1 /\ Len(q) \in Nat \ {0}
      /\ \A i \in 1..Len(Tail(q)) : Tail(q)[i] = q[i + 1] /\ i + 1 \in 1..Len(q)
      /\ Head(q) = q[1] /\ 1 \in 1..Len(q)
  OBVIOUS
<1> QED
  BY <1>1 DEF Sorted, Before

LEMMA BeforeTail ==
  ASSUME NEW q \in Seq(Entry), q # <<>>, NEW e, Before(e, q)
  PROVE  Before(e, Tail(q)) /\ e.version <= Head(q).version
<1>1. /\ \A i \in 1..Len(Tail(q)) : Tail(q)[i] = q[i + 1] /\ i + 1 \in 1..Len(q)
      /\ Head(q) = q[1] /\ 1 \in 1..Len(q)
  OBVIOUS
<1> QED
  BY <1>1 DEF Before

LEMMA BeforeAppend ==
  ASSUME NEW q \in Seq(Entry), NEW m \in Entry, NEW e, Before(e, q),
         e.version <= m.version
  PROVE  Before(e, Append(q, m))
<1>1. /\ Len(Append(q, m)) = Len(q) + 1 /\ Len(q) \in Nat
      /\ \A i \in 1..Len(q) : Append(q, m)[i] = q[i]
      /\ Append(q, m)[Len(q) + 1] = m
  OBVIOUS
<1> QED
  BY <1>1 DEF Before

LEMMA SortedAppend ==
  ASSUME NEW q \in Seq(Entry), NEW m \in Entry, Sorted(q),
         \A i \in 1..Len(q) : q[i].version <= m.version
  PROVE  Sorted(Append(q, m))
<1>1. /\ Len(Append(q, m)) = Len(q) + 1 /\ Len(q) \in Nat
      /\ \A i \in 1..Len(q) : Append(q, m)[i] = q[i]
      /\ Append(q, m)[Len(q) + 1] = m
  OBVIOUS
<1>2. m.version <= m.version
  BY DEF Entry
<1> QED
  BY <1>1, <1>2 DEF Sorted

(* The steps.                                                               *)

LEMMA OrderUnchanged ==
  ASSUME NEW g \in Agents, InOrder(g), apc'[g] = apc[g], wire'[g] = wire[g],
         slots'[g] = slots[g], inhand'[g] = inhand[g], worker'[g] = worker[g],
         late'[g] = late[g]
  PROVE  InOrder(g)'
BY DEF InOrder, Stored, Sorted, Before

\* A step that leaves to the worker no more than it had.
LEMMA OrderFewer ==
  ASSUME NEW g \in Agents, InOrder(g), wire'[g] = wire[g], slots'[g] = slots[g],
         inhand'[g] = inhand[g] \/ apc'[g] # "forward",
         apc'[g] = "forward" => apc[g] = "forward", Stored(g)' \subseteq Stored(g)
  PROVE  InOrder(g)'
<1>1. \A e \in Stored(g)' : e \in Stored(g)
  OBVIOUS
<1> QED
  BY <1>1 DEF InOrder, Sorted, Before

LEMMA OrderPublish ==
  ASSUME TypeInv, BroadcastTypeOK, UnderWayRecorded, NEW g \in Agents, InOrder(g),
         NEW m \in Entry, Broadcasted(m),
         \A e \in history : e.version <= m.version,
         UNCHANGED <<apc, slots, inhand, worker, late>>
  PROVE  InOrder(g)'
<1>1. CASE link[g] # "on"
  BY <1>1, OrderUnchanged DEF Broadcasted
<1>2. CASE link[g] = "on"
  <2>1. wire'[g] = Append(wire[g], m)
    BY <1>2 DEF Broadcasted
  <2>2. wire[g] \in Seq(Entry) /\ wire[g] \in Seq(history) /\ slots[g] \in Seq(history)
    BY DEF BroadcastTypeOK, UnderWayRecorded
  <2>3. Sorted(Append(wire[g], m))
    <3>1. \A i \in 1..Len(wire[g]) : wire[g][i].version <= m.version
      BY <2>2
    <3> QED
      BY <2>2, <3>1, SortedAppend DEF InOrder
  <2>4. \A e \in history : Before(e, wire[g]) => Before(e, Append(wire[g], m))
    BY <2>2, BeforeAppend
  <2>5. \A i \in 1..Len(slots[g]) : slots[g][i] \in history
    BY <2>2
  <2>6. /\ apc[g] = "forward" => inhand[g] \in history
        /\ Stored(g) \subseteq history
    BY DEF UnderWayRecorded, BroadcastTypeOK, Stored
  <2>7. /\ Sorted(slots[g])
        /\ \A i \in 1..Len(slots[g]) : Before(slots[g][i], Append(wire[g], m))
        /\ apc[g] = "forward" =>
             Before(inhand[g], slots[g]) /\ Before(inhand[g], Append(wire[g], m))
        /\ \A e \in Stored(g) :
             /\ Before(e, slots[g]) /\ Before(e, Append(wire[g], m))
             /\ apc[g] = "forward" => e.version <= inhand[g].version
    BY <2>4, <2>5, <2>6 DEF InOrder
  <2>8. /\ apc'[g] = apc[g] /\ slots'[g] = slots[g] /\ inhand'[g] = inhand[g]
        /\ Stored(g)' = Stored(g)
    BY DEF Stored
  <2> QED
    BY <2>1, <2>3, <2>7, <2>8 DEF InOrder, Before, Sorted
<1> QED
  BY <1>1, <1>2

LEMMA OrderDisconnect ==
  ASSUME BroadcastTypeOK, NEW g \in Agents, InOrder(g), NEW S, Disconnected(S),
         UNCHANGED <<apc, slots, inhand, worker, late>>
  PROVE  InOrder(g)'
<1>1. wire'[g] = wire[g] \/ wire'[g] = <<>>
  BY DEF Disconnected
<1>2. CASE wire'[g] = wire[g]
  BY <1>2, OrderUnchanged
<1>3. CASE wire'[g] = <<>>
  <2>1. Len(wire'[g]) = 0 /\ Stored(g)' = Stored(g)
    BY <1>3 DEF Stored
  <2> QED
    BY <2>1 DEF InOrder, Sorted, Before
<1> QED
  BY <1>1, <1>2, <1>3

LEMMA OrderAgent ==
  ASSUME BroadcastTypeOK, UnderWayRecorded, NEW g \in Agents, InOrder(g),
         Agent(g) \/ Machine(g)
  PROVE  InOrder(g)'
<1> USE DEF BroadcastTypeOK, posts
<1>1. CASE AgentStart(g)
  BY <1>1, OrderFewer DEF AgentStart, Stored
<1>2. CASE Subscribe(g) \/ LinkGivesUp(g) \/ WorkerStalls(g) \/ WorkerResumes(g)
  BY <1>2, OrderUnchanged DEF Subscribe, LinkGivesUp, WorkerStalls, WorkerResumes
<1>3. CASE WorkerRestarts(g)
  BY <1>3, OrderFewer DEF WorkerRestarts, Stored
<1>9. CASE LateArrives(g)
  <2>1. Stored(g)' \subseteq Stored(g)
    BY <1>9, NoMessageAssumption DEF LateArrives, Stored
  <2> QED
    BY <1>9, <2>1, OrderFewer DEF LateArrives
<1>4. CASE AgentCrash(g)
  <2>1. wire'[g] = <<>> /\ slots'[g] = <<>> /\ apc'[g] = "down"
    BY <1>4 DEF AgentCrash
  <2>2. Len(wire'[g]) = 0 /\ Len(slots'[g]) = 0
    BY <2>1
  <2> QED
    BY <2>1, <2>2 DEF InOrder, Sorted, Before
<1>5. CASE Receive(g) \/ ReceiveDropped(g)
  <2> DEFINE m == Head(wire[g])
  <2>1. /\ wire[g] # <<>> /\ wire[g] \in Seq(Entry) /\ slots[g] \in Seq(Entry)
        /\ m \in Entry /\ wire'[g] = Tail(wire[g])
        /\ apc'[g] = apc[g] /\ inhand'[g] = inhand[g] /\ Stored(g)' = Stored(g)
    BY <1>5 DEF Receive, ReceiveDropped, Stored
  <2>2. Sorted(Tail(wire[g])) /\ Before(m, Tail(wire[g]))
    BY <2>1, SortedTail DEF InOrder
  <2>3. \A e : Before(e, wire[g]) => Before(e, Tail(wire[g])) /\ e.version <= m.version
    BY <2>1, BeforeTail
  <2>4. CASE slots'[g] = slots[g]
    BY <2>1, <2>2, <2>3, <2>4 DEF InOrder, Sorted, Before
  <2>5. CASE slots'[g] = Append(slots[g], m)
    <3>1. /\ \A i \in 1..Len(slots[g]) : slots[g][i].version <= m.version
          /\ \A i \in 1..Len(slots[g]) : Before(slots[g][i], Tail(wire[g]))
      BY <2>3 DEF InOrder
    <3>2. Sorted(Append(slots[g], m))
      BY <2>1, <3>1, SortedAppend DEF InOrder
    <3>3. \A e : Before(e, slots[g]) /\ e.version <= m.version
                  => Before(e, Append(slots[g], m))
      BY <2>1, BeforeAppend
    <3>4. \A i \in 1..Len(Append(slots[g], m)) :
             Before(Append(slots[g], m)[i], Tail(wire[g]))
      <4>1. /\ Len(Append(slots[g], m)) = Len(slots[g]) + 1 /\ Len(slots[g]) \in Nat
            /\ \A i \in 1..Len(slots[g]) : Append(slots[g], m)[i] = slots[g][i]
            /\ Append(slots[g], m)[Len(slots[g]) + 1] = m
        BY <2>1
      <4> HIDE DEF m
      <4> QED
        BY <2>2, <3>1, <4>1
    <3>5. /\ apc[g] = "forward" =>
               Before(inhand[g], Append(slots[g], m)) /\ Before(inhand[g], Tail(wire[g]))
          /\ \A e \in Stored(g) :
               /\ Before(e, Append(slots[g], m))
               /\ Before(e, Tail(wire[g]))
               /\ apc[g] = "forward" => e.version <= inhand[g].version
      BY <2>3, <3>3 DEF InOrder
    <3> HIDE DEF m
    <3> QED
      BY <2>1, <2>2, <2>5, <3>2, <3>4, <3>5 DEF InOrder, Sorted, Before
  <2> QED
    BY <1>5, <2>4, <2>5 DEF Receive, ReceiveDropped
<1>6. CASE Handle(g)
  <2> DEFINE m == Head(slots[g])
  <2>1. /\ slots[g] # <<>> /\ slots[g] \in Seq(Entry) /\ apc[g] = "ready"
        /\ slots'[g] = Tail(slots[g]) /\ wire'[g] = wire[g]
        /\ Stored(g)' = Stored(g)
    BY <1>6 DEF Handle, Stored
  <2>2. Sorted(Tail(slots[g])) /\ Before(m, Tail(slots[g]))
    BY <2>1, SortedTail DEF InOrder
  <2>3. \A e : Before(e, slots[g]) => Before(e, Tail(slots[g])) /\ e.version <= m.version
    BY <2>1, BeforeTail
  <2>4. /\ Before(m, wire[g])
        /\ \A i \in 1..Len(Tail(slots[g])) : Before(Tail(slots[g])[i], wire[g])
    <3>1. /\ \A i \in 1..Len(Tail(slots[g])) :
               Tail(slots[g])[i] = slots[g][i + 1] /\ i + 1 \in 1..Len(slots[g])
          /\ m = slots[g][1] /\ 1 \in 1..Len(slots[g])
      BY <2>1
    <3> HIDE DEF m
    <3> QED
      BY <3>1 DEF InOrder
  <2>5. /\ apc'[g] = "forward" => inhand'[g] = m
    BY <1>6, <2>1 DEF Handle
  <2> HIDE DEF m
  <2> QED
    BY <2>1, <2>2, <2>3, <2>4, <2>5 DEF InOrder, Sorted, Before
<1>7. CASE ForwardArrives(g)
  <2>1. /\ apc[g] = "forward" /\ apc'[g] = "ready"
        /\ wire'[g] = wire[g] /\ slots'[g] = slots[g]
        /\ Stored(g)' \subseteq Stored(g) \cup {inhand[g]}
    BY <1>7 DEF ForwardArrives, ForwardEnds, Stored
  <2>2. \A e \in Stored(g)' : e \in Stored(g) \/ e = inhand[g]
    BY <2>1
  <2> QED
    BY <2>1, <2>2 DEF InOrder, Sorted, Before
<1>8. CASE ForwardFails(g)
  BY <1>8, OrderFewer DEF ForwardFails, ForwardEnds, Stored
<1> QED
  BY <1>1, <1>2, <1>3, <1>4, <1>5, <1>6, <1>7, <1>8, <1>9 DEF Agent, Forward, Machine

\* Steps of agent g seen from another agent.
LEMMA OrderOther ==
  ASSUME BroadcastTypeOK, NEW g \in Agents, NEW h \in Agents \ {g}, InOrder(h),
         Agent(g) \/ Machine(g)
  PROVE  InOrder(h)'
<1>1. /\ apc'[h] = apc[h] /\ wire'[h] = wire[h] /\ slots'[h] = slots[h]
      /\ inhand'[h] = inhand[h] /\ worker'[h] = worker[h] /\ late'[h] = late[h]
  BY DEF Agent, AgentStart, Subscribe, Receive, ReceiveDropped, Handle, Forward,
     ForwardArrives, ForwardFails, ForwardEnds, Machine, WorkerRestarts,
     WorkerStalls, WorkerResumes, LateArrives, AgentCrash, LinkGivesUp, posts,
     BroadcastTypeOK
<1> QED
  BY <1>1, OrderUnchanged

OrderInv == ~overlapped => \A g \in Agents : InOrder(g)

LEMMA OrderInit == BroadcastInit => OrderInv
BY DEF BroadcastInit, OrderInv, InOrder, Stored, Sorted, Before

LEMMA OrderStep ==
  TypeInv /\ HistoryInv /\ BroadcastTypeOK /\ UnderWayRecorded /\ SerialSoFar
    /\ OrderInv /\ [BroadcastNext]_allVars => OrderInv'
<1> SUFFICES ASSUME TypeInv, HistoryInv, BroadcastTypeOK, UnderWayRecorded,
                    SerialSoFar, OrderInv, [BroadcastNext]_allVars, ~overlapped',
                    NEW g \in Agents
             PROVE  InOrder(g)'
  BY DEF OrderInv
<1>s. SerialInv /\ InOrder(g)
  BY SerialUntilOverlap DEF SerialSoFar, OrderInv
<1> USE DEF posts
<1>u. ASSUME UNCHANGED agents PROVE InOrder(g)'
  BY <1>s, <1>u, OrderUnchanged DEF agents
<1>1. CASE UNCHANGED allVars
  BY <1>1, <1>u DEF allVars, brokerVars
<1>2. CASE ControllerBoot \/ BrokerStarts \/ ControllerCrash \/ ClientGivesUp
  BY <1>2, <1>u DEF ControllerBoot, BrokerStarts, ControllerCrash, ClientGivesUp
<1>3. CASE BrokerStops
  BY <1>3, <1>s, OrderDisconnect DEF BrokerStops
<1>4. ASSUME NEW a \in Admins, BeginRequest(a) PROVE InOrder(g)'
  BY <1>4, <1>u DEF BeginRequest
<1>5. ASSUME NEW a \in Admins, Handler(a) PROVE InOrder(g)'
  <2>1. CASE Publish(a) \/ PublishRetried(a)
    <3>1. /\ Broadcasted(Message(a)) /\ pc[a] = "stored"
          /\ UNCHANGED <<apc, slots, inhand, worker, late>>
      BY <2>1 DEF Publish, PublishRetried, At
    <3>2. \A e \in history : e.version <= Message(a).version
      BY <3>1, <1>s, MessageIsNewest
    <3>3. Message(a) \in Entry
      BY MessageIsEntry
    <3> QED
      BY <1>s, <3>1, <3>2, <3>3, OrderPublish
  <2>2. CASE ~(Publish(a) \/ PublishRetried(a))
    BY <1>5, <2>2, <1>u DEF Handler, StoreStep, CheckConnected, CheckNotConnected,
       PublishFails, KeepLatest, KeepFails, RespondUpdated, brokerVars
  <2> QED
    BY <2>1, <2>2
<1>6. ASSUME NEW h \in Agents, LinkBreaks(h) PROVE InOrder(g)'
  BY <1>6, <1>s, OrderDisconnect DEF LinkBreaks
<1>7. ASSUME NEW h \in Agents,
             Agent(h) \/ Machine(h)
      PROVE  InOrder(g)'
  <2>1. CASE h = g
    BY <1>7, <1>s, <2>1, OrderAgent
  <2>2. CASE h # g
    BY <1>7, <1>s, <2>2, OrderOther
  <2> QED
    BY <2>1, <2>2
<1> QED
  BY <1>1, <1>2, <1>3, <1>4, <1>5, <1>6, <1>7 DEF BroadcastNext, Environment

LEMMA OrderInvariant == BroadcastSpec => []OrderInv
BY OrderInit, OrderStep, StoreInvariant, BroadcastTypeCorrect, UnderWayInvariant,
   SerialSoFarInvariant, PTL DEF BroadcastSpec

\* A worker that gets another configuration gets the one in hand, or one of an
\* agent that has died.
LEMMA WorkerChange ==
  ASSUME BroadcastTypeOK, [BroadcastNext]_allVars, NEW g \in Agents,
         worker[g] # NoMessage, worker'[g] # NoMessage, worker'[g] # worker[g]
  PROVE  \/ apc[g] = "forward" /\ worker'[g] = inhand[g]
         \/ worker'[g] \in late[g] \ late'[g]
<1> USE DEF BroadcastTypeOK
<1>1. PICK h \in Agents : WorkerRestarts(h) \/ ForwardArrives(h) \/ LateArrives(h)
  <2>1. ~ UNCHANGED worker
    OBVIOUS
  <2>2. ~ UNCHANGED agents
    BY <2>1 DEF agents
  <2>3. \A a \in Admins : ~Handler(a) /\ ~BeginRequest(a)
    BY <2>1, <2>2 DEF Handler, StoreStep, CheckConnected, CheckNotConnected, Publish,
       PublishRetried, PublishFails, KeepLatest, KeepFails, RespondUpdated,
       BeginRequest, brokerVars
  <2>4. /\ ~ UNCHANGED allVars /\ ~ControllerBoot /\ ~BrokerStarts /\ ~ControllerCrash
        /\ ~ClientGivesUp /\ ~BrokerStops
    BY <2>1, <2>2 DEF allVars, brokerVars, ControllerBoot, BrokerStarts,
       ControllerCrash, ClientGivesUp, BrokerStops
  <2> QED
    BY <2>1, <2>3, <2>4 DEF BroadcastNext, Environment, Machine, LinkBreaks,
       AgentCrash, LinkGivesUp, WorkerStalls, WorkerResumes, Agent, AgentStart,
       Subscribe, Receive, ReceiveDropped, Handle, Forward, ForwardFails
<1>2. CASE WorkerRestarts(h)
  BY <1>2 DEF WorkerRestarts
<1>3. CASE ForwardArrives(h)
  BY <1>3 DEF ForwardArrives, ForwardEnds
<1>4. CASE LateArrives(h)
  BY <1>4 DEF LateArrives
<1> QED
  BY <1>1, <1>2, <1>3, <1>4

\* As long as updates have not overlapped, only a POST whose sender has died takes
\* a worker back to an older version: neither a repeated publication nor a
\* dropped message, a restart of anything or a lost connection lets a message
\* overtake a newer one.
THEOREM WorkersNeverStepBack == BroadcastSpec => NoStepBack
<1>1. BroadcastTypeOK /\ OrderInv /\ [BroadcastNext]_allVars
        => [~overlapped =>
              \A g \in Agents :
                (worker[g] # NoMessage /\ worker'[g] # NoMessage
                   /\ worker'[g].version < worker[g].version)
                  => worker'[g] \in late[g] \ late'[g]]_allVars
  <2> SUFFICES ASSUME BroadcastTypeOK, OrderInv, [BroadcastNext]_allVars,
                      ~overlapped, NEW g \in Agents,
                      worker[g] # NoMessage, worker'[g] # NoMessage,
                      worker'[g].version < worker[g].version
               PROVE  worker'[g] \in late[g] \ late'[g]
    OBVIOUS
  <2>1. worker[g].version \in Nat
    BY DEF BroadcastTypeOK, Entry
  <2>2. worker'[g] # worker[g]
    BY <2>1
  <2>3. CASE apc[g] = "forward" /\ worker'[g] = inhand[g]
    <3>1. inhand[g].version \in Nat
      BY <2>3 DEF BroadcastTypeOK, Entry
    <3>2. worker[g].version <= inhand[g].version
      BY <2>3 DEF OrderInv, InOrder, Stored
    <3> QED
      BY <2>1, <2>3, <3>1, <3>2
  <2> QED
    BY <2>2, <2>3, WorkerChange
<1> QED
  BY <1>1, OrderInvariant, BroadcastTypeCorrect, PTL DEF BroadcastSpec, NoStepBack
=============================================================================
