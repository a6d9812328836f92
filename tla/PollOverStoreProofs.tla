------------------------ MODULE PollOverStoreProofs ------------------------
(***************************************************************************)
(* The agent over the real store, for any number of callers,               *)
(* configurations, faults and removed databases.                           *)
(***************************************************************************)
EXTENDS PollOverStore, ConfigStoreProofs

-----------------------------------------------------------------------------
(* The lemmas about PollAgent, for the agent of this module.                 *)

Lemmas == INSTANCE PollAgentProofs WITH row <- Current, pc <- apc, Faults <- AgentFaults

LEMMA AgentAssumptions ==
  /\ FirstRow \in Row /\ FirstRow.version = 1
  /\ Intervals \subseteq Int
  /\ DefaultPeriod \in Nat \ {0} /\ MaxBackoff \in Nat \ {0}
  /\ AgentFaults \subseteq Lemmas!FaultKinds /\ MaxFaults \in Nat
  /\ MaxVersion \in Nat
  /\ NoConfig \notin Row /\ Torn \notin Row /\ NoConfig # Torn
  /\ Empty \notin Int
<1>1. FirstRow \in Row /\ FirstRow.version = 1
  BY FirstRowIsRow DEF FirstRow
<1>2. Intervals \subseteq Int
  BY QueriesAssumption, IntervalAssumption DEF Intervals, EffectiveInterval
<1>3. AgentFaults \subseteq Lemmas!FaultKinds
  BY AgentFaultsAssumption DEF Agent!FaultKinds, Lemmas!FaultKinds
<1> QED
  BY <1>1, <1>2, <1>3, PollerAssumption, BoundAssumption

LEMMA SameRow == Lemmas!Row = Row /\ Agent!Row = Row
BY DEF Lemmas!Row, Agent!Row, Row

\* Two instances of one module have the same actions.
LEMMA SameAgent ==
  /\ UNCHANGED Lemmas!vars <=> UNCHANGED Agent!vars
  /\ Lemmas!Next <=> Agent!Next
<1>1. UNCHANGED Lemmas!vars <=> UNCHANGED Agent!vars
  BY DEF Lemmas!vars, Agent!vars, Lemmas!agent, Agent!agent, Lemmas!link, Agent!link
<1>2. Lemmas!Next <=> Agent!Next
  BY DEF Lemmas!Next, Agent!Next, Lemmas!Environment, Agent!Environment,
         Lemmas!AdminUpdate, Agent!AdminUpdate, Lemmas!ControllerStops,
         Agent!ControllerStops, Lemmas!ControllerStarts,
         Agent!ControllerStarts, Lemmas!WorkerRestarts, Agent!WorkerRestarts,
         Lemmas!WorkerStalls, Agent!WorkerStalls, Lemmas!WorkerResumes,
         Agent!WorkerResumes, Lemmas!LateArrives, Agent!LateArrives,
         Lemmas!AgentCrash, Agent!AgentCrash, Lemmas!AgentStart,
         Agent!AgentStart, Lemmas!Startup, Agent!Startup, Lemmas!Register,
         Agent!Register, Lemmas!RegisterFails, Agent!RegisterFails,
         Lemmas!LoadCache, Agent!LoadCache, Lemmas!ForwardCached,
         Agent!ForwardCached, Lemmas!TakeInterval, Agent!TakeInterval,
         Lemmas!Tick, Agent!Tick, Lemmas!Request, Agent!Request,
         Lemmas!RequestFails, Agent!RequestFails, Lemmas!Respond,
         Agent!Respond, Lemmas!ForwardOK, Agent!ForwardOK,
         Lemmas!ForwardFails, Agent!ForwardFails, Lemmas!TruncateCache,
         Agent!TruncateCache, Lemmas!WriteCache, Agent!WriteCache,
         Lemmas!SaveFails, Agent!SaveFails, Lemmas!OfferInterval,
         Agent!OfferInterval, Lemmas!BackoffOver, Agent!BackoffOver,
         Lemmas!Poll, Agent!Poll, Lemmas!NewInterval, Agent!NewInterval,
         Lemmas!IsChange, Agent!IsChange, Lemmas!PollError, Agent!PollError,
         Lemmas!Delivered, Agent!Delivered, Lemmas!ReplyLost, Agent!ReplyLost,
         Lemmas!Undelivered, Agent!Undelivered, Lemmas!Applied, Agent!Applied,
         Lemmas!Fault, Agent!Fault, Lemmas!Goto, Agent!Goto,
         Lemmas!NextBackoff, Agent!NextBackoff, Lemmas!HasCache,
         Agent!HasCache, Lemmas!NewPoller, Agent!NewPoller, Lemmas!Set,
         Agent!Set, Lemmas!Forwarding, Agent!Forwarding, Lemmas!agent,
         Agent!agent, Lemmas!link, Agent!link, Lemmas!vars, Agent!vars
<1> QED
  BY <1>1, <1>2

\* The invariants of one agent, which hold whatever the controller stores.
AgentInv == Lemmas!TypeInv /\ Lemmas!SyncInv

LEMMA AgentInvInit == Agent!Init => AgentInv
<1>1. Agent!Init => Lemmas!Init
  BY DEF Agent!Init, Lemmas!Init, Agent!RegisterInit, Lemmas!RegisterInit
<1>2. Lemmas!Init => Lemmas!TypeInv
  BY Lemmas!TypeInit, AgentAssumptions, SameRow
<1>3. Lemmas!Init => Lemmas!SyncInv
  BY Lemmas!SyncInit, AgentAssumptions, SameRow
<1> QED
  BY <1>1, <1>2, <1>3 DEF AgentInv

LEMMA AgentInvStep == AgentInv /\ [Agent!Next]_(Agent!vars) => AgentInv'
<1>1. Lemmas!TypeInv /\ [Lemmas!Next]_(Lemmas!vars) => Lemmas!TypeInv'
  BY Lemmas!TypeStep, AgentAssumptions, SameRow
<1>2. Lemmas!TypeInv /\ Lemmas!SyncInv /\ [Lemmas!Next]_(Lemmas!vars) => Lemmas!SyncInv'
  BY Lemmas!SyncStep, AgentAssumptions, SameRow
<1>3. [Agent!Next]_(Agent!vars) => [Lemmas!Next]_(Lemmas!vars)
  BY SameAgent, Zenon
<1> QED
  BY <1>1, <1>2, <1>3, Zenon DEF AgentInv

\* It does not matter to them what row there is.
LEMMA AgentInvRow ==
  ASSUME AgentInv, Current' \in Row, up' \in BOOLEAN, budget' = budget, UNCHANGED private
  PROVE  AgentInv'
<1>1. Lemmas!TypeOK'
  <2>1. /\ up' \in BOOLEAN /\ missed' \in BOOLEAN /\ stalled' \in BOOLEAN
        /\ overtaken' \in BOOLEAN
    BY Zenon DEF AgentInv, Lemmas!TypeInv, Lemmas!TypeOK, private
  <2>2. /\ Current' \in Lemmas!Row /\ budget' = budget
        /\ apc' = apc /\ ver' = ver /\ resp' = resp /\ period' = period
        /\ pending' = pending /\ backoff' = backoff /\ cache' = cache /\ worker' = worker
        /\ late' = late
    BY SameRow DEF private
  <2> QED
    BY <2>1, <2>2, Zenon DEF AgentInv, Lemmas!TypeInv, Lemmas!TypeOK
<1>2. Lemmas!RespReady' /\ Lemmas!SyncInv'
  BY DEF AgentInv, private, Lemmas!TypeInv, Lemmas!RespReady, Lemmas!SyncInv,
         Lemmas!VersionInHand, Lemmas!InSync, Lemmas!Polling
<1> QED
  BY <1>1, <1>2 DEF AgentInv, Lemmas!TypeInv
-----------------------------------------------------------------------------
(* The store under the agent.                                                *)

\* Removed databases are counted; a request has found room for its version as
\* long as requests do not overlap, and then the store is the serial one.
SerialSoFar ==
  /\ wipes \in Nat
  /\ (~overlapped /\ wipes = 0) =>
       /\ SerialInv
       /\ \A a \in Admins : pc[a] \in {"select", "update"} => active.version < MaxVersion

\* The row that is active has been published.
ActiveKnown == active # NoRow => active \in published

StoreInv == TypeInv /\ SerialSoFar /\ ActiveKnown

LEMMA StoreInit == PollInit => StoreInv
<1> SUFFICES ASSUME PollInit PROVE StoreInv
  OBVIOUS
<1>1. Init /\ wipes = 0
  BY DEF PollInit
<1>2. TypeInv /\ SerialInv
  BY <1>1, TypeInit, SerialInit
<1>3. active = NoRow /\ \A a \in Admins : pc[a] = "idle"
  BY <1>1 DEF Init
<1> QED
  BY <1>1, <1>2, <1>3 DEF StoreInv, SerialSoFar, ActiveKnown

\* Every step that does not remove the database is a step of ConfigStore, and as
\* long as requests do not overlap one of its serial version.
LEMMA StoreSteps ==
  ASSUME [PollNext]_allVars, ~Wipe
  PROVE  /\ [Next]_vars /\ wipes' = wipes /\ retired' = retired
         /\ ~overlapped' => ~overlapped /\ [SerialNext]_vars
<1>1. CASE PollBoot \/ PollCrash
  BY <1>1 DEF PollBoot, PollCrash, Next, SerialNext, past
<1>2. CASE PollAgentStep \/ PollOthers
  BY <1>2 DEF PollAgentStep, PollOthers, past
<1>3. ASSUME NEW a \in Admins, PollBegin(a)
      PROVE  /\ [Next]_vars /\ wipes' = wipes /\ retired' = retired
             /\ ~overlapped' => ~overlapped /\ [SerialNext]_vars
  BY <1>3 DEF PollBegin, Next, SerialNext
<1>4. ASSUME NEW a \in Admins, PollStore(a)
      PROVE  /\ [Next]_vars /\ wipes' = wipes /\ retired' = retired
             /\ ~overlapped' => ~overlapped /\ [SerialNext]_vars
  BY <1>4 DEF PollStore, Next, SerialNext, past
<1>5. CASE UNCHANGED allVars
  BY <1>5 DEF allVars, past
<1> QED
  BY <1>1, <1>2, <1>3, <1>4, <1>5 DEF PollNext

\* A removed database leaves a store that has not been started.
LEMMA WipeType == ASSUME TypeInv, Wipe PROVE TypeInv' /\ up' = FALSE /\ active' = NoRow
<1>1. up' = up /\ up = FALSE /\ active' = NoRow
  BY Zenon DEF Wipe, TypeInv, TypeOK
<1>2. Ready'
  <2>1. \A a \in Admins : pc[a] = "idle"
    BY <1>1 DEF TypeInv, Ready
  <2> QED
    BY <1>1, <2>1 DEF Ready, Wipe
<1>3. TypeOK'
  <2>1. up' \in BOOLEAN
    BY <1>1, Zenon
  <2> QED
    BY <1>1, <2>1 DEF Wipe, TypeInv, TypeOK
<1> QED
  BY <1>1, <1>2, <1>3 DEF TypeInv

\* Handlers on their way to the UPDATE find room for its version.
LEMMA RoomStep ==
  ASSUME TypeInv, SerialInv, [SerialNext]_vars,
         \A a \in Admins : pc[a] \in {"select", "update"} => active.version < MaxVersion
  PROVE  \A a \in Admins :
           pc'[a] \in {"select", "update"} => active'.version < MaxVersion
<1>t. TypeOK /\ Ready
  BY DEF TypeInv
<1>1. CASE Boot
  <2>1. \A a \in Admins : pc[a] # "idle" => FALSE
    BY <1>1, <1>t DEF Boot, Ready
  <2> QED
    BY <1>1, <2>1 DEF Boot
<1>2. CASE Crash \/ UNCHANGED vars
  BY <1>2 DEF Crash, vars
<1>3. ASSUME NEW a \in Admins, BeginUpdate(a)
      PROVE  \A b \in Admins : pc'[b] \in {"select", "update"} => active'.version < MaxVersion
  BY <1>3 DEF BeginUpdate
<1>4. ASSUME NEW a \in Admins, Step(a)
      PROVE  \A b \in Admins : pc'[b] \in {"select", "update"} => active'.version < MaxVersion
  <2>1. CASE UpdateActive(a)
    <3>1. \A b \in Admins : pc'[b] \in {"idle", "insert"}
      BY <1>t, <2>1 DEF UpdateActive, TypeOK, SerialInv, AtMostOneInFlight
    <3> QED
      BY <3>1
  <2>2. CASE RejectUpdate(a)
    BY <2>2 DEF RejectUpdate, vars
  <2>3. CASE SelectVersion(a)
    BY <1>t, <2>3 DEF SelectVersion, TypeOK
  <2>4. CASE \/ InsertHistory(a) \/ InsertConflict(a) \/ StatementFails(a)
             \/ RespondOK(a) \/ RespondError(a)
    <3>1. active' = active /\ \A b \in Admins : pc'[b] = pc[b] \/ pc'[b] \notin {"select", "update"}
      BY <1>t, <2>4 DEF InsertHistory, InsertConflict, StatementFails, RespondOK, RespondError,
                        Finish, TypeOK
    <3> QED
      BY <3>1
  <2> QED
    BY <1>4, <2>1, <2>2, <2>3, <2>4 DEF Step
<1> QED
  BY <1>1, <1>2, <1>3, <1>4 DEF SerialNext

\* What a step of the store does to the row and to what was published.
LEMMA KnownStep ==
  ASSUME TypeInv, ActiveKnown, [Next]_vars
  PROVE  ActiveKnown' /\ published \subseteq published'
<1>1. CASE Boot
  BY <1>1 DEF Boot, ActiveKnown
<1>2. CASE Crash \/ UNCHANGED vars
  BY <1>2 DEF Crash, vars, ActiveKnown
<1>3. ASSUME NEW a \in Admins, BeginUpdate(a) \/ Step(a)
      PROVE  ActiveKnown' /\ published \subseteq published'
  BY <1>3 DEF BeginUpdate, Step, RejectUpdate, SelectVersion, UpdateActive, InsertHistory,
     InsertConflict, StatementFails, RespondOK, RespondError, vars, ActiveKnown
<1> QED
  BY <1>1, <1>2, <1>3 DEF Next

LEMMA StoreStep == StoreInv /\ [PollNext]_allVars => StoreInv'
<1> SUFFICES ASSUME StoreInv, [PollNext]_allVars PROVE StoreInv'
  OBVIOUS
<1> USE DEF StoreInv
<1>1. CASE Wipe
  <2>1. TypeInv' /\ ActiveKnown'
    BY <1>1, WipeType DEF ActiveKnown
  <2>2. wipes' \in Nat /\ wipes' # 0
    BY <1>1 DEF Wipe, SerialSoFar
  <2> QED
    BY <2>1, <2>2 DEF SerialSoFar
<1>2. CASE ~Wipe
  <2>1. /\ [Next]_vars /\ wipes' = wipes
        /\ ~overlapped' => ~overlapped /\ [SerialNext]_vars
    BY <1>2, StoreSteps
  <2>2. TypeInv' /\ ActiveKnown'
    BY <2>1, TypeStep, KnownStep
  <2>3. CASE ~overlapped' /\ wipes' = 0
    <3>1. SerialInv /\ [SerialNext]_vars
          /\ \A a \in Admins : pc[a] \in {"select", "update"} => active.version < MaxVersion
      BY <2>1, <2>3 DEF SerialSoFar
    <3>2. SerialInv'
      BY <3>1, SerialStep
    <3>3. \A a \in Admins : pc'[a] \in {"select", "update"} => active'.version < MaxVersion
      BY <3>1, RoomStep
    <3> QED
      BY <2>1, <2>2, <3>2, <3>3 DEF SerialSoFar
  <2>4. CASE ~(~overlapped' /\ wipes' = 0)
    BY <2>1, <2>2, <2>4 DEF SerialSoFar
  <2> QED
    BY <2>3, <2>4
<1> QED
  BY <1>1, <1>2
-----------------------------------------------------------------------------
(* The agent is that of PollAgent until updates overlap.                     *)

\* What a step of PollOverStore is to the agent: a step of PollAgent, or another
\* row in the database.
LEMMA AgentSteps ==
  ASSUME StoreInv, [PollNext]_allVars
  PROVE  \/ [Agent!Next]_(Agent!vars)
         \/ /\ UNCHANGED <<up, private, budget>>
            /\ Wipe \/ \E a \in Admins : UpdateActive(a)
<1> USE DEF Agent!Next, Agent!Environment
<1>1. CASE PollBoot
  BY <1>1 DEF PollBoot
<1>2. CASE PollCrash
  BY <1>2 DEF PollCrash
<1>3. CASE Wipe
  BY <1>3 DEF Wipe
<1>4. CASE PollAgentStep
  BY <1>4 DEF PollAgentStep, AgentMoves
<1>5. CASE PollOthers
  BY <1>5 DEF PollOthers, OthersMove
<1>s. ASSUME UNCHANGED <<up, active, private, budget>>
      PROVE  UNCHANGED Agent!vars
  BY <1>s DEF Agent!vars, Agent!agent, Agent!link, private, Current
<1>6. ASSUME NEW a \in Admins, PollBegin(a)
      PROVE  UNCHANGED Agent!vars
  BY <1>6, <1>s DEF PollBegin, BeginUpdate
<1>7. ASSUME NEW a \in Admins, PollStore(a), ~UpdateActive(a)
      PROVE  UNCHANGED Agent!vars
  BY <1>7, <1>s DEF PollStore, Step, RejectUpdate, SelectVersion, InsertHistory,
     InsertConflict, StatementFails, RespondOK, RespondError, vars
<1>8. ASSUME NEW a \in Admins, PollStore(a), UpdateActive(a)
      PROVE  UNCHANGED <<up, private, budget>> /\ \E b \in Admins : UpdateActive(b)
  BY <1>8 DEF PollStore, UpdateActive
<1>9. CASE UNCHANGED allVars
  BY <1>9, <1>s DEF allVars, vars
<1> QED
  BY <1>1, <1>2, <1>3, <1>4, <1>5, <1>6, <1>7, <1>8, <1>9 DEF PollNext

\* The UPDATE of a request that overlaps with no other one is AdminUpdate.
LEMMA UpdateIsAdminUpdate ==
  ASSUME StoreInv, ~overlapped, wipes = 0, NEW a \in Admins, UpdateActive(a),
         UNCHANGED <<up, private, budget>>
  PROVE  Agent!AdminUpdate
<1> USE DEF StoreInv
<1>t. TypeOK /\ Ready
  BY DEF TypeInv
<1>1. up /\ active # NoRow /\ active \in Row /\ pc[a] = "update"
  BY <1>t DEF UpdateActive, Ready, TypeOK
<1>2. SerialInv /\ active.version < MaxVersion
  BY <1>1 DEF SerialSoFar
<1>3. active' = NewRow(a) /\ NewRow(a) # NoRow /\ NewVersion(a) = active.version + 1
  BY <1>t, <1>1, <1>2, NewRowIsRow DEF UpdateActive, SerialInv, HandlerIsCurrent, NewVersion
<1>4. Current = active /\ Current' = NewRow(a)
  BY <1>1, <1>3 DEF Current
<1>5. req[a].data \in Data /\ req[a].interval \in Intervals
  BY <1>t DEF TypeOK, Requests
<1>6. Agent!Set(req[a].data, req[a].interval)
  BY <1>3, <1>4 DEF Agent!Set, NewRow
<1>7. \E d \in Data, i \in Intervals : Agent!Set(d, i)
  BY <1>5, <1>6
<1> QED
  BY <1>1, <1>2, <1>4, <1>7, Zenon DEF Agent!AdminUpdate, Agent!agent, Agent!link, private

LEMMA StoreInvariant == PollSpec => []StoreInv
BY StoreInit, StoreStep, PTL DEF PollSpec

\* As long as requests do not overlap and the first database is in use.
LEMMA SerialAgentStep ==
  ASSUME StoreInv, [PollNext]_allVars, ~overlapped', wipes' = 0
  PROVE  ~overlapped /\ wipes = 0 /\ [Agent!Next]_(Agent!vars)
<1>1. ~Wipe
  BY DEF Wipe, StoreInv, SerialSoFar
<1>2. ~overlapped /\ wipes = 0
  BY <1>1, StoreSteps
<1>3. ASSUME NEW a \in Admins, UpdateActive(a), UNCHANGED <<up, private, budget>>
      PROVE  Agent!Next
  BY <1>2, <1>3, UpdateIsAdminUpdate DEF Agent!Next, Agent!Environment
<1> QED
  BY <1>1, <1>2, <1>3, AgentSteps

\* For any number of callers, configurations and faults: as long as requests do
\* not overlap and the first database is in use, the controller and its agent do
\* what PollAgent says; so the theorems about PollAgent hold of the real store.
THEOREM PollAgentIsImplemented == PollSpec => RefinesPollAgent
<1>1. StoreInv /\ [PollNext]_allVars
        => [(~overlapped' /\ wipes' = 0) => [Agent!Next]_(Agent!vars)]_allVars
  BY SerialAgentStep
<1> QED
  BY <1>1, StoreInvariant, PTL DEF PollSpec, RefinesPollAgent

\* What is answered to a poll: the active row, and so, without overlap, at least
\* what was acknowledged.
LEMMA OnlyRequestAnswers ==
  ASSUME Agent!Next, apc = "request", apc' = "response"
  PROVE  up /\ resp' = Current
<1>1. Agent!Request
  <2> USE DEF Agent!Goto, Agent!agent, Agent!link
  <2>1. ~Agent!Environment
    BY DEF Agent!Environment, Agent!AdminUpdate, Agent!ControllerStops,
       Agent!ControllerStarts, Agent!WorkerRestarts, Agent!WorkerStalls, Agent!WorkerResumes,
       Agent!LateArrives, Agent!AgentCrash
  <2>2. ~Agent!AgentStart /\ ~Agent!Startup /\ ~Agent!TakeInterval
    BY DEF Agent!AgentStart, Agent!Startup, Agent!Register, Agent!RegisterFails,
       Agent!LoadCache, Agent!ForwardCached, Agent!TakeInterval
  <2>3. Agent!Poll => Agent!Request
    BY DEF Agent!Poll, Agent!Tick, Agent!RequestFails, Agent!PollError, Agent!Respond,
       Agent!ForwardOK, Agent!ForwardFails, Agent!TruncateCache, Agent!WriteCache,
       Agent!SaveFails, Agent!OfferInterval, Agent!BackoffOver
  <2> QED
    BY <2>1, <2>2, <2>3 DEF Agent!Next
<1> QED
  BY <1>1 DEF Agent!Request

\* An administrator who was answered 200 finds the configuration, or a newer one, in
\* every later answer to a poll, as long as requests do not overlap and the first
\* database is in use, through failing statements and crashes on either side.
THEOREM PollsSeeAcknowledged == PollSpec => AnswersAreCurrent
<1>1. ASSUME StoreInv, [PollNext]_allVars, ~overlapped', wipes' = 0,
             apc = "request", apc' = "response"
      PROVE  \A e \in acked : e = EntryOf(resp') \/ e.version < resp'.version
  <2>1. ~overlapped /\ wipes = 0 /\ [Agent!Next]_(Agent!vars)
    BY <1>1, SerialAgentStep
  <2>2. apc' # apc
    BY <1>1
  <2>3. Agent!Next
    BY <2>1, <2>2 DEF Agent!vars, Agent!agent
  <2>4. up /\ resp' = Current
    BY <1>1, <2>3, OnlyRequestAnswers
  <2>5. Current = active
    BY <1>1, <2>4 DEF StoreInv, TypeInv, Ready, Current
  <2> QED
    BY <1>1, <2>1, <2>4, <2>5 DEF StoreInv, SerialSoFar, SerialInv, AckedIsActiveOrSuperseded
<1>2. StoreInv /\ [PollNext]_allVars
        => [(~overlapped' /\ wipes' = 0 /\ apc = "request" /\ apc' = "response")
              => \A e \in acked : e = EntryOf(resp') \/ e.version < resp'.version]_allVars
  BY <1>1
<1> QED
  BY <1>2, StoreInvariant, PTL DEF PollSpec, AnswersAreCurrent

\* The direction in which versions flow, until requests overlap or the database is
\* removed.
FlowSoFar == (~overlapped /\ wipes = 0) => Lemmas!FlowInv

LEMMA AgentFlowStep ==
  ASSUME AgentInv, Lemmas!FlowInv, [Agent!Next]_(Agent!vars)
  PROVE  Lemmas!FlowInv' /\ Lemmas!NoRegressStep
<1>1. Lemmas!TypeInv /\ Lemmas!FlowInv /\ [Lemmas!Next]_(Lemmas!vars)
        => Lemmas!FlowInv' /\ Lemmas!NoRegressStep
  BY Lemmas!FlowStep, AgentAssumptions, SameRow
<1>2. [Lemmas!Next]_(Lemmas!vars)
  BY SameAgent, Zenon
<1> QED
  BY <1>1, <1>2, Zenon DEF AgentInv

LEMMA FlowSoFarInit == PollInit => FlowSoFar
<1>1. Agent!Init => Lemmas!Init
  BY DEF Agent!Init, Lemmas!Init, Agent!RegisterInit, Lemmas!RegisterInit
<1>2. Lemmas!Init => Lemmas!FlowInv
  BY Lemmas!FlowInit, AgentAssumptions, SameRow
<1> QED
  BY <1>1, <1>2 DEF PollInit, FlowSoFar

LEMMA FlowSoFarStep ==
  ASSUME StoreInv, AgentInv, FlowSoFar, [PollNext]_allVars
  PROVE  FlowSoFar' /\ ((~overlapped' /\ wipes' = 0) => Lemmas!NoRegressStep)
<1>1. ASSUME ~overlapped', wipes' = 0
      PROVE  Lemmas!FlowInv' /\ Lemmas!NoRegressStep
  <2>1. ~overlapped /\ wipes = 0 /\ [Agent!Next]_(Agent!vars)
    BY <1>1, SerialAgentStep
  <2> QED
    BY <2>1, AgentFlowStep DEF FlowSoFar
<1> QED
  BY <1>1 DEF FlowSoFar

-----------------------------------------------------------------------------
(* Versions tell configurations apart unless they are ambiguous.             *)

Known == published \cup retired

\* The agent, its cache and its worker have only rows that were active once.
HasKnown ==
  /\ resp \in Known \cup {NoConfig}
  /\ cache \in Known \cup {NoConfig, Torn}
  /\ worker \in Known \cup {NoConfig}
  /\ late \in Known \cup {NoConfig}

LEMMA KnownGrows ==
  ASSUME StoreInv, [PollNext]_allVars
  PROVE  Known \subseteq Known'
<1>1. CASE Wipe
  BY <1>1 DEF Wipe, Known
<1>2. CASE ~Wipe
  BY <1>2, StoreSteps, KnownStep DEF Known, StoreInv
<1> QED
  BY <1>1, <1>2

\* A step of the agent moves rows about and gets one from the controller.
LEMMA AgentKnows ==
  ASSUME StoreInv, HasKnown, [Agent!Next]_(Agent!vars)
  PROVE  LET K == Known \cup {NoConfig}
         IN  resp' \in K /\ cache' \in K \cup {Torn} /\ worker' \in K /\ late' \in K
<1> USE DEF HasKnown, Agent!agent, Agent!link
<1>1. CASE Agent!Environment
  BY <1>1 DEF Agent!Environment, Agent!AdminUpdate, Agent!ControllerStops,
     Agent!ControllerStarts, Agent!WorkerRestarts, Agent!WorkerStalls, Agent!WorkerResumes,
     Agent!LateArrives, Agent!AgentCrash, Agent!NewPoller
<1>2. CASE Agent!AgentStart
  BY <1>2 DEF Agent!AgentStart, Agent!NewPoller
<1>3. CASE Agent!Startup
  BY <1>3 DEF Agent!Startup, Agent!Register, Agent!RegisterFails, Agent!LoadCache,
     Agent!HasCache, Agent!ForwardCached, Agent!Delivered, Agent!ReplyLost,
     Agent!Undelivered, Agent!Applied
<1>4. CASE Agent!Request
  <2>1. up /\ resp' = Current /\ UNCHANGED <<cache, worker, late>>
    BY <1>4 DEF Agent!Request
  <2>2. Current \in published
    BY <2>1 DEF StoreInv, TypeInv, Ready, ActiveKnown, Current
  <2> QED
    BY <2>1, <2>2 DEF Known
<1>5. CASE \/ Agent!ForwardOK \/ Agent!ForwardFails
  BY <1>5 DEF Agent!ForwardOK, Agent!ForwardFails, Agent!PollError, Agent!Delivered,
     Agent!ReplyLost, Agent!Undelivered, Agent!Applied
<1>6. CASE \/ Agent!TakeInterval \/ Agent!Tick \/ Agent!RequestFails \/ Agent!Respond
           \/ Agent!TruncateCache \/ Agent!WriteCache \/ Agent!SaveFails
           \/ Agent!OfferInterval \/ Agent!BackoffOver
  BY <1>6 DEF Agent!TakeInterval, Agent!Tick, Agent!RequestFails, Agent!Respond,
     Agent!TruncateCache, Agent!WriteCache, Agent!SaveFails, Agent!OfferInterval,
     Agent!BackoffOver
<1>7. CASE UNCHANGED Agent!vars
  BY <1>7 DEF Agent!vars
<1> QED
  BY <1>1, <1>2, <1>3, <1>4, <1>5, <1>6, <1>7 DEF Agent!Next, Agent!Poll

LEMMA KnownInit == PollInit => HasKnown
BY DEF PollInit, Agent!Init, HasKnown

LEMMA HasKnownStep == StoreInv /\ HasKnown /\ [PollNext]_allVars => HasKnown'
<1> SUFFICES ASSUME StoreInv, HasKnown, [PollNext]_allVars PROVE HasKnown'
  OBVIOUS
<1>1. Known \subseteq Known'
  BY KnownGrows
<1>2. CASE [Agent!Next]_(Agent!vars)
  BY <1>1, <1>2, AgentKnows DEF HasKnown
<1>3. CASE UNCHANGED private
  BY <1>1, <1>3 DEF HasKnown, private
<1> QED
  BY <1>2, <1>3, AgentSteps

LEMMA AgentInvPollStep == StoreInv /\ AgentInv /\ [PollNext]_allVars => AgentInv'
<1> SUFFICES ASSUME StoreInv, AgentInv, [PollNext]_allVars PROVE AgentInv'
  OBVIOUS
<1>1. CASE [Agent!Next]_(Agent!vars)
  BY <1>1, AgentInvStep
<1>2. CASE UNCHANGED <<up, private, budget>>
  <2>1. TypeInv'
    BY StoreStep DEF StoreInv
  <2>2. Current' \in Row
    BY <2>1, FirstRowIsRow DEF TypeInv, TypeOK, Current
  <2>3. up' \in BOOLEAN
    BY <2>1, Zenon DEF TypeInv, TypeOK
  <2> QED
    BY <1>2, <2>2, <2>3, AgentInvRow
<1> QED
  BY <1>1, <1>2, AgentSteps

LEMMA KnowledgeInvariant == PollSpec => [](HasKnown /\ AgentInv)
<1>1. PollInit => HasKnown /\ AgentInv
  BY KnownInit, AgentInvInit DEF PollInit
<1>2. StoreInv /\ HasKnown /\ AgentInv /\ [PollNext]_allVars => HasKnown' /\ AgentInv'
  BY HasKnownStep, AgentInvPollStep
<1> QED
  BY <1>1, <1>2, StoreInvariant, PTL DEF PollSpec

\* Under every overlap, fault and removed database, an agent that has recorded the
\* active version has a worker that runs the active configuration, unless a
\* forward was lost, the worker was overtaken or the version is ambiguous.
THEOREM RecordedVersionTells == PollSpec => []VersionTellsData
<1>1. ASSUME StoreInv, HasKnown, AgentInv PROVE VersionTellsData
  <2> SUFFICES ASSUME apc \in Agent!Polling \ {"forward"}, up, ver = active.version,
                      ~missed, ~overtaken, ~Ambiguous(ver)
               PROVE  Agent!WorkerIsCurrent
    BY DEF VersionTellsData
  <2>1. active # NoRow /\ active \in Row /\ active \in published /\ Current = active
    BY <1>1 DEF StoreInv, TypeInv, TypeOK, Ready, ActiveKnown, Current
  <2>2. ver > 0
    BY <2>1 DEF Row
  <2>3. apc \in Lemmas!Polling \ {"forward"}
    BY DEF Lemmas!Polling, Agent!Polling
  <2>4. worker # NoConfig /\ worker.version = ver
    BY <1>1, <2>2, <2>3 DEF AgentInv, Lemmas!SyncInv, Lemmas!InSync
  <2>5. worker \in published \cup retired
    BY <1>1, <2>4 DEF HasKnown, Known
  <2>6. worker.data = active.data
    BY <2>1, <2>4, <2>5 DEF Ambiguous
  <2> QED
    BY <2>1, <2>4, <2>6 DEF Agent!WorkerIsCurrent
<1> QED
  BY <1>1, StoreInvariant, KnowledgeInvariant, PTL

\* Through all that, the version recorded by the agent is the one its worker runs
\* (PollAgent's InSync), which does not depend on what versions stand for.
THEOREM AgentInSyncOverStore == PollSpec => []Agent!InSync
<1>1. AgentInv => Agent!InSync
  BY DEF AgentInv, Lemmas!SyncInv, Lemmas!InSync, Agent!InSync, Lemmas!Polling, Agent!Polling
<1> QED
  BY <1>1, KnowledgeInvariant, PTL

LEMMA AnswerRecordedStep ==
  StoreInv /\ AgentInv /\ Lemmas!AnswerRecorded /\ [PollNext]_allVars => Lemmas!AnswerRecorded'
<1> SUFFICES ASSUME StoreInv, AgentInv, Lemmas!AnswerRecorded, [PollNext]_allVars
             PROVE  Lemmas!AnswerRecorded'
  OBVIOUS
<1>1. CASE [Agent!Next]_(Agent!vars)
  <2>1. Lemmas!TypeInv /\ Lemmas!SyncInv /\ Lemmas!AnswerRecorded /\ [Lemmas!Next]_(Lemmas!vars)
          => Lemmas!AnswerRecorded'
    BY Lemmas!RecordedStep, AgentAssumptions, SameRow
  <2>2. [Lemmas!Next]_(Lemmas!vars)
    BY <1>1, SameAgent, Zenon
  <2> QED
    BY <2>1, <2>2, Zenon DEF AgentInv
<1>2. CASE UNCHANGED private
  BY <1>2 DEF Lemmas!AnswerRecorded, private
<1> QED
  BY <1>1, <1>2, AgentSteps

\* For any overlap, fault and removed database: a poll that ends without an error has
\* left the worker with the configuration it was answered, unless that version is
\* ambiguous or the worker was left behind.
THEOREM PollsDeliverOverStore == PollSpec => []DeliversUnlessAmbiguous
<1>1. ASSUME HasKnown, AgentInv, Lemmas!AnswerRecorded PROVE DeliversUnlessAmbiguous
  <2> SUFFICES ASSUME apc = "offer", ~missed, ~overtaken, ~Ambiguous(resp.version)
               PROVE  worker # NoConfig /\ worker.data = resp.data
    BY DEF DeliversUnlessAmbiguous
  <2>1. resp # NoConfig /\ resp \in Row /\ ver = resp.version
    BY <1>1, SameRow DEF AgentInv, Lemmas!TypeInv, Lemmas!TypeOK, Lemmas!RespReady,
                         Lemmas!AnswerRecorded
  <2>2. ver > 0
    BY <2>1 DEF Row
  <2>3. worker # NoConfig /\ worker.version = ver
    BY <1>1, <2>2 DEF AgentInv, Lemmas!SyncInv, Lemmas!InSync, Lemmas!Polling
  <2>4. resp \in published \cup retired /\ worker \in published \cup retired
    BY <1>1, <2>1, <2>3 DEF HasKnown, Known
  <2> QED
    BY <2>1, <2>3, <2>4 DEF Ambiguous
<1>2. PollInit => Lemmas!AnswerRecorded
  BY DEF PollInit, Agent!Init, Lemmas!AnswerRecorded
<1> QED
  BY <1>1, <1>2, AnswerRecordedStep, StoreInvariant, KnowledgeInvariant, PTL DEF PollSpec

\* Until requests overlap or the database is removed: the cache is never ahead of the
\* worker, and polling never takes the worker back.
THEOREM NoRegressOverStore ==
  PollSpec => /\ []((~overlapped /\ wipes = 0) => Agent!CacheWasDelivered)
              /\ [][(~overlapped' /\ wipes' = 0) => Lemmas!NoRegressStep]_allVars
<1>1. FlowSoFar => ((~overlapped /\ wipes = 0) => Agent!CacheWasDelivered)
  BY DEF FlowSoFar, Lemmas!FlowInv, Lemmas!CacheWasDelivered, Agent!CacheWasDelivered,
         Lemmas!HasCache, Agent!HasCache
<1>2. StoreInv /\ AgentInv /\ FlowSoFar /\ [PollNext]_allVars => FlowSoFar'
  BY FlowSoFarStep
<1>3. StoreInv /\ AgentInv /\ FlowSoFar /\ [PollNext]_allVars
        => [(~overlapped' /\ wipes' = 0) => Lemmas!NoRegressStep]_allVars
  BY FlowSoFarStep
<1>4. PollSpec => []FlowSoFar
  BY <1>2, FlowSoFarInit, StoreInvariant, KnowledgeInvariant, PTL DEF PollSpec
<1> QED
  BY <1>1, <1>3, <1>4, StoreInvariant, KnowledgeInvariant, PTL DEF PollSpec
=============================================================================
