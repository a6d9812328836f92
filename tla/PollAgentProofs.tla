-------------------------- MODULE PollAgentProofs --------------------------
(***************************************************************************)
(* What an agent with the POLLER strategy guarantees for every set of      *)
(* configurations and intervals, any number of updates and of faults.      *)
(***************************************************************************)
EXTENDS PollAgent, TLAPS

\* The response in hand is a row wherever the code uses it.
RespReady ==
  pc \in {"loadForward", "response", "forward", "save", "write", "offer"}
    => resp # NoConfig

TypeInv == TypeOK /\ RespReady

LEMMA Markers ==
  NoConfig \notin Row /\ Torn \notin Row /\ NoConfig # Torn /\ Empty \notin Int
BY MarkersAssumption

LEMMA RowFields ==
  ASSUME NEW r \in Row
  PROVE  r.version \in Nat \ {0} /\ r.data \in Data /\ r.interval \in Intervals
BY DEF Row

LEMMA TypeInit == Init => TypeInv
<1> SUFFICES ASSUME Init PROVE TypeInv
  OBVIOUS
<1>1. up \in BOOLEAN /\ missed \in BOOLEAN /\ stalled \in BOOLEAN /\ overtaken \in BOOLEAN
  BY Zenon DEF Init
<1>2. row \in Row
  BY FirstRowAssumption DEF Init, RegisterInit
<1>3. backoff \in 0..MaxBackoff /\ budget \in 0..MaxFaults
  BY PeriodAssumption, FaultsAssumption DEF Init
<1> QED
  BY <1>1, <1>2, <1>3 DEF Init, TypeInv, TypeOK, RespReady, Periods

\* The fault budget only goes down.
LEMMA FaultType ==
  ASSUME TypeOK, NEW kind, Fault(kind) PROVE budget' \in 0..MaxFaults
BY FaultsAssumption DEF TypeOK, Fault

LEMMA NewPollerType ==
  ASSUME NewPoller
  PROVE  /\ ver' \in Nat /\ resp' \in Row \cup {NoConfig}
         /\ period' \in Periods /\ pending' \in Periods \cup {Empty}
         /\ backoff' \in 0..MaxBackoff
BY PeriodAssumption DEF NewPoller, Periods

LEMMA NextBackoffType ==
  ASSUME TypeOK PROVE NextBackoff \in 0..MaxBackoff
BY PeriodAssumption DEF TypeOK, NextBackoff

LEMMA TypeStep == TypeInv /\ [Next]_vars => TypeInv'
<1> SUFFICES ASSUME TypeInv, [Next]_vars PROVE TypeInv'
  OBVIOUS
<1> USE DEF TypeInv, TypeOK, RespReady, Starting, Polling, Goto
<1>1. CASE AdminUpdate
  <2>1. row' \in Row
    <3>1. PICK d \in Data, i \in Intervals : Set(d, i)
      BY <1>1 DEF AdminUpdate
    <3>2. row.version + 1 \in Nat \ {0}
      BY RowFields
    <3> QED
      BY <3>1, <3>2 DEF Set, Row
  <2> QED
    BY <1>1, <2>1 DEF AdminUpdate, agent, link
<1>2. CASE ControllerStops
  <2>1. budget' \in 0..MaxFaults
    BY <1>2, FaultType DEF ControllerStops
  <2>2. up' = FALSE /\ UNCHANGED <<row, agent, cache, worker, link>>
    BY <1>2 DEF ControllerStops
  <2>3. up' \in BOOLEAN /\ missed' \in BOOLEAN /\ stalled' \in BOOLEAN
        /\ overtaken' \in BOOLEAN
    BY <2>2, Zenon DEF link
  <2> QED
    BY <2>1, <2>2, <2>3 DEF agent, link
<1>3. CASE ControllerStarts
  BY <1>3 DEF ControllerStarts, agent, link
<1>4. CASE WorkerRestarts
  BY <1>4, FaultType DEF WorkerRestarts, agent, link
<1>4a. CASE WorkerStalls
  BY <1>4a, FaultType DEF WorkerStalls, agent, link
<1>4b. CASE WorkerResumes \/ LateArrives
  BY <1>4b DEF WorkerResumes, LateArrives, agent, link
<1>5. CASE AgentCrash
  BY <1>5, FaultType, NewPollerType DEF AgentCrash, link
<1>6. CASE AgentStart
  BY <1>6, NewPollerType DEF AgentStart, link
<1>7. CASE Register
  BY <1>7 DEF Register, link
<1>8. CASE RegisterFails
  BY <1>8, FaultType DEF RegisterFails, link
<1>9. CASE LoadCache
  BY <1>9, RowFields, Markers DEF LoadCache, link, HasCache
<1>10. CASE ForwardCached
  BY <1>10, FaultType DEF ForwardCached, Delivered, ReplyLost, Undelivered,
                               Applied
<1>11. CASE TakeInterval
  BY <1>11 DEF TakeInterval, link
<1>12. CASE Tick
  BY <1>12 DEF Tick, link
<1>13. CASE Request
  BY <1>13, Markers DEF Request, link
<1>14. CASE RequestFails
  BY <1>14, FaultType, NextBackoffType DEF RequestFails, PollError, link
<1>15. CASE Respond
  BY <1>15, RowFields DEF Respond, link
<1>16. CASE ForwardOK
  BY <1>16 DEF ForwardOK, Delivered, Applied
<1>17. CASE ForwardFails
  BY <1>17, FaultType, NextBackoffType
     DEF ForwardFails, ReplyLost, Undelivered, PollError, Applied
<1>18. CASE TruncateCache
  BY <1>18 DEF TruncateCache, link
<1>19. CASE WriteCache
  BY <1>19 DEF WriteCache, link
<1>20. CASE SaveFails
  BY <1>20, FaultType DEF SaveFails, link
<1>21. CASE OfferInterval
  <2>1. resp \in Row
    BY <1>21 DEF OfferInterval
  <2>2. NewInterval => resp.interval \in Periods
    BY <2>1, RowFields DEF NewInterval, Periods
  <2> QED
    BY <1>21, <2>2, PeriodAssumption DEF OfferInterval, link
<1>22. CASE BackoffOver
  BY <1>22 DEF BackoffOver, link
<1>23. CASE UNCHANGED vars
  BY <1>23 DEF vars, agent, link
<1> QED
  BY <1>1, <1>2, <1>3, <1>4, <1>4a, <1>4b, <1>5, <1>6, <1>7, <1>8, <1>9, <1>10,
     <1>11, <1>12, <1>13, <1>14, <1>15, <1>16, <1>17, <1>18, <1>19, <1>20, <1>21, <1>22, <1>23
     DEF Next, Environment, Startup, Poll

LEMMA TypeInvariant == OutageSpec => []TypeInv
BY TypeInit, TypeStep, PTL DEF OutageSpec

\* Type correctness; in particular no step uses a response before there is one
\* and the ticker is only ever reset to a positive period.
THEOREM TypeCorrect == OutageSpec => []TypeOK
BY TypeInvariant, PTL DEF TypeInv

-----------------------------------------------------------------------------
(* Unless a forward was lost, the worker restarted or a late POST reached it, *)
(* the agent's version and the worker's agree.                               *)

\* During a forward the version recorded is the one being forwarded; before the
\* cache is loaded none is.
VersionInHand ==
  /\ pc \in {"register", "load"} => ver = 0
  /\ pc \in {"loadForward", "forward"} => ver = resp.version

SyncInv == VersionInHand /\ InSync

LEMMA SyncInit == Init => SyncInv
BY DEF Init, SyncInv, VersionInHand, InSync, Polling

LEMMA SyncStep == TypeInv /\ SyncInv /\ [Next]_vars => SyncInv'
<1> SUFFICES ASSUME TypeInv, SyncInv, [Next]_vars PROVE SyncInv'
  OBVIOUS
<1> USE DEF SyncInv, VersionInHand, InSync, Polling, Goto
<1>t. TypeOK /\ RespReady
  BY DEF TypeInv
<1>1. CASE Environment
  BY <1>1 DEF Environment, AdminUpdate, ControllerStops, ControllerStarts,
              WorkerRestarts, WorkerStalls, WorkerResumes, LateArrives,
              AgentCrash, NewPoller, agent, link
<1>2. CASE AgentStart
  BY <1>2 DEF AgentStart, NewPoller, link
<1>3. CASE Register
  BY <1>3 DEF Register, link
<1>4. CASE RegisterFails
  BY <1>4 DEF RegisterFails, link
<1>5. CASE LoadCache
  BY <1>5 DEF LoadCache, link
<1>6. CASE ForwardCached
  <2>1. /\ pc = "loadForward" /\ pc' = "select" /\ ver' = ver
        /\ worker' = resp \/ missed'
    BY <1>6 DEF ForwardCached, Delivered, ReplyLost, Undelivered, Applied
  <2> QED
    BY <1>6, <1>t, <2>1 DEF RespReady
<1>7. CASE TakeInterval
  BY <1>7 DEF TakeInterval, link
<1>8. CASE Tick \/ Request \/ RequestFails
  BY <1>8 DEF Tick, Request, RequestFails, PollError, link
<1>9. CASE Respond
  BY <1>9 DEF Respond, IsChange, link
<1>10. CASE ForwardOK
  BY <1>10, <1>t DEF ForwardOK, Delivered, RespReady, Applied
<1>11. CASE ForwardFails
  <2>1. /\ pc = "forward" /\ pc' = "wait" /\ ver' = ver
        /\ worker' = resp \/ missed'
    BY <1>11 DEF ForwardFails, ReplyLost, Undelivered, PollError, Applied
  <2> QED
    BY <1>t, <2>1 DEF RespReady
<1>12. CASE TruncateCache \/ WriteCache \/ SaveFails
  BY <1>12 DEF TruncateCache, WriteCache, SaveFails, link
<1>13. CASE OfferInterval \/ BackoffOver
  BY <1>13 DEF OfferInterval, BackoffOver, link
<1>14. CASE UNCHANGED vars
  BY <1>14 DEF vars, agent, link
<1> QED
  BY <1>1, <1>2, <1>3, <1>4, <1>5, <1>6, <1>7, <1>8, <1>9, <1>10, <1>11, <1>12,
     <1>13, <1>14 DEF Next, Startup, Poll

\* A version recorded by the poll loop is the version the worker runs, through
\* outages, crashes, lost answers and torn or outdated cache files; the only
\* exceptions are a forward that was lost before it took effect, a worker that
\* has restarted since and one that got a late POST of an agent that is gone; all
\* three last until the next forward succeeds.
THEOREM AgentInSync == OutageSpec => []InSync
<1>1. OutageSpec => []SyncInv
  BY SyncStep, SyncInit, TypeInvariant, PTL DEF OutageSpec
<1> QED
  BY <1>1, PTL DEF SyncInv

-----------------------------------------------------------------------------
(* Versions flow in one direction, under every fault.                        *)

\* Nothing is newer than the controller's row.
RowIsNewest ==
  /\ HasCache => cache.version <= row.version
  /\ resp # NoConfig => resp.version <= row.version
  /\ worker # NoConfig => worker.version <= row.version
  /\ late # NoConfig => late.version <= row.version

\* A response is at least as new as the cache and, until it is forwarded, as
\* the worker and as a POST that is late; while it is being saved the worker has
\* it, has restarted or has been overtaken by such a POST.
RespIsNewer ==
  /\ (pc \in {"response", "forward", "save", "write"} /\ HasCache)
       => cache.version <= resp.version
  /\ (pc \in {"response", "forward"} /\ worker # NoConfig)
       => worker.version <= resp.version
  /\ (pc \in {"response", "forward"} /\ late # NoConfig)
       => late.version <= resp.version
  /\ pc \in {"save", "write"} => overtaken \/ worker \in {resp, NoConfig}
  /\ pc = "loadForward" => cache = resp

FlowInv == RowIsNewest /\ RespIsNewer /\ CacheWasDelivered

NoRegressStep ==
  (pc # "loadForward" /\ ~overtaken' /\ worker # NoConfig /\ worker' # NoConfig)
    => worker'.version >= worker.version

LEMMA FlowInit == Init => FlowInv
BY DEF Init, FlowInv, RowIsNewest, RespIsNewer, CacheWasDelivered, HasCache

LEMMA FlowStep ==
  TypeInv /\ FlowInv /\ [Next]_vars => FlowInv' /\ NoRegressStep
<1> SUFFICES ASSUME TypeInv, FlowInv, [Next]_vars
             PROVE  FlowInv' /\ NoRegressStep
  OBVIOUS
<1> USE DEF FlowInv, RowIsNewest, RespIsNewer, CacheWasDelivered, HasCache,
            NoRegressStep, Goto
<1>t. TypeOK /\ RespReady
  BY DEF TypeInv
<1>v. /\ row \in Row /\ row.version \in Nat
      /\ HasCache => cache \in Row /\ cache.version \in Nat
      /\ resp # NoConfig => resp \in Row /\ resp.version \in Nat
      /\ worker # NoConfig => worker \in Row /\ worker.version \in Nat
      /\ late # NoConfig => late \in Row /\ late.version \in Nat
  BY <1>t, RowFields DEF TypeOK
<1>1. CASE AdminUpdate
  <2>1. row'.version = row.version + 1 /\ UNCHANGED <<agent, cache, worker, link>>
    BY <1>1 DEF AdminUpdate, Set
  <2> QED
    BY <2>1, <1>v DEF agent, link
<1>2. CASE ControllerStops \/ ControllerStarts
  BY <1>2, <1>v DEF ControllerStops, ControllerStarts, agent, link
<1>3. CASE WorkerRestarts
  BY <1>3, <1>v DEF WorkerRestarts, agent
<1>3a. CASE WorkerStalls \/ WorkerResumes
  BY <1>3a, <1>v DEF WorkerStalls, WorkerResumes, agent
<1>3b. CASE LateArrives
  BY <1>3b, <1>v DEF LateArrives, agent
<1>4. CASE AgentStart
  BY <1>4, <1>v DEF AgentStart, NewPoller, link
<1>4a. CASE AgentCrash
  <2>1. late' \in {late, resp} /\ UNCHANGED <<row, cache, worker, overtaken>>
        /\ pc' = "down" /\ resp' = NoConfig
    BY <1>4a DEF AgentCrash, NewPoller
  <2> QED
    BY <2>1, <1>v
<1>5. CASE Register \/ RegisterFails
  BY <1>5, <1>v DEF Register, RegisterFails, link
<1>6. CASE LoadCache
  BY <1>6, <1>v DEF LoadCache, link
<1>7. CASE ForwardCached
  BY <1>7, <1>t, <1>v DEF ForwardCached, Delivered, ReplyLost, Undelivered,
                          Applied, RespReady
<1>8. CASE TakeInterval \/ Tick
  BY <1>8, <1>v DEF TakeInterval, Tick, link
<1>9. CASE Request
  BY <1>9, <1>v DEF Request, link
<1>10. CASE RequestFails
  BY <1>10, <1>v DEF RequestFails, PollError, link
<1>11. CASE Respond
  BY <1>11, <1>v DEF Respond, link
<1>12. CASE ForwardOK
  BY <1>12, <1>t, <1>v DEF ForwardOK, Delivered, Applied, RespReady, Applied
<1>13. CASE ForwardFails
  BY <1>13, <1>t, <1>v DEF ForwardFails, ReplyLost, Undelivered, PollError,
                           Applied, RespReady
<1>14. CASE TruncateCache
  BY <1>14, <1>v DEF TruncateCache, link
<1>15. CASE WriteCache
  BY <1>15, <1>t, <1>v DEF WriteCache, RespReady, link
<1>16. CASE SaveFails \/ OfferInterval \/ BackoffOver
  BY <1>16, <1>v DEF SaveFails, OfferInterval, BackoffOver, link
<1>17. CASE UNCHANGED vars
  BY <1>17, <1>v DEF vars, agent, link
<1> QED
  BY <1>1, <1>2, <1>3, <1>3a, <1>3b, <1>4, <1>4a, <1>5, <1>6, <1>7, <1>8, <1>9, <1>10,
     <1>11, <1>12, <1>13, <1>14, <1>15, <1>16, <1>17 DEF Next, Environment, Startup, Poll

LEMMA FlowInvariant == OutageSpec => []FlowInv
<1>1. TypeInv /\ FlowInv /\ [Next]_vars => FlowInv'
  BY FlowStep
<1> QED
  BY <1>1, FlowInit, TypeInvariant, PTL DEF OutageSpec

\* The cache file never holds a configuration newer than the worker's, under
\* every fault but a late POST: poll forwards before it saves.
THEOREM CacheDelivered == OutageSpec => []CacheWasDelivered
BY FlowInvariant, PTL DEF FlowInv

\* Under every fault, polling never takes the worker back to an older version;
\* only the forward of the cache at the start of an agent and a late POST can.
THEOREM PollingNeverRegresses == OutageSpec => NoRegressByPolling
<1>1. TypeInv /\ FlowInv /\ [Next]_vars
        => [(pc # "loadForward" /\ ~overtaken' /\ worker # NoConfig /\ worker' # NoConfig)
              => worker'.version >= worker.version]_vars
  BY FlowStep DEF NoRegressStep
<1> QED
  BY <1>1, FlowInvariant, TypeInvariant, PTL DEF OutageSpec, NoRegressByPolling

-----------------------------------------------------------------------------
(* What a poll that succeeds leaves behind.                                  *)

\* Every copy of a row, wherever it is: a version stands for one configuration.
Copies == {row, cache, resp, worker, late}
VersionTellsRow == \A x, y \in Copies \cap Row : x.version = y.version => x = y

\* From the comparison of versions to the end of the poll.
AnswerRecorded == pc \in {"save", "write", "offer"} => ver = resp.version

DeliverInv == VersionTellsRow /\ AnswerRecorded

LEMMA DeliverInit == Init => DeliverInv
<1> SUFFICES ASSUME Init PROVE DeliverInv
  OBVIOUS
<1>1. Copies \cap Row \subseteq {row}
  BY Markers DEF Init, Copies
<1> QED
  BY <1>1 DEF Init, DeliverInv, VersionTellsRow, AnswerRecorded

\* Only an update brings in a row that is not a copy of another one.
LEMMA CopiesOnlyMove ==
  ASSUME TypeInv, [Next]_vars, ~AdminUpdate
  PROVE  row' = row /\ Copies' \subseteq Copies \cup {NoConfig, Torn}
<1> USE DEF Copies
<1>1. CASE Environment
  <2>1. CASE AgentCrash
    BY <2>1 DEF AgentCrash, NewPoller
  <2>2. CASE ControllerStops \/ ControllerStarts
    BY <2>2 DEF ControllerStops, ControllerStarts, agent, link
  <2>3. CASE WorkerRestarts \/ WorkerStalls \/ WorkerResumes \/ LateArrives
    BY <2>3 DEF WorkerRestarts, WorkerStalls, WorkerResumes, LateArrives, agent
  <2> QED
    BY <1>1, <2>1, <2>2, <2>3 DEF Environment
<1>2. CASE AgentStart
  BY <1>2 DEF AgentStart, NewPoller, link
<1>3. CASE Register \/ RegisterFails \/ LoadCache
  BY <1>3 DEF Register, RegisterFails, LoadCache, link
<1>4. CASE ForwardCached \/ ForwardOK \/ ForwardFails
  BY <1>4 DEF ForwardCached, ForwardOK, ForwardFails, Delivered, ReplyLost, Undelivered, Applied
<1>5. CASE TakeInterval \/ Tick \/ Request \/ RequestFails \/ Respond
  BY <1>5 DEF TakeInterval, Tick, Request, RequestFails, Respond, link
<1>6. CASE TruncateCache \/ WriteCache \/ SaveFails \/ OfferInterval \/ BackoffOver
  BY <1>6 DEF TruncateCache, WriteCache, SaveFails, OfferInterval, BackoffOver, link
<1>7. CASE UNCHANGED vars
  BY <1>7 DEF vars, agent, link
<1> QED
  BY <1>1, <1>2, <1>3, <1>4, <1>5, <1>6, <1>7 DEF Next, Startup, Poll

LEMMA TellsStep ==
  ASSUME TypeInv, RowIsNewest, VersionTellsRow, [Next]_vars
  PROVE  VersionTellsRow'
<1>1. CASE AdminUpdate
  <2>1. row'.version = row.version + 1 /\ UNCHANGED <<agent, cache, worker, link>>
    BY <1>1 DEF AdminUpdate, Set
  <2>2. \A x \in Copies \cap Row : x.version \in Nat /\ x.version <= row.version
    <3>1. row \in Row
      BY DEF TypeInv, TypeOK
    <3> QED
      BY <3>1, RowFields, Markers DEF Copies, RowIsNewest, HasCache
  <2>3. Copies' \subseteq Copies \cup {row'}
    BY <2>1 DEF Copies, agent, link
  <2>4. row.version \in Nat
    BY RowFields DEF TypeInv, TypeOK
  <2>5. \A x \in Copies \cap Row : x.version # row'.version
    BY <2>1, <2>2, <2>4
  <2> QED
    BY <2>3, <2>5, Zenon DEF VersionTellsRow
<1>2. CASE ~AdminUpdate
  <2>1. Copies' \cap Row \subseteq Copies \cap Row
    BY <1>2, CopiesOnlyMove, Markers
  <2> QED
    BY <2>1 DEF VersionTellsRow
<1> QED
  BY <1>1, <1>2

LEMMA RecordedStep ==
  ASSUME TypeInv, SyncInv, AnswerRecorded, [Next]_vars
  PROVE  AnswerRecorded'
<1> USE DEF AnswerRecorded, Goto
<1>1. CASE Environment
  BY <1>1 DEF Environment, AdminUpdate, ControllerStops, ControllerStarts, WorkerRestarts,
              WorkerStalls, WorkerResumes, LateArrives, AgentCrash, agent
<1>2. CASE AgentStart \/ Register \/ RegisterFails \/ LoadCache \/ ForwardCached
  BY <1>2 DEF AgentStart, Register, RegisterFails, LoadCache, ForwardCached
<1>3. CASE TakeInterval \/ Tick \/ Request \/ RequestFails
  BY <1>3 DEF TakeInterval, Tick, Request, RequestFails, PollError
<1>4. CASE Respond
  BY <1>4 DEF Respond, IsChange
<1>5. CASE ForwardOK
  BY <1>5 DEF ForwardOK, SyncInv, VersionInHand
<1>6. CASE ForwardFails \/ TruncateCache \/ WriteCache \/ SaveFails \/ OfferInterval \/ BackoffOver
  BY <1>6 DEF ForwardFails, PollError, TruncateCache, WriteCache, SaveFails, OfferInterval,
              BackoffOver
<1>7. CASE UNCHANGED vars
  BY <1>7 DEF vars, agent
<1> QED
  BY <1>1, <1>2, <1>3, <1>4, <1>5, <1>6, <1>7 DEF Next, Startup, Poll

LEMMA DeliverStep ==
  TypeInv /\ SyncInv /\ FlowInv /\ DeliverInv /\ [Next]_vars => DeliverInv'
BY TellsStep, RecordedStep DEF DeliverInv, FlowInv

\* The version the worker runs is the one recorded, that is the one answered, and
\* a version stands for one configuration.
LEMMA DeliverImplied == TypeInv /\ SyncInv /\ DeliverInv => PollDelivers
<1> SUFFICES ASSUME TypeInv, SyncInv, DeliverInv, pc = "offer", ~missed, ~overtaken
             PROVE  worker = resp
  BY DEF PollDelivers
<1>1. resp \in Row /\ ver = resp.version /\ ver > 0
  BY RowFields DEF TypeInv, TypeOK, RespReady, DeliverInv, AnswerRecorded
<1>2. worker \in Row /\ worker.version = ver
  BY <1>1 DEF SyncInv, InSync, Polling, TypeInv, TypeOK
<1> QED
  BY <1>1, <1>2 DEF DeliverInv, VersionTellsRow, Copies

\* Under every fault, a poll that ends without an error leaves the worker with what
\* the controller answered, whether it had to forward it or not.
THEOREM PollsDeliver == OutageSpec => []PollDelivers
<1>1. OutageSpec => []SyncInv
  BY SyncStep, SyncInit, TypeInvariant, PTL DEF OutageSpec
<1>2. OutageSpec => []DeliverInv
  BY <1>1, DeliverInit, DeliverStep, TypeInvariant, FlowInvariant, PTL DEF OutageSpec
<1> QED
  BY <1>1, <1>2, DeliverImplied, TypeInvariant, PTL
=============================================================================
