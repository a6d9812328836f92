--------------------------- MODULE PollOverStore ---------------------------
(***************************************************************************)
(* The polling agent over the store it really polls: PollAgent is checked  *)
(* against a register that gives every update a version of its own; here   *)
(* GET /api/v1/config reads the row of ConfigStore, whose requests may     *)
(* overlap, fail and be cut off, and whose database may be removed between *)
(* two runs of the controller (docs/DOCKER.md), so that versions repeat.   *)
(***************************************************************************)
EXTENDS ConfigStore

CONSTANTS DefaultPeriod, MaxBackoff, AgentFaults, MaxFaults,
          NoConfig, Torn, Empty,   \* as in PollAgent
          MaxWipes                 \* bound: how often the database is removed

ASSUME WipesAssumption == MaxWipes \in Nat
ASSUME PollerAssumption ==
  /\ DefaultPeriod \in Nat \ {0} /\ MaxBackoff \in Nat \ {0} /\ MaxFaults \in Nat
  /\ NoConfig \notin Row /\ Torn \notin Row /\ NoConfig # Torn /\ Empty \notin Int

VARIABLES
  apc, ver, resp, period, pending, backoff, cache, worker,  \* as in PollAgent
  missed, stalled, late, overtaken, budget,
  retired,     \* history variable: rows of databases that were removed
  overlapped,  \* history variable: some request began before another had ended
  wipes        \* how often the database was removed

\* up is the controller's in both; the row is the one a SELECT returns.
Agent == INSTANCE PollAgent WITH row <- Current, pc <- apc, Faults <- AgentFaults

private   == <<apc, ver, resp, period, pending, backoff, cache, worker, missed, stalled, late,
               overtaken>>
past      == <<retired, overlapped, wipes>>
allVars   == <<vars, private, budget, past>>

ASSUME AgentFaultsAssumption == AgentFaults \subseteq Agent!FaultKinds

PollInit ==
  /\ Init /\ Agent!Init
  /\ retired = {} /\ overlapped = FALSE /\ wipes = 0

-----------------------------------------------------------------------------
PollBoot == Boot /\ Agent!ControllerStarts /\ UNCHANGED past

PollCrash == Crash /\ Agent!ControllerStops /\ UNCHANGED past

PollBegin(a) ==
  /\ BeginUpdate(a)
  /\ overlapped' = (overlapped \/ ~Quiet)
  /\ UNCHANGED <<private, budget, retired, wipes>>

PollStore(a) == Step(a) /\ UNCHANGED <<private, budget, past>>

\* The volume of the database is removed; agents, workers and caches stay.
Wipe ==
  /\ ~up /\ wipes < MaxWipes
  /\ wipes' = wipes + 1
  /\ retired' = retired \cup published
  /\ active' = NoRow
  /\ history' = {} /\ published' = {} /\ acked' = {} /\ interrupted' = {}
  /\ UNCHANGED <<up, pc, req, read, private, budget, overlapped>>

\* Everything of PollAgent that is not the controller.
AgentMoves ==
  Agent!AgentStart \/ Agent!Startup \/ Agent!TakeInterval \/ Agent!Poll
OthersMove ==
  \/ Agent!WorkerRestarts \/ Agent!WorkerStalls \/ Agent!WorkerResumes
  \/ Agent!LateArrives \/ Agent!AgentCrash

PollAgentStep == UNCHANGED <<vars, past>> /\ AgentMoves
PollOthers    == UNCHANGED <<vars, past>> /\ OthersMove

PollNext ==
  \/ PollBoot \/ PollCrash \/ Wipe \/ PollAgentStep \/ PollOthers
  \/ \E a \in Admins : PollBegin(a) \/ PollStore(a)

\* The handlers end, the controller and the agent are brought back and the poll
\* loop runs, as in PollAgent.
PollSpec ==
  /\ PollInit /\ [][PollNext]_allVars
  /\ WF_allVars(PollBoot) /\ WF_allVars(PollAgentStep)
  /\ \A a \in Admins : WF_allVars(PollStore(a))

-----------------------------------------------------------------------------
(* Properties.                                                              *)

\* A version that stands for different configurations: overlapping updates, or
\* another database.
Ambiguous(v) ==
  \E r, s \in published \cup retired :
    r.version = v /\ s.version = v /\ r.data # s.data

\* As long as requests do not overlap and the database is the first one, the
\* controller and its agent behave as PollAgent says, whatever else fails: what is
\* proved there of InSync, of the cache and of polling holds of the real store.
RefinesPollAgent ==
  [][(~overlapped' /\ wipes' = 0) => [Agent!Next]_(Agent!vars)]_allVars

\* The comparison of versions is enough: outside of a forward, when the agent has
\* recorded the active version its worker runs the active configuration, unless it
\* was left behind or that version is ambiguous.
VersionTellsData ==
  (apc \in Agent!Polling \ {"forward"} /\ up /\ ver = active.version)
    => missed \/ overtaken \/ Ambiguous(ver) \/ Agent!WorkerIsCurrent

\* A poll that ends without an error leaves the worker with the configuration that
\* was answered, through overlapping updates and databases that are removed, with the
\* exceptions of PollAgent and unless the version of the answer is ambiguous.
DeliversUnlessAmbiguous ==
  apc = "offer" =>
    missed \/ overtaken \/ Ambiguous(resp.version)
      \/ (worker # NoConfig /\ worker.data = resp.data)

\* Without overlap and removal a poll is never answered with less than what an
\* administrator was answered 200 for before it.
AnswersAreCurrent ==
  [][(~overlapped' /\ wipes' = 0 /\ apc = "request" /\ apc' = "response") =>
       \A e \in acked : e = EntryOf(resp') \/ e.version < resp'.version]_allVars

\* The worker has the active configuration in the end, through overlapping
\* updates, failing statements, crashes and databases that are removed, but for an
\* ambiguous version and for what leaves a worker behind under PollAgent.
ConvergesUnlessAmbiguous ==
  <>[](Agent!LeftBehind \/ Ambiguous(Current.version) \/ Agent!WorkerIsCurrent)
=============================================================================
