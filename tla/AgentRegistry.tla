--------------------------- MODULE AgentRegistry ---------------------------
(***************************************************************************)
(* How an agent joins: its settings (agent/internal/config/config.go), the *)
(* registration at the controller behind Basic authentication              *)
(* (agent/cmd/main.go, pkg/auth/auth.go, controller/internal/api), the     *)
(* table agents and its listing over the one pooled database connection    *)
(* (controller/internal/database/database.go), and the choice and start of *)
(* a distributor (agent/internal/poller/distribution.go, the clients in    *)
(* pkg/redis and pkg/nats).                                                *)
(***************************************************************************)
EXTENDS Integers, Sequences

CONSTANTS
  Agents,
  Deployments,         \* [controller: its environment, agents: [env, file] of each]
  Defaults,            \* the defaults, which are the same on both sides
  Unset,               \* a variable that is not set, or empty
  Malformed,           \* a config.yaml that does not parse
  Colon,               \* the character ":"
  BadSubjects,         \* subjects the NATS library refuses
  MaxRows,             \* bound: registrations
  MaxFaults            \* bound: faults

Keys == {"user", "password", "strategy", "broker", "subject"}

ASSUME DefaultsAssumption == DOMAIN Defaults = Keys
ASSUME DeploymentsAssumption ==
  \A d \in Deployments : d = [controller |-> d.controller, agents |-> d.agents]
ASSUME StringsAssumption ==
  /\ \A d \in Deployments, k \in {"user", "password"} :
       /\ d.controller[k] # Unset => d.controller[k] \in Seq(Nat)
       /\ \A a \in Agents :
            LET s == d.agents[a]
            IN  /\ s.env[k] # Unset => s.env[k] \in Seq(Nat)
                /\ s.file # Malformed => (s.file[k] # Unset => s.file[k] \in Seq(Nat))
  /\ Defaults["user"] \in Seq(Nat) /\ Defaults["password"] \in Seq(Nat)
ASSUME ColonAssumption == Colon \in Nat
ASSUME BoundsAssumption == MaxRows \in Nat /\ MaxFaults \in Nat

VARIABLES
  up,        \* the controller answers
  ctl,       \* its environment
  connected, \* it has a client of its broker that is not closed
  settings,  \* of each agent: its environment and its config.yaml
  broker,    \* the brokers answer
  closed,    \* of each agent process: its NATS connection is closed for good
  pc,        \* where each agent process is
  id,        \* the agent ID it was answered, 0 before
  handler,   \* the RegisterAgent handler that serves it, if any
  granted,   \* the local variable agentID of that handler
  rows,      \* the table agents: the ids in it
  issued,    \* how many ids uuid.New has made for rows
  busy,      \* the one database connection is in use by a listing
  lister,    \* where the GetAgents handler is
  rest,      \* rows its cursor has not reached
  list,      \* its slice of agents
  answered,  \* history variable: ids that were answered with 200
  asked,     \* history variable: answered, when the listing was asked for
  cut,       \* history variable: the cursor of the listing broke off
  budget     \* faults still to come

agent   == <<pc, id>>
serving == <<handler, granted>>
listing == <<busy, lister, rest, list, asked, cut>>
table   == <<rows, issued, answered>>
fixed   == <<ctl, settings>>
vars == <<up, connected, broker, closed, budget, fixed, agent, serving, table, listing>>

Registered == {"waiting", "create", "start", "running", "zombie"}

TypeOK ==
  /\ up \in BOOLEAN /\ connected \in BOOLEAN /\ broker \in BOOLEAN
  /\ closed \in [Agents -> BOOLEAN]
  /\ [controller |-> ctl, agents |-> settings] \in Deployments
  /\ pc \in [Agents -> {"down", "register"} \cup Registered]
  /\ id \in [Agents -> 0..MaxRows]
  /\ handler \in [Agents -> {"none", "insert", "answer", "error"}]
  /\ granted \in [Agents -> 0..MaxRows]
  /\ issued \in 0..MaxRows
  /\ rows \subseteq 1..issued /\ answered \subseteq rows
  /\ busy \in BOOLEAN /\ cut \in BOOLEAN
  /\ lister \in {"idle", "query", "next", "answer", "error"}
  /\ rest \subseteq rows /\ list \subseteq rows /\ asked \subseteq answered
  /\ budget \in 0..MaxFaults

-----------------------------------------------------------------------------
(* Settings.                                                                *)

\* getEnv over viper: the environment, then config.yaml, then the default.
LookupFileFirst(s, k) ==
  IF s.file[k] # Unset THEN s.file[k] ELSE IF s.env[k] # Unset THEN s.env[k] ELSE Defaults[k]
Lookup(s, k) ==
  IF s.env[k] # Unset THEN s.env[k] ELSE IF s.file[k] # Unset THEN s.file[k] ELSE Defaults[k]

LoadConfig(a) == [k \in Keys |-> Lookup(settings[a], k)]

\* getEnv of the controller, which has no file.
Controller == [k \in Keys |-> IF ctl[k] # Unset THEN ctl[k] ELSE Defaults[k]]

\* What an agent listens to ...
Supported(strategy) == strategy \in {"POLLER", "REDIS", "NATS"}
Channel(c) ==
  CASE c["strategy"] = "POLLER" -> <<"POLLER">>
    [] c["strategy"] = "REDIS"  -> <<"REDIS", c["broker"]>>
    [] OTHER                    -> <<c["strategy"], c["broker"], c["subject"]>>

\* ... and what the controller sends on: always HTTP, and the broker its client is
\* connected to, under the subject written in UpdateConfig, not the one it was given.
Offered ==
  {<<"POLLER">>} \cup
    (IF connected /\ broker
       THEN {Channel([Controller EXCEPT !["subject"] = Defaults["subject"]])}
       ELSE {})

-----------------------------------------------------------------------------
(* Basic authentication; base64 is undone exactly.                          *)

CreateBasicAuthHeader(user, password) == user \o <<Colon>> \o password

\* strings.SplitN(credentials, ":", 2): the first colon ends the user name.
EndsUser(h, i) == h[i] = Colon /\ \A j \in 1..(i - 1) : h[j] # Colon

ValidateBasicAuthPrefix(h, user, password) ==
  \E i \in 1..Len(h) : EndsUser(h, i) /\ SubSeq(h, 1, i - 1) = user
ValidateBasicAuth(h, user, password) ==
  \E i \in 1..Len(h) :
    /\ EndsUser(h, i)
    /\ SubSeq(h, 1, i - 1) = user
    /\ SubSeq(h, i + 1, Len(h)) = password

Authorized(a) ==
  ValidateBasicAuth(
    CreateBasicAuthHeader(LoadConfig(a)["user"], LoadConfig(a)["password"]),
    Controller["user"], Controller["password"])

-----------------------------------------------------------------------------
Init ==
  /\ up = FALSE /\ connected = FALSE /\ broker = TRUE
  /\ closed = [a \in Agents |-> FALSE]
  /\ \E d \in Deployments : ctl = d.controller /\ settings = d.agents
  /\ pc = [a \in Agents |-> "down"]
  /\ id = [a \in Agents |-> 0]
  /\ handler = [a \in Agents |-> "none"]
  /\ granted = [a \in Agents |-> 0]
  /\ issued = 0
  /\ rows = {} /\ answered = {}
  /\ busy = FALSE /\ lister = "idle" /\ rest = {} /\ list = {} /\ asked = {}
  /\ cut = FALSE
  /\ budget = MaxFaults

Fault == budget > 0 /\ budget' = budget - 1
Move(a, from, to) == pc[a] = from /\ pc' = [pc EXCEPT ![a] = to]
Serve(a, from, to) == handler[a] = from /\ handler' = [handler EXCEPT ![a] = to]

\* The handler of the listing ends.
ListDone ==
  /\ lister' = "idle" /\ rest' = {} /\ list' = {} /\ asked' = {} /\ cut' = FALSE

-----------------------------------------------------------------------------
(* Faulty variants of actions below, one plausible slip each.  No            *)
(* specification uses them; each shows that a property would notice it.      *)

\* The error of the INSERT is not looked at.
InsertFailsUnnoticed(a) ==
  /\ Serve(a, "insert", "answer")
  /\ ~busy /\ issued < MaxRows
  /\ Fault
  /\ issued' = issued + 1
  /\ granted' = [granted EXCEPT ![a] = issued']
  /\ UNCHANGED <<up, connected, broker, closed, fixed, agent, rows, answered, listing>>

\* "if rows.Next()" for "for rows.Next()".
LastRowEarly ==
  /\ lister = "next" /\ (rest = {} \/ list # {})
  /\ busy' = FALSE /\ lister' = "answer"
  /\ UNCHANGED <<up, connected, broker, closed, budget, fixed, agent, serving, table, rest, list,
                 asked, cut>>

\* No deferred rows.Close: an early return keeps the connection.
ScanFailsUnclosed ==
  /\ lister = "next" /\ rest # {}
  /\ Fault
  /\ lister' = "error"
  /\ UNCHANGED <<up, connected, broker, closed, fixed, agent, serving, table, busy, rest, list,
                 asked, cut>>

-----------------------------------------------------------------------------
(* The controller process and the brokers.                                  *)

\* main: the client exists if the broker answered when the process started.
ControllerStarts ==
  /\ ~up
  /\ up' = TRUE
  /\ connected' = (Controller["strategy"] \in {"REDIS", "NATS"} /\ broker)
  /\ UNCHANGED <<broker, closed, budget, fixed, agent, serving, table, listing>>

\* nats.MaxReconnects(10), two seconds apart, then the connection is closed; the
\* controller goes on without it, and a Redis client would try for ever.
ControllerGivesUp ==
  /\ up /\ connected
  /\ Controller["strategy"] = "NATS" /\ ~broker
  /\ connected' = FALSE
  /\ UNCHANGED <<up, broker, closed, budget, fixed, agent, serving, table, listing>>

\* The requests in flight are gone; an agent that waits for its answer exits.
ControllerStops ==
  /\ up
  /\ Fault
  /\ up' = FALSE /\ connected' = FALSE
  /\ handler' = [a \in Agents |-> "none"]
  /\ granted' = [a \in Agents |-> 0]
  /\ pc' = [a \in Agents |-> IF pc[a] = "waiting" THEN "down" ELSE pc[a]]
  /\ busy' = FALSE
  /\ ListDone
  /\ UNCHANGED <<broker, closed, fixed, id, table>>

BrokerStops ==
  /\ broker
  /\ Fault
  /\ broker' = FALSE
  /\ UNCHANGED <<up, connected, closed, fixed, agent, serving, table, listing>>

BrokerStarts ==
  /\ ~broker
  /\ broker' = TRUE
  /\ UNCHANGED <<up, connected, closed, budget, fixed, agent, serving, table, listing>>

-----------------------------------------------------------------------------
(* An agent; every Fatalf ends the process, and it is started again.        *)

AgentStart(a) ==
  /\ settings[a].file # Malformed
  /\ Move(a, "down", "register")
  /\ UNCHANGED <<up, connected, broker, closed, budget, fixed, id, serving, table, listing>>

AgentCrash(a) ==
  /\ pc[a] # "down"
  /\ Fault
  /\ pc' = [pc EXCEPT ![a] = "down"]
  /\ id' = [id EXCEPT ![a] = 0]
  /\ closed' = [closed EXCEPT ![a] = FALSE]
  /\ UNCHANGED <<up, connected, broker, fixed, serving, table, listing>>

\* The same ten attempts on the side of the agent, whose process stays.
LinkGivesUp(a) ==
  /\ pc[a] \in {"start", "running"}
  /\ LoadConfig(a)["strategy"] = "NATS" /\ ~broker
  /\ ~closed[a]
  /\ closed' = [closed EXCEPT ![a] = TRUE]
  /\ UNCHANGED <<up, connected, broker, budget, fixed, agent, serving, table, listing>>

\* AgentAuthMiddleware lets the request through (bound: the handler of an agent
\* that died has ended before the next one begins).
Register(a) ==
  /\ Move(a, "register", "waiting")
  /\ up
  /\ Authorized(a)
  /\ issued < MaxRows
  /\ Serve(a, "none", "insert")
  /\ UNCHANGED <<up, connected, broker, closed, budget, fixed, id, granted, table, listing>>

\* No controller, or 401.
RegisterFails(a) ==
  /\ Move(a, "register", "down")
  /\ ~up \/ ~Authorized(a)
  /\ UNCHANGED <<up, connected, broker, closed, budget, fixed, id, serving, table, listing>>

Create(a) ==
  LET c == LoadConfig(a) IN
  /\ Move(a, "create", "start")
  /\ Supported(c["strategy"])
  /\ c["strategy"] = "POLLER" \/ broker
  /\ UNCHANGED <<up, connected, broker, closed, budget, fixed, id, serving, table, listing>>

\* An unknown strategy, or no connection: Fatalf, the row in the table stays.
CreateFails(a) ==
  LET c == LoadConfig(a) IN
  /\ Move(a, "create", "down")
  /\ ~Supported(c["strategy"]) \/ (c["strategy"] # "POLLER" /\ ~broker)
  /\ id' = [id EXCEPT ![a] = 0]
  /\ UNCHANGED <<up, connected, broker, closed, budget, fixed, serving, table, listing>>

\* The goroutine of main; its error, from a subject or a connection that does not
\* do for a subscription, is only logged and the process stays.
Start(a) ==
  /\ pc[a] = "start"
  /\ LET c == LoadConfig(a)
         bad == c["strategy"] = "NATS" /\ (c["subject"] \in BadSubjects \/ closed[a])
     IN  Move(a, "start", IF bad THEN "zombie" ELSE "running")
  /\ UNCHANGED <<up, connected, broker, closed, budget, fixed, id, serving, table, listing>>

-----------------------------------------------------------------------------
(* The RegisterAgent handler.                                               *)

\* One statement, which waits for the connection; id is the PRIMARY KEY.
Insert(a) ==
  /\ Serve(a, "insert", "answer")
  /\ ~busy /\ issued < MaxRows
  /\ issued' = issued + 1
  /\ issued' \notin rows
  /\ rows' = rows \cup {issued'}
  /\ granted' = [granted EXCEPT ![a] = issued']
  /\ UNCHANGED <<up, connected, broker, closed, budget, fixed, agent, answered, listing>>

InsertFails(a) ==
  /\ Serve(a, "insert", "error")
  /\ ~busy
  /\ IF issued + 1 \in rows THEN UNCHANGED budget ELSE Fault
  /\ UNCHANGED <<up, connected, broker, closed, fixed, agent, granted, table, listing>>

\* 200 to an agent that may be gone.
Answer(a) ==
  /\ Serve(a, "answer", "none")
  /\ answered' = answered \cup {granted[a]}
  /\ IF pc[a] = "waiting"
       THEN pc' = [pc EXCEPT ![a] = "create"] /\ id' = [id EXCEPT ![a] = granted[a]]
       ELSE UNCHANGED agent
  /\ granted' = [granted EXCEPT ![a] = 0]
  /\ UNCHANGED <<up, connected, broker, closed, budget, fixed, rows, issued, listing>>

\* 500.
AnswerError(a) ==
  /\ Serve(a, "error", "none")
  /\ pc' = [pc EXCEPT ![a] = IF @ = "waiting" THEN "down" ELSE @]
  /\ UNCHANGED <<up, connected, broker, closed, budget, fixed, id, granted, table, listing>>

-----------------------------------------------------------------------------
(* The GetAgents handler.                                                   *)

ListAgents ==
  /\ up /\ lister = "idle"
  /\ lister' = "query" /\ asked' = answered
  /\ UNCHANGED <<up, connected, broker, closed, budget, fixed, agent, serving, table, busy, rest,
                 list, cut>>

Query ==
  /\ lister = "query" /\ ~busy
  /\ busy' = TRUE /\ lister' = "next" /\ rest' = rows
  /\ UNCHANGED <<up, connected, broker, closed, budget, fixed, agent, serving, table, list, asked,
                 cut>>

QueryFails ==
  /\ lister = "query" /\ ~busy
  /\ Fault
  /\ lister' = "error"
  /\ UNCHANGED <<up, connected, broker, closed, fixed, agent, serving, table, busy, rest, list,
                 asked, cut>>

\* In any order: RegisteredAt is never set, so every row sorts the same.
NextRow ==
  /\ lister = "next"
  /\ \E r \in rest : rest' = rest \ {r} /\ list' = list \cup {r}
  /\ UNCHANGED <<up, connected, broker, closed, budget, fixed, agent, serving, table, busy, lister,
                 asked, cut>>

LastRow ==
  /\ lister = "next" /\ rest = {}
  /\ busy' = FALSE /\ lister' = "answer"
  /\ UNCHANGED <<up, connected, broker, closed, budget, fixed, agent, serving, table, rest, list,
                 asked, cut>>

\* rows.Err is not asked: a cursor that breaks off looks like one at its end.
CursorBreaks ==
  /\ lister = "next" /\ rest # {}
  /\ Fault
  /\ busy' = FALSE /\ lister' = "answer" /\ cut' = TRUE
  /\ UNCHANGED <<up, connected, broker, closed, fixed, agent, serving, table, rest, list, asked>>

ScanFails ==
  /\ lister = "next" /\ rest # {}
  /\ Fault
  /\ busy' = FALSE /\ lister' = "error"
  /\ UNCHANGED <<up, connected, broker, closed, fixed, agent, serving, table, rest, list, asked,
                 cut>>

\* 200 with the list, or 500.
AnswerList ==
  /\ lister \in {"answer", "error"}
  /\ ListDone
  /\ UNCHANGED <<up, connected, broker, closed, budget, fixed, agent, serving, table, busy>>

-----------------------------------------------------------------------------
AgentSteps(a) ==
  Register(a) \/ RegisterFails(a) \/ Create(a) \/ CreateFails(a) \/ Start(a)
ServeSteps(a) == InsertFails(a) \/ Answer(a) \/ AnswerError(a)
ListSteps == QueryFails \/ NextRow \/ LastRow \/ CursorBreaks \/ ScanFails \/ AnswerList

Next ==
  \/ ControllerStarts \/ ControllerGivesUp \/ ControllerStops
  \/ BrokerStops \/ BrokerStarts
  \/ \E a \in Agents :
       AgentStart(a) \/ AgentCrash(a) \/ LinkGivesUp(a) \/ AgentSteps(a)
         \/ Insert(a) \/ ServeSteps(a)
  \/ ListAgents \/ Query \/ ListSteps

\* Processes run and are restarted; database/sql hands a connection that is put
\* back to a caller that waits for it.
Fairness ==
  /\ WF_vars(ControllerStarts) /\ WF_vars(BrokerStarts)
  /\ \A a \in Agents : /\ WF_vars(AgentStart(a) \/ AgentSteps(a))
                       /\ SF_vars(Insert(a)) /\ WF_vars(ServeSteps(a))
  /\ WF_vars(ListSteps)

Spec == Init /\ [][Next]_vars /\ Fairness

-----------------------------------------------------------------------------
(* Properties.                                                              *)

\* Only an agent with the controller's credentials gets past the middleware,
\* unless its user name contains a colon: the split then moves part of it into
\* the password.
RegisteredRightly ==
  \A a \in Agents : pc[a] \in Registered =>
    \/ \A k \in {"user", "password"} : LoadConfig(a)[k] = Controller[k]
    \/ \E i \in DOMAIN LoadConfig(a)["user"] : LoadConfig(a)["user"][i] = Colon

\* A listing that is answered with 200 has every agent that had been answered its
\* id before the listing was asked for, unless its cursor broke off.
ListingComplete == (lister = "answer" /\ ~cut) => asked \subseteq list

\* The one connection to the database is out only while a listing reads its rows:
\* whichever way the handler leaves that loop, the deferred Close puts it back.
ConnectionIsReturned == busy <=> lister = "next"

\* A registration is answered, however often agents are listed and whatever error
\* the listing meets while it holds the only connection (or the bound is reached).
RegistrationEnds ==
  \A a \in Agents : (handler[a] = "insert") ~> (handler[a] = "none" \/ issued = MaxRows)

\* The environment of an agent is the controller's, and leaves nothing to a file.
SameEnvironment(a) ==
  /\ settings[a].env = ctl
  /\ settings[a].file # Malformed
  /\ \A k \in Keys : ctl[k] = Unset => settings[a].file[k] = Unset

\* What keeps an agent from joining in spite of that: a user name with a colon,
\* an unknown strategy, another NATS subject than the default, a controller
\* without a client of its broker, because it found none when it started or has
\* given up since.
Misfit ==
  \/ \E i \in DOMAIN Controller["user"] : Controller["user"][i] = Colon
  \/ ~Supported(Controller["strategy"])
  \/ Controller["strategy"] # "POLLER" /\ ~connected
  \/ Controller["strategy"] = "NATS" /\ Controller["subject"] # Defaults["subject"]

\* Nothing is sent while the broker is down.
Outage == Controller["strategy"] # "POLLER" /\ ~broker

\* But for those reasons, an agent with the controller's environment is let in and
\* subscribes where the controller sends, whatever its config.yaml says besides.
SameSettingsFit ==
  \A a \in Agents : (SameEnvironment(a) /\ ~Misfit) =>
    /\ Authorized(a)
    /\ Outage \/ Channel(LoadConfig(a)) \in Offered

\* The agent listens, over a connection that still tries, where the controller
\* sends.
Hears(a) ==
  pc[a] = "running" /\ ~closed[a] /\ Channel(LoadConfig(a)) \in Offered

\* An agent that is started with the controller's environment ends up hearing it,
\* through restarts on either side and outages of the broker, but for those
\* reasons and for a NATS connection that outlasted its ten attempts and has
\* closed, which only a restart of the agent would open again.
Joins ==
  <>[](\A a \in Agents :
         SameEnvironment(a) =>
           Misfit \/ closed[a] \/ issued = MaxRows \/ Hears(a))
=============================================================================
