---------------------------- MODULE ConfigStore ----------------------------
(***************************************************************************)
(* The controller's configuration store: the tables active_config and      *)
(* configurations of controller/internal/database/database.go, and the     *)
(* database part of the POST /api/v1/config handler that writes them.      *)
(*                                                                         *)
(* gin runs every request in a goroutine of its own and DB.UpdateConfig    *)
(* sends SQLite three separate statements (SELECT, UPDATE, INSERT) without *)
(* a transaction.  SetMaxOpenConns(1) serialises the statements, not the   *)
(* calls, so the steps of concurrent requests interleave.  Spec allows     *)
(* every interleaving; SerialSpec is the same system when no request       *)
(* starts before the previous one has been answered.                       *)
(***************************************************************************)
EXTENDS Integers

CONSTANTS Admins,           \* concurrent callers of POST /api/v1/config
          Data,             \* configurations they may post
          Queries,          \* values of ?poll_interval; 0: absent or rejected
          DefaultData,      \* what migrate() stores first
          MigrateInterval,  \* the interval migrate() stores first (30)
          DefaultInterval,  \* DEFAULT_POLL_INTERVAL, Handler.pollInterval
          Faults,           \* a subset of {"crash", "statement"}
          MaxVersion,       \* bound: no request starts at this version
          NoRow             \* active_config is still empty

ASSUME DataAssumption     == DefaultData \in Data
ASSUME QueriesAssumption  == Queries \subseteq Nat
ASSUME IntervalAssumption == MigrateInterval \in Int /\ DefaultInterval \in Int
ASSUME BoundAssumption    == MaxVersion \in Nat
ASSUME NoRowAssumption    ==
  NoRow \notin [version : Nat \ {0}, data : Data, interval : Int]

\* The handler's default when the query parameter is absent or not positive.
EffectiveInterval(q) == IF q > 0 THEN q ELSE DefaultInterval

Intervals == {EffectiveInterval(q) : q \in Queries} \cup {MigrateInterval}
Requests  == [data : Data, interval : Intervals]
Row       == [version : Nat \ {0}, data : Data, interval : Intervals]
Entry     == [version : Nat \ {0}, data : Data]

FirstRow == [version |-> 1, data |-> DefaultData, interval |-> MigrateInterval]
NoRequest == [data |-> DefaultData, interval |-> MigrateInterval]

VARIABLES
  up,           \* the controller process is running
  active,       \* the row of table active_config, or NoRow
  history,      \* the rows of table configurations (version is UNIQUE)
  pc,           \* where the handler goroutine of each admin is
  req,          \* the local variables config and pollInterval of the handler
  read,         \* the local variable currentVersion of DB.UpdateConfig
  published,    \* history variable: every row active_config has ever held
  acked,        \* history variable: what was acknowledged with 200
  interrupted   \* history variable: versions whose INSERT never ran, because
                \* it failed or the process ended right before it

vars == <<up, active, history, pc, req, read, published, acked, interrupted>>

Locations == {"idle", "select", "update", "insert", "stored", "failed"}

TypeOK ==
  /\ up \in BOOLEAN
  /\ active \in Row \cup {NoRow}
  /\ history \subseteq Entry
  /\ pc \in [Admins -> Locations]
  /\ req \in [Admins -> Requests]
  /\ read \in [Admins -> Nat]
  /\ published \subseteq Row
  /\ acked \subseteq Entry
  /\ interrupted \subseteq Nat \ {0}

Init ==
  /\ up = FALSE
  /\ active = NoRow
  /\ history = {}
  /\ pc = [a \in Admins |-> "idle"]
  /\ req = [a \in Admins |-> NoRequest]
  /\ read = [a \in Admins |-> 0]
  /\ published = {}
  /\ acked = {}
  /\ interrupted = {}

-----------------------------------------------------------------------------
(* Helpers: the row and the history entry a call of UpdateConfig writes.    *)

NewVersionNotBumped(a) == read[a]
NewVersion(a) == read[a] + 1

NewRow(a) == [version  |-> NewVersion(a),
              data     |-> req[a].data,
              interval |-> req[a].interval]

EntryOf(r) == [version |-> r.version, data |-> r.data]

\* The handlers between their UPDATE and their INSERT.
AtInsert == {a \in Admins : pc[a] = "insert"}

\* The UNIQUE constraint of configurations.version.
RecordedNotUnique(v) == FALSE
Recorded(v) == \E e \in history : e.version = v

\* What migrate() tests before it stores the first row.
NeedsFirstRowAlways == TRUE
NeedsFirstRow == active = NoRow

-----------------------------------------------------------------------------
(* Faulty variants of the actions below, one plausible slip each (the       *)
(* one-line variants of the helpers stand above them).  No specification    *)
(* uses them; each shows that a property would notice the slip.             *)

\* The query parameter is stored as it was sent.
BeginUpdateUnchecked(a) ==
  /\ up
  /\ pc[a] = "idle"
  /\ active.version < MaxVersion
  /\ \E d \in Data, q \in Queries :
       req' = [req EXCEPT ![a] = [data |-> d, interval |-> q]]
  /\ pc' = [pc EXCEPT ![a] = "select"]
  /\ UNCHANGED <<up, active, history, read, published, acked, interrupted>>

\* The INSERT uses currentVersion instead of newVersion.
InsertHistoryOldVersion(a) ==
  /\ pc[a] = "insert"
  /\ ~Recorded(read[a])
  /\ history' = history \cup {[version |-> read[a], data |-> req[a].data]}
  /\ pc' = [pc EXCEPT ![a] = "stored"]
  /\ UNCHANGED <<up, active, req, read, published, acked, interrupted>>

\* INSERT OR IGNORE.
InsertConflictIgnored(a) ==
  /\ pc[a] = "insert"
  /\ Recorded(NewVersion(a))
  /\ pc' = [pc EXCEPT ![a] = "stored"]
  /\ UNCHANGED <<up, active, history, req, read, published, acked, interrupted>>

\* The error of the UPDATE is not looked at.
StatementFailsUnnoticed(a) ==
  /\ "statement" \in Faults
  /\ pc[a] = "update"
  /\ pc' = [pc EXCEPT ![a] = "insert"]
  /\ UNCHANGED <<up, active, history, req, read, published, acked, interrupted>>

-----------------------------------------------------------------------------
\* database.New and migrate: every start; the first row only if there is none.
Boot ==
  /\ ~up
  /\ up' = TRUE
  /\ IF NeedsFirstRow
       THEN /\ active' = FirstRow
            /\ published' = published \cup {FirstRow}
       ELSE UNCHANGED <<active, published>>
  /\ UNCHANGED <<history, pc, req, read, acked, interrupted>>

\* A malformed body is answered 400 before the store is touched.
RejectUpdate(a) == up /\ pc[a] = "idle" /\ UNCHANGED vars

\* The request is parsed and its handler calls DB.UpdateConfig.
BeginUpdate(a) ==
  /\ up
  /\ pc[a] = "idle"
  /\ active.version < MaxVersion
  /\ \E d \in Data, q \in Queries :
       req' = [req EXCEPT ![a] = [data |-> d, interval |-> EffectiveInterval(q)]]
  /\ pc' = [pc EXCEPT ![a] = "select"]
  /\ UNCHANGED <<up, active, history, read, published, acked, interrupted>>

SelectVersion(a) ==
  /\ pc[a] = "select"
  /\ read' = [read EXCEPT ![a] = active.version]
  /\ pc' = [pc EXCEPT ![a] = "update"]
  /\ UNCHANGED <<up, active, history, req, published, acked, interrupted>>

UpdateActive(a) ==
  /\ pc[a] = "update"
  /\ active' = NewRow(a)
  /\ published' = published \cup {NewRow(a)}
  /\ pc' = [pc EXCEPT ![a] = "insert"]
  /\ UNCHANGED <<up, history, req, read, acked, interrupted>>

InsertHistory(a) ==
  /\ pc[a] = "insert"
  /\ ~Recorded(NewVersion(a))
  /\ history' = history \cup {EntryOf(NewRow(a))}
  /\ pc' = [pc EXCEPT ![a] = "stored"]
  /\ UNCHANGED <<up, active, req, read, published, acked, interrupted>>

\* Another request has already recorded this version: the INSERT fails, the
\* UPDATE before it stays.
InsertConflict(a) ==
  /\ pc[a] = "insert"
  /\ Recorded(NewVersion(a))
  /\ pc' = [pc EXCEPT ![a] = "failed"]
  /\ UNCHANGED <<up, active, history, req, read, published, acked, interrupted>>

\* A statement returns an error (disk full, I/O error, lock held for more than
\* busy_timeout): UpdateConfig returns at once and undoes nothing.
StatementFails(a) ==
  /\ "statement" \in Faults
  /\ pc[a] \in {"select", "update", "insert"}
  /\ pc' = [pc EXCEPT ![a] = "failed"]
  /\ interrupted' = interrupted \cup {NewVersion(b) : b \in {a} \cap AtInsert}
  /\ UNCHANGED <<up, active, history, req, read, published, acked>>

\* The goroutine ends and its local variables with it.
Finish(a) ==
  /\ pc' = [pc EXCEPT ![a] = "idle"]
  /\ req' = [req EXCEPT ![a] = NoRequest]
  /\ read' = [read EXCEPT ![a] = 0]

RespondOK(a) ==
  /\ pc[a] = "stored"
  /\ acked' = acked \cup {EntryOf(NewRow(a))}
  /\ Finish(a)
  /\ UNCHANGED <<up, active, history, published, interrupted>>

RespondError(a) ==
  /\ pc[a] = "failed"
  /\ Finish(a)
  /\ UNCHANGED <<up, active, history, published, acked, interrupted>>

\* The process dies between two statements, or is stopped and gives up on the
\* requests in flight after its five seconds of grace; the database file stays.
Crash ==
  /\ "crash" \in Faults
  /\ up
  /\ up' = FALSE
  /\ pc' = [a \in Admins |-> "idle"]
  /\ req' = [a \in Admins |-> NoRequest]
  /\ read' = [a \in Admins |-> 0]
  /\ interrupted' = interrupted \cup {NewVersion(a) : a \in AtInsert}
  /\ UNCHANGED <<active, history, published, acked>>

-----------------------------------------------------------------------------
Step(a) ==
  \/ RejectUpdate(a)
  \/ SelectVersion(a)
  \/ UpdateActive(a)
  \/ InsertHistory(a)
  \/ InsertConflict(a)
  \/ StatementFails(a)
  \/ RespondOK(a)
  \/ RespondError(a)

Next == Boot \/ Crash \/ \E a \in Admins : BeginUpdate(a) \/ Step(a)

Spec == Init /\ [][Next]_vars

Quiet == \A a \in Admins : pc[a] = "idle"

SerialNext ==
  \/ Boot
  \/ Crash
  \/ \E a \in Admins : (Quiet /\ BeginUpdate(a)) \/ Step(a)

SerialSpec == Init /\ [][SerialNext]_vars

-----------------------------------------------------------------------------
(* Properties.                                                              *)

Versions(S) == {r.version : r \in S}

\* Every update moves the version of the active configuration forward, and a
\* restart of the controller leaves it where it was (SELECT and UPDATE in
\* UpdateConfig, the count in migrate).
VersionNeverDecreases ==
  [][active # NoRow => active'.version >= active.version]_vars

\* Two configurations never become active under one version: an agent that
\* compares versions (the ETag) sees every change.
VersionIdentifiesRow ==
  \A r, s \in published : r.version = s.version => r = s

\* A version is only ever missing from the history because an INSERT did not
\* run; overlapping requests alone lose none, although the INSERT of one of two
\* that write the same version is refused.
GapsAreInterruptions ==
  \A v \in Versions(published) \ ({1} \cup interrupted) :
    Recorded(v) \/ v \in {NewVersion(a) : a \in AtInsert}

\* Unless its INSERT did not run, the active configuration is in the history
\* between requests, with the very data the agents get.
HistoryHasActive ==
  (Quiet /\ active # NoRow /\ active.version \notin {1} \cup interrupted)
    => EntryOf(active) \in history

\* History only contains what was active at some time, each version once.
HistoryIsTrue ==
  /\ \A e \in history : \E r \in published : EntryOf(r) = e
  /\ \A e, f \in history : e.version = f.version => e = f

\* An acknowledged update is in the history for ever, and no two requests are
\* acknowledged with the same version.
AckedOnce ==
  /\ acked \subseteq history
  /\ \A a \in Admins : pc[a] = "stored" =>
       /\ EntryOf(NewRow(a)) \in history
       /\ NewVersion(a) \notin Versions(acked)
       /\ \A b \in Admins \ {a} : pc[b] = "stored" => NewVersion(b) # NewVersion(a)

\* What was acknowledged is active until a newer version replaces it.
AckedIsActiveOrSuperseded ==
  \A e \in acked : e = EntryOf(active) \/ e.version < active.version

\* The UNIQUE constraint refuses only one of two updates that overlap: the version
\* an INSERT uses is free, whatever crashed or failed before it, so that without
\* overlap a 500 means a fault.
NoneRefused == \A a \in AtInsert : ~Recorded(NewVersion(a))

-----------------------------------------------------------------------------
\* Without overlapping requests the store is the versioned register the agents
\* rely on: every UpdateConfig is one step of it, and everything else, crashes
\* and failed statements included, is none.
Current == IF active = NoRow THEN FirstRow ELSE active

Register == INSTANCE VersionedRegister WITH row <- Current

ImplementsRegister == Register!RegisterSpec
=============================================================================
