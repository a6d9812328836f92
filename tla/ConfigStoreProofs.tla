------------------------- MODULE ConfigStoreProofs -------------------------
(***************************************************************************)
(* What ConfigStore guarantees for every number of callers, every set of   *)
(* configurations and every bound.                                         *)
(***************************************************************************)
EXTENDS ConfigStore, TLAPS

\* Requests are only in flight while the process runs, and the process only
\* runs once migrate() has made sure that there is a row.
Ready ==
  /\ up => active # NoRow
  /\ \A a \in Admins : pc[a] # "idle" => up

TypeInv == TypeOK /\ Ready

LEMMA NoRowIsNoRow == NoRow \notin Row
BY NoRowAssumption, IntervalAssumption, QueriesAssumption
   DEF Row, Intervals, EffectiveInterval

LEMMA FirstRowIsRow == FirstRow \in Row /\ FirstRow # NoRow
BY DataAssumption, NoRowIsNoRow DEF FirstRow, Row, Intervals

LEMMA NoRequestIsRequest == NoRequest \in Requests
BY DataAssumption DEF NoRequest, Requests, Intervals

\* The row a handler is about to write is a row, and its entry an entry.
LEMMA NewRowIsRow ==
  ASSUME TypeOK, NEW a \in Admins
  PROVE  /\ NewRow(a) \in Row
         /\ NewRow(a) # NoRow
         /\ EntryOf(NewRow(a)) \in Entry
         /\ EntryOf(NewRow(a)).version = NewVersion(a)
         /\ NewRow(a).version = NewVersion(a)
         /\ NewVersion(a) \in Nat \ {0}
BY NoRowIsNoRow DEF TypeOK, NewRow, NewVersion, EntryOf, Row, Requests, Entry

\* Versions whose INSERT does not run are versions.
LEMMA InterruptedIsVersions ==
  ASSUME TypeOK, NEW S \in SUBSET Admins
  PROVE  {NewVersion(a) : a \in S} \subseteq Nat \ {0}
BY NewRowIsRow

LEMMA TypeInit == Init => TypeInv
<1> SUFFICES ASSUME Init PROVE TypeInv
  OBVIOUS
<1>1. up \in BOOLEAN /\ (up => active # NoRow)
  BY Zenon DEF Init
<1>2. pc \in [Admins -> Locations] /\ \A a \in Admins : pc[a] = "idle"
  BY DEF Init, Locations
<1>3. /\ active = NoRow /\ history = {} /\ published = {} /\ acked = {}
      /\ interrupted = {}
  BY DEF Init
<1>4. req \in [Admins -> Requests] /\ read \in [Admins -> Nat]
  BY NoRequestIsRequest DEF Init
<1> QED
  BY <1>1, <1>2, <1>3, <1>4 DEF TypeInv, TypeOK, Ready

LEMMA TypeStep == TypeInv /\ [Next]_vars => TypeInv'
<1> SUFFICES ASSUME TypeInv, [Next]_vars PROVE TypeInv'
  OBVIOUS
<1> USE DEF TypeInv, TypeOK, Ready, Locations
<1>1. CASE Boot
  <2>1. TypeOK'
    BY <1>1, FirstRowIsRow DEF Boot, NeedsFirstRow
  <2>2. up' /\ active' # NoRow /\ pc' = pc
    BY <1>1, FirstRowIsRow DEF Boot, NeedsFirstRow
  <2> QED
    BY <2>1, <2>2
<1>2. CASE Crash
  BY <1>2, NoRequestIsRequest, InterruptedIsVersions DEF Crash, AtInsert
<1>3. ASSUME NEW a \in Admins, BeginUpdate(a) PROVE TypeInv'
  <2>1. PICK d \in Data, q \in Queries :
          req' = [req EXCEPT ![a] =
                    [data |-> d, interval |-> EffectiveInterval(q)]]
    BY <1>3 DEF BeginUpdate
  <2>2. [data |-> d, interval |-> EffectiveInterval(q)] \in Requests
    BY <2>1 DEF Requests, Intervals
  <2> QED
    BY <1>3, <2>1, <2>2 DEF BeginUpdate
<1>4. ASSUME NEW a \in Admins, Step(a) PROVE TypeInv'
  <2>1. CASE RejectUpdate(a)
    BY <2>1 DEF RejectUpdate, vars
  <2>2. CASE SelectVersion(a)
    <3>1. active \in Row
      BY <2>2 DEF SelectVersion
    <3>2. active.version \in Nat
      BY <3>1 DEF Row
    <3> QED
      BY <2>2, <3>2 DEF SelectVersion
  <2>3. CASE UpdateActive(a)
    BY <2>3, NewRowIsRow DEF UpdateActive
  <2>4. CASE InsertHistory(a)
    BY <2>4, NewRowIsRow DEF InsertHistory
  <2>5. CASE InsertConflict(a)
    BY <2>5 DEF InsertConflict
  <2>6. CASE StatementFails(a)
    BY <2>6, InterruptedIsVersions DEF StatementFails, AtInsert
  <2>7. CASE RespondOK(a)
    BY <2>7, NewRowIsRow, NoRequestIsRequest DEF RespondOK, Finish
  <2>8. CASE RespondError(a)
    BY <2>8, NoRequestIsRequest DEF RespondError, Finish
  <2> QED
    BY <1>4, <2>1, <2>2, <2>3, <2>4, <2>5, <2>6, <2>7, <2>8 DEF Step
<1>5. CASE UNCHANGED vars
  BY <1>5 DEF vars
<1> QED
  BY <1>1, <1>2, <1>3, <1>4, <1>5 DEF Next

LEMMA TypeInvariant == Spec => []TypeInv
BY TypeInit, TypeStep, PTL DEF Spec

\* Type correctness of the store, whatever interleaves and whatever fails: in
\* particular no statement of a handler ever runs before migrate() has stored
\* a row.
THEOREM TypeCorrect == Spec => []TypeOK
BY TypeInvariant, PTL DEF TypeInv
-----------------------------------------------------------------------------
(* Overlapping requests, failing statements, crashes.                       *)

\* A handler that is past its UPDATE has published its row.
PastUpdatePublished ==
  \A a \in Admins : pc[a] \in {"insert", "stored"} => NewRow(a) \in published

\* Steps that leave a handler's local variables alone leave its row alone.
LEMMA RowUnchanged ==
  ASSUME NEW a \in Admins, req'[a] = req[a], read'[a] = read[a]
  PROVE  NewRow(a)' = NewRow(a) /\ NewVersion(a)' = NewVersion(a)
BY DEF NewRow, NewVersion

HistoryInv == PastUpdatePublished /\ HistoryIsTrue

LEMMA HistoryInit == Init => HistoryInv
BY DEF Init, HistoryInv, PastUpdatePublished, HistoryIsTrue

LEMMA HistoryStep ==
  TypeInv /\ HistoryInv /\ [Next]_vars => HistoryInv'
<1> SUFFICES ASSUME TypeInv, HistoryInv, [Next]_vars PROVE HistoryInv'
  OBVIOUS
<1> USE DEF HistoryInv, PastUpdatePublished, HistoryIsTrue
<1>t. TypeOK
  BY DEF TypeInv
<1>1. CASE Boot
  <2>1. UNCHANGED <<history, pc, req, read>> /\ published \subseteq published'
    BY <1>1 DEF Boot
  <2> QED
    BY <2>1 DEF NewRow, NewVersion
<1>2. CASE Crash
  BY <1>2 DEF Crash
<1>3. ASSUME NEW a \in Admins, BeginUpdate(a) PROVE HistoryInv'
  <2>1. \A b \in Admins : pc'[b] \in {"insert", "stored"} =>
          /\ pc[b] \in {"insert", "stored"}
          /\ req'[b] = req[b] /\ read'[b] = read[b]
    BY <1>3, <1>t DEF BeginUpdate, TypeOK
  <2> QED
    BY <1>3, <2>1, RowUnchanged DEF BeginUpdate
<1>4. ASSUME NEW a \in Admins, Step(a) PROVE HistoryInv'
  <2>1. CASE RejectUpdate(a)
    BY <2>1 DEF RejectUpdate, vars, NewRow, NewVersion
  <2>2. CASE SelectVersion(a)
    <3>1. \A b \in Admins : pc'[b] \in {"insert", "stored"} =>
            /\ pc[b] \in {"insert", "stored"}
            /\ req'[b] = req[b] /\ read'[b] = read[b]
      BY <2>2, <1>t DEF SelectVersion, TypeOK
    <3> QED
      BY <2>2, <3>1, RowUnchanged DEF SelectVersion
  <2>3. CASE UpdateActive(a)
    <3>1. /\ \A b \in Admins \ {a} : pc'[b] = pc[b]
          /\ req' = req /\ read' = read /\ history' = history
          /\ published' = published \cup {NewRow(a)}
      BY <2>3, <1>t DEF UpdateActive, TypeOK
    <3>2. \A b \in Admins : NewRow(b)' = NewRow(b)
      BY <3>1, RowUnchanged
    <3> QED
      BY <3>1, <3>2
  <2>4. CASE InsertHistory(a)
    <3>1. /\ \A b \in Admins \ {a} : pc'[b] = pc[b]
          /\ pc[a] = "insert" /\ ~Recorded(NewVersion(a))
          /\ req' = req /\ read' = read /\ published' = published
          /\ history' = history \cup {EntryOf(NewRow(a))}
      BY <2>4, <1>t DEF InsertHistory, TypeOK
    <3>2. \A b \in Admins : NewRow(b)' = NewRow(b)
      BY <3>1, RowUnchanged
    <3>3. PastUpdatePublished'
      BY <3>1, <3>2
    <3>4. EntryOf(NewRow(a)).version = NewVersion(a)
      BY <1>t, NewRowIsRow
    <3>5. \A e \in history : e.version # EntryOf(NewRow(a)).version
      BY <3>1, <3>4 DEF Recorded
    <3>6. HistoryIsTrue'
      BY <3>1, <3>5
    <3> QED
      BY <3>3, <3>6
  <2>5. CASE InsertConflict(a)
    BY <2>5, <1>t DEF InsertConflict, TypeOK, NewRow, NewVersion
  <2>6. CASE StatementFails(a)
    BY <2>6, <1>t DEF StatementFails, TypeOK, NewRow, NewVersion
  <2>7. CASE RespondOK(a)
    BY <2>7, <1>t DEF RespondOK, Finish, TypeOK, NewRow, NewVersion
  <2>8. CASE RespondError(a)
    BY <2>8, <1>t DEF RespondError, Finish, TypeOK, NewRow, NewVersion
  <2> QED
    BY <1>4, <2>1, <2>2, <2>3, <2>4, <2>5, <2>6, <2>7, <2>8 DEF Step
<1>5. CASE UNCHANGED vars
  BY <1>5 DEF vars, NewRow, NewVersion
<1> QED
  BY <1>1, <1>2, <1>3, <1>4, <1>5 DEF Next

\* The history never contains a configuration that was not active at some time
\* and never two entries for one version, however requests overlap and whatever
\* fails (the UNIQUE constraint, and UPDATE before INSERT, in UpdateConfig).
THEOREM HistoryTrue == Spec => []HistoryIsTrue
<1>1. Spec => []HistoryInv
  BY HistoryInit, HistoryStep, TypeInvariant, PTL DEF Spec
<1> QED
  BY <1>1, PTL DEF HistoryInv
\* A handler whose local variables and location a step leaves alone.
Untouched(b) == pc'[b] = pc[b] /\ req'[b] = req[b] /\ read'[b] = read[b]

LEMMA AckedStep ==
  TypeInv /\ AckedOnce /\ [Next]_vars => AckedOnce'
<1> SUFFICES ASSUME TypeInv, AckedOnce, [Next]_vars PROVE AckedOnce'
  OBVIOUS
<1>t. TypeOK
  BY DEF TypeInv
\* A step after which the handlers in "stored" were there before it, and that
\* neither records nor acknowledges anything.
<1>q. ASSUME UNCHANGED <<history, acked>>,
             \A b \in Admins : pc'[b] = "stored" => Untouched(b)
      PROVE  AckedOnce'
  <2>1. \A b \in Admins : pc'[b] = "stored" =>
          /\ pc[b] = "stored"
          /\ NewRow(b)' = NewRow(b) /\ NewVersion(b)' = NewVersion(b)
    BY <1>q, RowUnchanged DEF Untouched
  <2> QED
    BY <1>q, <2>1 DEF AckedOnce, Versions, EntryOf
<1>1. CASE Boot
  BY <1>1, <1>q DEF Boot, Untouched
<1>2. CASE Crash
  BY <1>2, <1>q DEF Crash
<1>3. ASSUME NEW a \in Admins, BeginUpdate(a) PROVE AckedOnce'
  <2>1. \A b \in Admins : pc'[b] = "stored" => Untouched(b)
    BY <1>3, <1>t DEF BeginUpdate, TypeOK, Untouched
  <2> QED
    BY <1>3, <2>1, <1>q DEF BeginUpdate
<1>4. ASSUME NEW a \in Admins, Step(a) PROVE AckedOnce'
  <2>1. CASE RejectUpdate(a)
    BY <2>1, <1>q DEF RejectUpdate, vars, Untouched
  <2>2. CASE SelectVersion(a)
    <3>1. \A b \in Admins : pc'[b] = "stored" => Untouched(b)
      BY <2>2, <1>t DEF SelectVersion, TypeOK, Untouched
    <3> QED
      BY <2>2, <3>1, <1>q DEF SelectVersion
  <2>3. CASE UpdateActive(a)
    <3>1. \A b \in Admins : pc'[b] = "stored" => Untouched(b)
      BY <2>3, <1>t DEF UpdateActive, TypeOK, Untouched
    <3> QED
      BY <2>3, <3>1, <1>q DEF UpdateActive
  <2>4. CASE InsertHistory(a)
    <3>1. /\ \A b \in Admins \ {a} : pc'[b] = pc[b]
          /\ ~Recorded(NewVersion(a))
          /\ req' = req /\ read' = read /\ acked' = acked
          /\ history' = history \cup {EntryOf(NewRow(a))}
      BY <2>4, <1>t DEF InsertHistory, TypeOK
    <3>2. \A b \in Admins : NewRow(b)' = NewRow(b) /\ NewVersion(b)' = NewVersion(b)
      BY <3>1, RowUnchanged
    <3>3. NewVersion(a) \notin Versions(acked)
      BY <3>1 DEF Recorded, Versions, AckedOnce
    <3>4. \A b \in Admins \ {a} : pc[b] = "stored" => NewVersion(b) # NewVersion(a)
      BY <3>1, <1>t, NewRowIsRow DEF Recorded, AckedOnce
    <3> QED
      BY <3>1, <3>2, <3>3, <3>4 DEF AckedOnce, Versions, EntryOf
  <2>5. CASE InsertConflict(a)
    <3>1. \A b \in Admins : pc'[b] = "stored" => Untouched(b)
      BY <2>5, <1>t DEF InsertConflict, TypeOK, Untouched
    <3> QED
      BY <2>5, <3>1, <1>q DEF InsertConflict
  <2>6. CASE StatementFails(a)
    <3>1. \A b \in Admins : pc'[b] = "stored" => Untouched(b)
      BY <2>6, <1>t DEF StatementFails, TypeOK, Untouched
    <3> QED
      BY <2>6, <3>1, <1>q DEF StatementFails
  <2>7. CASE RespondOK(a)
    <3>1. /\ \A b \in Admins \ {a} : Untouched(b)
          /\ pc'[a] # "stored" /\ pc[a] = "stored" /\ history' = history
          /\ acked' = acked \cup {EntryOf(NewRow(a))}
      BY <2>7, <1>t DEF RespondOK, Finish, TypeOK, Untouched
    <3>2. \A b \in Admins \ {a} : NewRow(b)' = NewRow(b) /\ NewVersion(b)' = NewVersion(b)
      BY <3>1, RowUnchanged DEF Untouched
    <3>3. EntryOf(NewRow(a)).version = NewVersion(a)
      BY <1>t, NewRowIsRow
    <3>4. acked' \subseteq history'
      BY <3>1 DEF AckedOnce
    <3>5. ASSUME NEW b \in Admins, pc'[b] = "stored"
          PROVE  /\ EntryOf(NewRow(b)') \in history'
                 /\ NewVersion(b)' \notin Versions(acked')
                 /\ \A c \in Admins \ {b} :
                      pc'[c] = "stored" => NewVersion(c)' # NewVersion(b)'
      <4>1. b # a /\ pc[b] = "stored"
        BY <3>1, <3>5 DEF Untouched
      <4>2. NewVersion(b) # NewVersion(a)
        BY <4>1, <3>1 DEF AckedOnce
      <4>3. NewVersion(b) \notin Versions(acked')
        BY <4>1, <4>2, <3>1, <3>3 DEF AckedOnce, Versions
      <4> QED
        BY <4>1, <4>3, <3>1, <3>2 DEF AckedOnce, Untouched
    <3> QED
      BY <3>4, <3>5 DEF AckedOnce, Versions, EntryOf
  <2>8. CASE RespondError(a)
    <3>1. \A b \in Admins : pc'[b] = "stored" => Untouched(b)
      BY <2>8, <1>t DEF RespondError, Finish, TypeOK, Untouched
    <3> QED
      BY <2>8, <3>1, <1>q DEF RespondError
  <2> QED
    BY <1>4, <2>1, <2>2, <2>3, <2>4, <2>5, <2>6, <2>7, <2>8 DEF Step
<1>5. CASE UNCHANGED vars
  BY <1>5, <1>q DEF vars, Untouched
<1> QED
  BY <1>1, <1>2, <1>3, <1>4, <1>5 DEF Next

\* An update answered with 200 is in the history for good and its version was
\* never given to another request, however requests overlap and whatever fails:
\* the one guarantee of UpdateConfig that does not need serial requests.
THEOREM AcknowledgedOnce == Spec => []AckedOnce
<1>1. Init => AckedOnce
  BY DEF Init, AckedOnce
<1> QED
  BY <1>1, AckedStep, TypeInvariant, PTL DEF Spec
LEMMA GapStep ==
  TypeInv /\ GapsAreInterruptions /\ [Next]_vars => GapsAreInterruptions'
<1> SUFFICES ASSUME TypeInv, GapsAreInterruptions, [Next]_vars
             PROVE  GapsAreInterruptions'
  OBVIOUS
<1>t. TypeOK
  BY DEF TypeInv
\* A step that publishes nothing and disturbs no handler before its INSERT.
<1>q. ASSUME UNCHANGED <<history, published, interrupted>>,
             \A b \in AtInsert : Untouched(b)
      PROVE  GapsAreInterruptions'
  <2>1. \A b \in AtInsert : NewVersion(b)' = NewVersion(b) /\ b \in AtInsert'
    BY <1>q, RowUnchanged DEF Untouched, AtInsert
  <2> QED
    BY <1>q, <2>1 DEF GapsAreInterruptions, Recorded, Versions, AtInsert
<1>1. CASE Boot
  <2>1. UNCHANGED <<history, pc, read, interrupted>>
    BY <1>1 DEF Boot
  <2>2. Versions(published') \ {1} \subseteq Versions(published) \ {1}
    BY <1>1 DEF Boot, Versions, FirstRow
  <2> QED
    BY <2>1, <2>2 DEF GapsAreInterruptions, Recorded, NewVersion, AtInsert
<1>2. CASE Crash
  <2>1. /\ UNCHANGED <<history, published>>
        /\ interrupted' = interrupted \cup {NewVersion(a) : a \in AtInsert}
    BY <1>2 DEF Crash
  <2> QED
    BY <2>1 DEF GapsAreInterruptions, Recorded, Versions
<1>3. ASSUME NEW a \in Admins, BeginUpdate(a) PROVE GapsAreInterruptions'
  <2>1. \A b \in AtInsert : Untouched(b)
    BY <1>3, <1>t DEF BeginUpdate, TypeOK, Untouched, AtInsert
  <2> QED
    BY <1>3, <2>1, <1>q DEF BeginUpdate
<1>4. ASSUME NEW a \in Admins, Step(a) PROVE GapsAreInterruptions'
  <2>1. CASE RejectUpdate(a)
    BY <2>1, <1>q DEF RejectUpdate, vars, Untouched, AtInsert
  <2>2. CASE SelectVersion(a)
    <3>1. \A b \in AtInsert : Untouched(b)
      BY <2>2, <1>t DEF SelectVersion, TypeOK, Untouched, AtInsert
    <3> QED
      BY <2>2, <3>1, <1>q DEF SelectVersion
  <2>3. CASE UpdateActive(a)
    <3>1. /\ UNCHANGED <<history, read, interrupted>>
          /\ published' = published \cup {NewRow(a)}
          /\ AtInsert' = AtInsert \cup {a}
      BY <2>3, <1>t DEF UpdateActive, TypeOK, AtInsert
    <3>2. Versions(published') = Versions(published) \cup {NewVersion(a)}
      BY <3>1, <1>t, NewRowIsRow DEF Versions
    <3> QED
      BY <3>1, <3>2 DEF GapsAreInterruptions, Recorded, NewVersion
  <2>4. CASE InsertHistory(a)
    <3>1. /\ UNCHANGED <<read, published, interrupted>>
          /\ AtInsert' = AtInsert \ {a}
          /\ history' = history \cup {EntryOf(NewRow(a))}
      BY <2>4, <1>t DEF InsertHistory, TypeOK, AtInsert
    <3>2. Recorded(NewVersion(a))' /\ \A v : Recorded(v) => Recorded(v)'
      BY <3>1, <1>t, NewRowIsRow DEF Recorded, NewVersion
    <3>3. \A b \in Admins : NewVersion(b)' = NewVersion(b)
      BY <3>1 DEF NewVersion
    <3> QED
      BY <3>1, <3>2, <3>3 DEF GapsAreInterruptions, Recorded, AtInsert
  <2>5. CASE InsertConflict(a)
    <3>1. /\ UNCHANGED <<read, published, history, interrupted>>
          /\ AtInsert' = AtInsert \ {a}
          /\ Recorded(NewVersion(a))
      BY <2>5, <1>t DEF InsertConflict, TypeOK, AtInsert
    <3> QED
      BY <3>1 DEF GapsAreInterruptions, Recorded, NewVersion
  <2>6. CASE StatementFails(a)
    <3>1. /\ UNCHANGED <<read, published, history>>
          /\ AtInsert' = AtInsert \ {a}
          /\ interrupted' = interrupted \cup {NewVersion(b) : b \in {a} \cap AtInsert}
      BY <2>6, <1>t DEF StatementFails, TypeOK, AtInsert
    <3> QED
      BY <3>1 DEF GapsAreInterruptions, Recorded, NewVersion
  <2>7. CASE RespondOK(a)
    <3>1. \A b \in AtInsert : Untouched(b)
      BY <2>7, <1>t DEF RespondOK, Finish, TypeOK, Untouched, AtInsert
    <3> QED
      BY <2>7, <3>1, <1>q DEF RespondOK
  <2>8. CASE RespondError(a)
    <3>1. \A b \in AtInsert : Untouched(b)
      BY <2>8, <1>t DEF RespondError, Finish, TypeOK, Untouched, AtInsert
    <3> QED
      BY <2>8, <3>1, <1>q DEF RespondError
  <2> QED
    BY <1>4, <2>1, <2>2, <2>3, <2>4, <2>5, <2>6, <2>7, <2>8 DEF Step
<1>5. CASE UNCHANGED vars
  BY <1>5, <1>q DEF vars, Untouched
<1> QED
  BY <1>1, <1>2, <1>3, <1>4, <1>5 DEF Next

\* A version is missing from the history only because its INSERT did not run
\* (crash, failed statement), however requests overlap: a handler whose INSERT
\* hits the UNIQUE constraint leaves behind a version somebody else recorded.
THEOREM NoVersionLost == Spec => []GapsAreInterruptions
<1>1. Init => GapsAreInterruptions
  BY DEF Init, GapsAreInterruptions, Versions
<1> QED
  BY <1>1, GapStep, TypeInvariant, PTL DEF Spec

-----------------------------------------------------------------------------
(* Serial requests: the versioned register.                                 *)

AtMostOneInFlight ==
  \A a, b \in Admins : pc[a] # "idle" /\ pc[b] # "idle" => a = b

\* What a handler read is current when it writes, and what it wrote is active
\* until it is answered.
HandlerIsCurrent ==
  \A a \in Admins :
    /\ pc[a] = "update" => read[a] = active.version
    /\ pc[a] \in {"insert", "stored"} => active = NewRow(a)

\* The active row is the newest published one, and the only one of its version.
ActiveIsNewest ==
  /\ active = NoRow => published = {} /\ acked = {}
  /\ \A r \in published : r.version < active.version \/ r = active

SerialInv ==
  /\ AtMostOneInFlight
  /\ HandlerIsCurrent
  /\ ActiveIsNewest
  /\ VersionIdentifiesRow
  /\ AckedIsActiveOrSuperseded

\* What one step may do to the active row: nothing, initialise it, or replace
\* it by a row of the next version.
Advance ==
  \/ active' = active
  \/ active = NoRow /\ active' = FirstRow
  \/ /\ active # NoRow
     /\ active' \in Row
     /\ active'.version = active.version + 1

LEMMA SerialIsNext == [SerialNext]_vars => [Next]_vars
BY DEF SerialNext, Next

LEMMA SerialTypeInvariant == SerialSpec => []TypeInv
<1>1. TypeInv /\ [SerialNext]_vars => TypeInv'
  BY SerialIsNext, TypeStep
<1> QED
  BY <1>1, TypeInit, PTL DEF SerialSpec

LEMMA SerialInit == Init => SerialInv
BY DEF Init, SerialInv, AtMostOneInFlight, HandlerIsCurrent, ActiveIsNewest,
       VersionIdentifiesRow, AckedIsActiveOrSuperseded

LEMMA SerialStep ==
  TypeInv /\ SerialInv /\ [SerialNext]_vars => SerialInv' /\ Advance
<1> SUFFICES ASSUME TypeInv, SerialInv, [SerialNext]_vars
             PROVE  SerialInv' /\ Advance
  OBVIOUS
<1>t. TypeOK /\ Ready
  BY DEF TypeInv
\* A step that changes no row and moves no handler into the middle of a call.
<1>q. ASSUME UNCHANGED <<active, published, acked>>,
             AtMostOneInFlight',
             \A b \in Admins : pc'[b] \in {"update", "insert", "stored"} =>
               \/ Untouched(b)
               \/ pc'[b] = "update" /\ read'[b] = active.version
               \/ pc'[b] = "stored" /\ active = NewRow(b)'
      PROVE  SerialInv' /\ Advance
  <2>1. HandlerIsCurrent'
    BY <1>q, RowUnchanged DEF SerialInv, HandlerIsCurrent, Untouched
  <2>2. (ActiveIsNewest /\ VersionIdentifiesRow /\ AckedIsActiveOrSuperseded)'
    BY <1>q DEF SerialInv, ActiveIsNewest, VersionIdentifiesRow,
                AckedIsActiveOrSuperseded, EntryOf
  <2> QED
    BY <1>q, <2>1, <2>2 DEF SerialInv, Advance
<1>1. CASE Boot
  <2>1. CASE active = NoRow
    <3>1. active' = FirstRow /\ published' = {FirstRow} /\ acked' = {}
      BY <1>1, <2>1 DEF Boot, NeedsFirstRow, SerialInv, ActiveIsNewest
    <3>2. \A a \in Admins : pc'[a] = "idle"
      BY <1>1, <1>t DEF Boot, Ready
    <3>3. AtMostOneInFlight' /\ HandlerIsCurrent'
      BY <3>2 DEF AtMostOneInFlight, HandlerIsCurrent
    <3>4. (ActiveIsNewest /\ VersionIdentifiesRow /\ AckedIsActiveOrSuperseded)'
      BY <3>1, FirstRowIsRow
         DEF ActiveIsNewest, VersionIdentifiesRow, AckedIsActiveOrSuperseded
    <3> QED
      BY <2>1, <3>1, <3>3, <3>4 DEF SerialInv, Advance
  <2>2. CASE active # NoRow
    BY <1>1, <2>2, <1>q
       DEF Boot, NeedsFirstRow, Untouched, SerialInv, AtMostOneInFlight
  <2> QED
    BY <2>1, <2>2
<1>2. CASE Crash
  BY <1>2, <1>q DEF Crash, AtMostOneInFlight
<1>3. ASSUME NEW a \in Admins, Quiet, BeginUpdate(a)
      PROVE  SerialInv' /\ Advance
  <2>1. pc' = [pc EXCEPT ![a] = "select"] /\ UNCHANGED <<active, published, acked>>
    BY <1>3 DEF BeginUpdate
  <2>2. AtMostOneInFlight'
    BY <1>3, <1>t, <2>1 DEF Quiet, TypeOK, AtMostOneInFlight
  <2> QED
    BY <1>3, <1>t, <2>1, <2>2, <1>q DEF Quiet, TypeOK
<1>4. ASSUME NEW a \in Admins, Step(a) PROVE SerialInv' /\ Advance
  <2>1. CASE RejectUpdate(a)
    BY <2>1, <1>q DEF RejectUpdate, vars, Untouched, SerialInv, AtMostOneInFlight
  <2>2. CASE SelectVersion(a)
    <3>1. /\ UNCHANGED <<active, published, acked>>
          /\ pc[a] # "idle" /\ pc'[a] = "update" /\ read'[a] = active.version
          /\ \A b \in Admins \ {a} : Untouched(b)
      BY <2>2, <1>t DEF SelectVersion, TypeOK, Untouched
    <3>2. AtMostOneInFlight'
      BY <3>1 DEF SerialInv, AtMostOneInFlight, Untouched
    <3> QED
      BY <3>1, <3>2, <1>q
  <2>3. CASE UpdateActive(a)
    <3>1. /\ active' = NewRow(a) /\ published' = published \cup {NewRow(a)}
          /\ acked' = acked /\ req' = req /\ read' = read
          /\ pc[a] = "update" /\ pc'[a] = "insert"
          /\ \A b \in Admins \ {a} : pc'[b] = pc[b]
      BY <2>3, <1>t DEF UpdateActive, TypeOK
    <3>2. active # NoRow /\ active \in Row
      BY <3>1, <1>t DEF Ready, TypeOK
    <3>3. /\ NewRow(a) \in Row
          /\ NewRow(a) # NoRow
          /\ NewRow(a).version = active.version + 1
      BY <3>1, <1>t, NewRowIsRow DEF NewVersion, SerialInv, HandlerIsCurrent
    <3>4. \A r \in published : r.version \in Nat /\ r.version <= active.version
      BY <3>2, <1>t DEF SerialInv, ActiveIsNewest, TypeOK, Row
    <3>5. \A e \in acked : e.version \in Nat /\ e.version <= active.version
      BY <3>2, <1>t DEF SerialInv, AckedIsActiveOrSuperseded, TypeOK, Row,
                        Entry, EntryOf
    <3>6. active.version \in Nat
      BY <3>2 DEF Row
    <3>7. \A b \in Admins \ {a} : pc'[b] = "idle"
      BY <3>1 DEF SerialInv, AtMostOneInFlight
    <3>8. AtMostOneInFlight' /\ HandlerIsCurrent'
      BY <3>1, <3>7, RowUnchanged DEF AtMostOneInFlight, HandlerIsCurrent
    <3>9. ActiveIsNewest' /\ AckedIsActiveOrSuperseded'
      BY <3>1, <3>3, <3>4, <3>5, <3>6
         DEF ActiveIsNewest, AckedIsActiveOrSuperseded
    <3>10. VersionIdentifiesRow'
      BY <3>1, <3>3, <3>4, <3>6 DEF SerialInv, VersionIdentifiesRow
    <3>11. Advance
      BY <3>1, <3>2, <3>3 DEF Advance
    <3> QED
      BY <3>8, <3>9, <3>10, <3>11 DEF SerialInv
  <2>4. CASE InsertHistory(a)
    <3>1. /\ UNCHANGED <<active, published, acked, req, read>>
          /\ pc[a] = "insert" /\ pc'[a] = "stored"
          /\ \A b \in Admins \ {a} : pc'[b] = pc[b]
      BY <2>4, <1>t DEF InsertHistory, TypeOK
    <3>2. active = NewRow(a)'
      BY <3>1, RowUnchanged DEF SerialInv, HandlerIsCurrent
    <3>3. AtMostOneInFlight'
      BY <3>1 DEF SerialInv, AtMostOneInFlight
    <3> QED
      BY <3>1, <3>2, <3>3, <1>q DEF Untouched
  <2>5. CASE InsertConflict(a)
    <3>1. /\ UNCHANGED <<active, published, acked, req, read>>
          /\ pc[a] # "idle" /\ pc'[a] = "failed"
          /\ \A b \in Admins \ {a} : Untouched(b)
      BY <2>5, <1>t DEF InsertConflict, TypeOK, Untouched
    <3> QED
      BY <3>1, <1>q DEF Untouched, SerialInv, AtMostOneInFlight
  <2>6. CASE StatementFails(a)
    <3>1. /\ UNCHANGED <<active, published, acked, req, read>>
          /\ pc[a] # "idle" /\ pc'[a] = "failed"
          /\ \A b \in Admins \ {a} : Untouched(b)
      BY <2>6, <1>t DEF StatementFails, TypeOK, Untouched
    <3> QED
      BY <3>1, <1>q DEF Untouched, SerialInv, AtMostOneInFlight
  <2>7. CASE RespondOK(a)
    <3>1. /\ UNCHANGED <<active, published>>
          /\ acked' = acked \cup {EntryOf(active)}
          /\ pc'[a] = "idle"
          /\ \A b \in Admins \ {a} : pc'[b] = pc[b]
      BY <2>7, <1>t DEF RespondOK, Finish, TypeOK, SerialInv, HandlerIsCurrent
    <3>2. \A b \in Admins : pc'[b] = "idle"
      BY <2>7, <3>1 DEF RespondOK, SerialInv, AtMostOneInFlight
    <3>3. active # NoRow
      BY <2>7, <1>t DEF RespondOK, Ready
    <3>4. AtMostOneInFlight' /\ HandlerIsCurrent'
      BY <3>2 DEF AtMostOneInFlight, HandlerIsCurrent
    <3>5. (ActiveIsNewest /\ VersionIdentifiesRow /\ AckedIsActiveOrSuperseded)'
      BY <3>1, <3>3 DEF SerialInv, ActiveIsNewest, VersionIdentifiesRow,
                        AckedIsActiveOrSuperseded, EntryOf
    <3> QED
      BY <3>1, <3>4, <3>5 DEF SerialInv, Advance
  <2>8. CASE RespondError(a)
    <3>1. /\ UNCHANGED <<active, published, acked>>
          /\ pc[a] = "failed" /\ pc'[a] = "idle"
          /\ \A b \in Admins \ {a} : Untouched(b)
      BY <2>8, <1>t DEF RespondError, Finish, TypeOK, Untouched
    <3> QED
      BY <3>1, <1>q DEF Untouched, SerialInv, AtMostOneInFlight
  <2> QED
    BY <1>4, <2>1, <2>2, <2>3, <2>4, <2>5, <2>6, <2>7, <2>8 DEF Step
<1>5. CASE UNCHANGED vars
  BY <1>5, <1>q DEF vars, Untouched, SerialInv, AtMostOneInFlight
<1> QED
  BY <1>1, <1>2, <1>3, <1>4, <1>5 DEF SerialNext

LEMMA SerialInvariant == SerialSpec => []SerialInv
<1>1. TypeInv /\ SerialInv /\ [SerialNext]_vars => SerialInv'
  BY SerialStep
<1> QED
  BY <1>1, SerialInit, SerialTypeInvariant, PTL DEF SerialSpec

\* Without overlapping requests a version stands for one configuration for
\* ever, through failing statements, crashes and restarts: comparing versions,
\* as the agents do, is comparing configurations.
THEOREM SerialVersionIdentifiesRow == SerialSpec => []VersionIdentifiesRow
BY SerialInvariant, PTL DEF SerialInv

\* Without overlapping requests an acknowledged configuration stays active
\* until one with a higher version replaces it.
THEOREM SerialAckedNotLost == SerialSpec => []AckedIsActiveOrSuperseded
BY SerialInvariant, PTL DEF SerialInv

\* Unless its INSERT is still to come or never ran, the active row is recorded.
ActiveIsRecorded ==
  (active # NoRow /\ active.version \notin {1} \cup interrupted /\ AtInsert = {})
    => EntryOf(active) \in history

LEMMA RecordedStep ==
  TypeInv /\ SerialInv /\ HistoryInv /\ ActiveIsRecorded /\ [SerialNext]_vars
    => ActiveIsRecorded'
<1> SUFFICES ASSUME TypeInv, SerialInv, HistoryInv, ActiveIsRecorded,
                    [SerialNext]_vars
             PROVE  ActiveIsRecorded'
  OBVIOUS
<1>t. TypeOK /\ Ready
  BY DEF TypeInv
\* A step that touches neither the tables nor the handlers before their INSERT.
<1>q. ASSUME UNCHANGED <<active, history, interrupted>>, AtInsert' = AtInsert
      PROVE  ActiveIsRecorded'
  BY <1>q DEF ActiveIsRecorded, EntryOf
\* A handler before its INSERT has just written the active row.
<1>i. ASSUME NEW a \in AtInsert
      PROVE  active = NewRow(a) /\ active.version = NewVersion(a)
  BY <1>i, <1>t, NewRowIsRow DEF AtInsert, SerialInv, HandlerIsCurrent
<1>1. CASE Boot
  BY <1>1, <1>q DEF Boot, AtInsert, ActiveIsRecorded, FirstRow
<1>2. CASE Crash
  <2>1. CASE AtInsert = {}
    BY <1>2, <2>1, <1>q DEF Crash, AtInsert
  <2>2. CASE \E a \in AtInsert : TRUE
    BY <1>2, <2>2, <1>i DEF Crash, ActiveIsRecorded
  <2> QED
    BY <2>1, <2>2
<1>3. ASSUME NEW a \in Admins, BeginUpdate(a) PROVE ActiveIsRecorded'
  <2>1. AtInsert' = AtInsert
    BY <1>3, <1>t DEF BeginUpdate, AtInsert, TypeOK
  <2> QED
    BY <1>3, <2>1, <1>q DEF BeginUpdate
<1>4. ASSUME NEW a \in Admins, Step(a) PROVE ActiveIsRecorded'
  <2>1. CASE RejectUpdate(a)
    BY <2>1, <1>q DEF RejectUpdate, vars, AtInsert
  <2>2. CASE SelectVersion(a)
    <3>1. AtInsert' = AtInsert
      BY <2>2, <1>t DEF SelectVersion, AtInsert, TypeOK
    <3> QED
      BY <2>2, <3>1, <1>q DEF SelectVersion
  <2>3. CASE UpdateActive(a)
    <3>1. a \in AtInsert'
      BY <2>3, <1>t DEF UpdateActive, AtInsert, TypeOK
    <3> QED
      BY <3>1 DEF ActiveIsRecorded
  <2>4. CASE InsertHistory(a)
    <3>1. a \in AtInsert /\ active' = active
          /\ history' = history \cup {EntryOf(NewRow(a))}
      BY <2>4 DEF InsertHistory, AtInsert
    <3> QED
      BY <3>1, <1>i DEF ActiveIsRecorded
  <2>5. CASE InsertConflict(a)
    <3>1. a \in AtInsert /\ UNCHANGED <<active, history>>
      BY <2>5 DEF InsertConflict, AtInsert
    <3>2. PICK e \in history : e.version = NewVersion(a)
      BY <2>5 DEF InsertConflict, Recorded
    <3>3. PICK r \in published : EntryOf(r) = e
      BY <3>2 DEF HistoryInv, HistoryIsTrue
    <3>4. r.version = active.version
      BY <3>1, <3>2, <3>3, <1>i DEF EntryOf
    <3>5. r.version \in Nat
      BY <1>t DEF TypeOK, Row
    <3>6. r = active
      BY <3>4, <3>5 DEF SerialInv, ActiveIsNewest
    <3> QED
      BY <3>1, <3>3, <3>6 DEF ActiveIsRecorded
  <2>6. CASE StatementFails(a)
    <3>1. /\ UNCHANGED <<active, history>>
          /\ AtInsert' = AtInsert \ {a}
          /\ interrupted' = interrupted \cup {NewVersion(b) : b \in {a} \cap AtInsert}
      BY <2>6, <1>t DEF StatementFails, AtInsert, TypeOK
    <3>2. CASE a \in AtInsert
      BY <3>1, <3>2, <1>i DEF ActiveIsRecorded
    <3>3. CASE a \notin AtInsert
      BY <3>1, <3>3, <1>q
    <3> QED
      BY <3>2, <3>3
  <2>7. CASE RespondOK(a)
    <3>1. AtInsert' = AtInsert
      BY <2>7, <1>t DEF RespondOK, Finish, AtInsert, TypeOK
    <3> QED
      BY <2>7, <3>1, <1>q DEF RespondOK
  <2>8. CASE RespondError(a)
    <3>1. AtInsert' = AtInsert
      BY <2>8, <1>t DEF RespondError, Finish, AtInsert, TypeOK
    <3> QED
      BY <2>8, <3>1, <1>q DEF RespondError
  <2> QED
    BY <1>4, <2>1, <2>2, <2>3, <2>4, <2>5, <2>6, <2>7, <2>8 DEF Step
<1>5. CASE UNCHANGED vars
  BY <1>5, <1>q DEF vars, AtInsert
<1> QED
  BY <1>1, <1>2, <1>3, <1>4, <1>5 DEF SerialNext

\* Without overlapping requests the history is complete up to the INSERTs that
\* did not run: between requests it contains the active configuration itself,
\* not just its version.
THEOREM SerialHistoryHasActive == SerialSpec => []HistoryHasActive
<1>1. Init => HistoryInv /\ ActiveIsRecorded
  BY HistoryInit DEF Init, ActiveIsRecorded
<1>2. TypeInv /\ HistoryInv /\ [SerialNext]_vars => HistoryInv'
  BY SerialIsNext, HistoryStep
<1>3. ActiveIsRecorded => HistoryHasActive
  BY DEF ActiveIsRecorded, HistoryHasActive, Quiet, AtInsert
<1> QED
  BY <1>1, <1>2, <1>3, RecordedStep, SerialInvariant, SerialTypeInvariant, PTL
     DEF SerialSpec

\* Two handlers never write one version without overlap; what is recorded is at
\* most as new as the active row, so the version after it is free.
LEMMA NoneRefusedStep ==
  TypeInv /\ SerialInv /\ HistoryInv /\ NoneRefused /\ [SerialNext]_vars => NoneRefused'
<1> SUFFICES ASSUME TypeInv, SerialInv, HistoryInv, NoneRefused, [SerialNext]_vars
             PROVE  NoneRefused'
  OBVIOUS
<1>t. TypeOK /\ Ready
  BY DEF TypeInv
\* A step that records nothing and takes no handler to its INSERT.
<1>q. ASSUME history' = history, AtInsert' \subseteq AtInsert,
             \A a \in AtInsert' : read'[a] = read[a]
      PROVE  NoneRefused'
  BY <1>q DEF NoneRefused, Recorded, NewVersion
<1>1. CASE Boot
  BY <1>1, <1>q DEF Boot, AtInsert
<1>2. CASE Crash
  BY <1>2 DEF Crash, NoneRefused, AtInsert
<1>3. ASSUME NEW a \in Admins, BeginUpdate(a) PROVE NoneRefused'
  <2>1. AtInsert' \subseteq AtInsert
    BY <1>3, <1>t DEF BeginUpdate, AtInsert, TypeOK
  <2> QED
    BY <1>3, <2>1, <1>q DEF BeginUpdate
<1>4. ASSUME NEW a \in Admins, Step(a) PROVE NoneRefused'
  <2>1. CASE RejectUpdate(a)
    BY <2>1, <1>q DEF RejectUpdate, vars, AtInsert
  <2>2. CASE SelectVersion(a)
    <3>1. AtInsert' \subseteq AtInsert /\ \A b \in AtInsert' : read'[b] = read[b]
      BY <2>2, <1>t DEF SelectVersion, AtInsert, TypeOK
    <3> QED
      BY <2>2, <3>1, <1>q DEF SelectVersion
  <2>3. CASE UpdateActive(a)
    <3>1. /\ AtInsert' = {a} /\ history' = history /\ read' = read
          /\ active # NoRow /\ read[a] = active.version
      BY <2>3, <1>t DEF UpdateActive, AtInsert, TypeOK, Ready, SerialInv, AtMostOneInFlight,
                        HandlerIsCurrent
    <3>2. active.version \in Nat
      BY <1>t, <3>1 DEF TypeOK, Row
    <3>3. ASSUME NEW e \in history PROVE e.version # active.version + 1
      <4>1. PICK r \in published : EntryOf(r) = e
        BY <3>3 DEF HistoryInv, HistoryIsTrue
      <4>2. r.version = e.version /\ r.version \in Nat
        BY <1>t, <4>1 DEF EntryOf, TypeOK, Row
      <4>3. r.version <= active.version
        BY <3>2, <4>2 DEF SerialInv, ActiveIsNewest
      <4> QED
        BY <3>2, <4>2, <4>3
    <3> QED
      BY <3>1, <3>3 DEF NoneRefused, Recorded, NewVersion
  <2>4. CASE InsertHistory(a)
    <3>1. AtInsert' = {}
      BY <2>4, <1>t DEF InsertHistory, AtInsert, TypeOK, SerialInv, AtMostOneInFlight
    <3> QED
      BY <3>1 DEF NoneRefused
  <2>5. CASE InsertConflict(a) \/ StatementFails(a)
    <3>1. AtInsert' \subseteq AtInsert
      BY <2>5, <1>t DEF InsertConflict, StatementFails, AtInsert, TypeOK
    <3> QED
      BY <2>5, <3>1, <1>q DEF InsertConflict, StatementFails
  <2>6. CASE RespondOK(a) \/ RespondError(a)
    <3>1. AtInsert' \subseteq AtInsert /\ \A b \in AtInsert' : read'[b] = read[b]
      BY <2>6, <1>t DEF RespondOK, RespondError, Finish, AtInsert, TypeOK
    <3> QED
      BY <2>6, <3>1, <1>q DEF RespondOK, RespondError
  <2> QED
    BY <1>4, <2>1, <2>2, <2>3, <2>4, <2>5, <2>6 DEF Step
<1>5. CASE UNCHANGED vars
  BY <1>5, <1>q DEF vars, AtInsert
<1> QED
  BY <1>1, <1>2, <1>3, <1>4, <1>5 DEF SerialNext

\* Without overlapping requests no INSERT is refused: an update that is answered 500
\* met a fault, however many faults and restarts came before.
THEOREM SerialNoneRefused == SerialSpec => []NoneRefused
<1>1. Init => HistoryInv /\ NoneRefused
  BY HistoryInit DEF Init, NoneRefused, AtInsert
<1>2. TypeInv /\ HistoryInv /\ [SerialNext]_vars => HistoryInv'
  BY SerialIsNext, HistoryStep
<1> QED
  BY <1>1, <1>2, NoneRefusedStep, SerialInvariant, SerialTypeInvariant, PTL DEF SerialSpec

LEMMA AdvanceIsUpwards ==
  TypeInv /\ Advance => (active # NoRow => active'.version >= active.version)
<1> SUFFICES ASSUME TypeInv, Advance, active # NoRow
             PROVE  active'.version >= active.version
  OBVIOUS
<1>1. active.version \in Nat
  BY DEF TypeInv, TypeOK, Row
<1> QED
  BY <1>1 DEF Advance

\* Without overlapping requests the version never goes backwards, across
\* restarts too: migrate() never overwrites a row that is there.
THEOREM SerialVersionNeverDecreases == SerialSpec => VersionNeverDecreases
<1>1. TypeInv /\ SerialInv /\ [SerialNext]_vars
        => [active # NoRow => active'.version >= active.version]_vars
  BY SerialStep, AdvanceIsUpwards
<1> QED
  BY <1>1, SerialInvariant, SerialTypeInvariant, PTL
     DEF SerialSpec, VersionNeverDecreases

\* Without overlapping requests the store implements the versioned register:
\* the three statements of UpdateConfig look like one step that installs the
\* next version, also when the third never happens.
THEOREM SerialRefinement == SerialSpec => ImplementsRegister
<1>1. Init => Register!RegisterInit
  BY DEF Init, Register!RegisterInit, Current
<1>2. TypeInv /\ Advance => [Register!RegisterNext]_Current
  <2> SUFFICES ASSUME TypeInv, Advance PROVE [Register!RegisterNext]_Current
    OBVIOUS
  <2>1. CASE active' = active
    BY <2>1 DEF Current
  <2>2. CASE active = NoRow /\ active' = FirstRow
    BY <2>2 DEF Current
  <2>3. CASE /\ active # NoRow
             /\ active' \in Row
             /\ active'.version = active.version + 1
    <3>1. Current = active /\ Current' = active'
      BY <2>3, NoRowIsNoRow DEF Current
    <3>2. active' = [version  |-> active.version + 1,
                     data     |-> active'.data,
                     interval |-> active'.interval]
      BY <2>3 DEF Row
    <3>3. active'.data \in Data /\ active'.interval \in Intervals
      BY <2>3 DEF Row
    <3> QED
      BY <3>1, <3>2, <3>3 DEF Register!RegisterNext, Register!Set
  <2> QED
    BY <2>1, <2>2, <2>3 DEF Advance
<1>3. TypeInv /\ SerialInv /\ [SerialNext]_vars => [Register!RegisterNext]_Current
  BY <1>2, SerialStep
<1> QED
  BY <1>1, <1>3, SerialInvariant, SerialTypeInvariant, PTL
     DEF SerialSpec, ImplementsRegister, Register!RegisterSpec
=============================================================================
