------------------------- MODULE VersionedRegister -------------------------
(***************************************************************************)
(* What the controller promises its agents, without any of its mechanism:  *)
(* there is one active configuration, it carries a version, and every      *)
(* change of it, whatever the change, moves the version forward by one.    *)
(* An agent that compares versions relies on exactly this.  ConfigStore    *)
(* implements it as long as update requests do not overlap, and PollAgent  *)
(* is checked against it.                                                  *)
(***************************************************************************)
EXTENDS Integers

CONSTANTS Data,        \* the configurations (the url of a WorkerConfig)
          Intervals,   \* the poll intervals an active row can carry, seconds
          FirstRow     \* the row migrate() puts into an empty database

Row == [version : Nat \ {0}, data : Data, interval : Intervals]

ASSUME FirstRowAssumption == FirstRow \in Row /\ FirstRow.version = 1

VARIABLE row           \* the single row of table active_config

RegisterInit == row = FirstRow

\* A complete, successful UpdateConfig: the successor version, the new data.
Set(d, i) == row' = [version |-> row.version + 1, data |-> d, interval |-> i]

RegisterNext == \E d \in Data, i \in Intervals : Set(d, i)

RegisterSpec == RegisterInit /\ [][RegisterNext]_row
=============================================================================
