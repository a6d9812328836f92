---------------------------- MODULE MCPollAgent ----------------------------
(***************************************************************************)
(* PollAgent for TLC.                                                      *)
(***************************************************************************)
EXTENDS PollAgent

MCFirstRow == [version |-> 1, data |-> "d0", interval |-> 30]
=============================================================================
