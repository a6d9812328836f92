---------------------------- MODULE MCBroadcast ----------------------------
(***************************************************************************)
(* Instances of Broadcast for TLC.  The callers are interchangeable in the *)
(* safety run.                                                             *)
(***************************************************************************)
EXTENDS Broadcast, TLC

CallersAlike == Permutations(Admins)
=============================================================================
