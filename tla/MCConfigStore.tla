--------------------------- MODULE MCConfigStore ---------------------------
(***************************************************************************)
(* ConfigStore for TLC.  Admins are interchangeable; Symmetry is used only *)
(* by the configurations that check invariants.                            *)
(***************************************************************************)
EXTENDS ConfigStore, TLC

Symmetry == Permutations(Admins)
=============================================================================
