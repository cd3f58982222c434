-------------------------- MODULE MCRefreshRotation --------------------------
(* Instances of RefreshRotation for TLC. *)
EXTENDS RefreshRotation, TLC

Symmetry == Permutations(Requests)
=============================================================================
