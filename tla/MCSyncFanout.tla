---------------------------- MODULE MCSyncFanout ----------------------------
(* Instances of SyncFanout for TLC. *)
EXTENDS SyncFanout, TLC

Independent == [r \in Resources |-> {}]
Chained == [r \in Resources |-> 1..(r - 1)]

\* The handlers of a job are interchangeable (runs without liveness only).
Symmetry == Permutations(Slots)
=============================================================================
