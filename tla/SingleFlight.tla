---------------------------- MODULE SingleFlight ----------------------------
(***************************************************************************)
(* What the scheduled single-flight guard promises of one integration: the *)
(* runs that are scheduled or full fly one at a time, a run flies at most  *)
(* once, and the outcome it lands with is final.                           *)
(***************************************************************************)
CONSTANT Flights

VARIABLE outcome   \* per run: none, flying, succeeded or failed

Flying(f) == outcome[f] = "flying"

Init == outcome = [f \in Flights |-> "none"]

TakeOff(f) ==
  /\ outcome[f] = "none"
  /\ \A g \in Flights : ~Flying(g)
  /\ outcome' = [outcome EXCEPT ![f] = "flying"]

Land(f) ==
  /\ Flying(f)
  /\ \E verdict \in {"succeeded", "failed"} : outcome' = [outcome EXCEPT ![f] = verdict]

Next == \E f \in Flights : TakeOff(f) \/ Land(f)

Spec == Init /\ [][Next]_outcome
=============================================================================
