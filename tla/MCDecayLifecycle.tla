-------------------------- MODULE MCDecayLifecycle --------------------------
(***************************************************************************)
(* DecayLifecycle for TLC: two buckets that share a workspace, windows of  *)
(* two outcomes.  Win rates are 0, 1/2 and 1, so the lines are drawn where *)
(* half a baseline is monitored and all of it is decayed.  TLC evaluates   *)
(* the facts about the migrations with it: the two components share their  *)
(* proofs, and a run of Deployments with a slip in a migration is to show  *)
(* the property it breaks, not the fact.                                   *)
(***************************************************************************)
EXTENDS DecayLifecycle, SchemaFacts

CONSTANTS orb, sweep

Buckets == {orb, sweep}
\* The live callers pass no R multiple; the job's payload and transition_thesis_status may.
ClosedPlans == {[won |-> TRUE, r |-> 1], [won |-> FALSE, r |-> None], [won |-> FALSE, r |-> -1]}
==============================================================================
