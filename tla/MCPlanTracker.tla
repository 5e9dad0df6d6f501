---------------------------- MODULE MCPlanTracker ----------------------------
(***************************************************************************)
(* PlanTracker for TLC.  Three prices are enough: a bar may touch the stop,*)
(* the target, both or neither, and a rewrite can move a level across      *)
(* prices already traded.                                                  *)
(***************************************************************************)
EXTENDS PlanTracker

Prices == 1..3
SecondMinute == {2}
EitherMinute == 1..2
==============================================================================
