---------------------- MODULE MCRecommendationSessions ----------------------
(***************************************************************************)
(* RecommendationSessions for TLC.  Two plans in one bucket let two         *)
(* endings meet in the statistics row and two sessions wait for each other. *)
(***************************************************************************)
EXTENDS RecommendationSessions

CONSTANT u1

TwoPlans == 1..2
OneUser == {u1}
AnyStart == {"READY", "WAITING_CONFIRMATION", "ACTIVE"}
ActiveOrEnding == {"ACTIVE", "TARGET_REACHED"}
==============================================================================
