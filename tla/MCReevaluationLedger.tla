------------------------ MODULE MCReevaluationLedger ------------------------
(***************************************************************************)
(* ReevaluationLedger for TLC.  One untimed reason, one with the cooldown   *)
(* window in its key and one exempt reason give every shape of claim.       *)
(***************************************************************************)
EXTENDS ReevaluationLedger, TLC

CONSTANTS w1, w2

OneWorker == {w1}
TwoWorkers == {w1, w2}
WorkerSymmetry == Permutations(TwoWorkers)
AllKinds == <<"structure_break", "higher_timeframe_reversal", "user_request">>
Automatics == <<"structure_break", "higher_timeframe_reversal">>
WindowKeyed == {"higher_timeframe_reversal"}
Asked == {"user_request"}
Nobody == {}
OneLevel == {"tight"}
NoLifetime == {}
==============================================================================
