--------------------------- MODULE MCDecisionTurn ---------------------------
(* Readings that lack at most one thing, series fresh and stale for each frame, and one plan  *)
(* for each way a reply can be right or wrong.                                                *)
EXTENDS DecisionTurn
Good == [missing |-> {}, source |-> "M15", chosen |-> "M15", age |-> 10, measured |-> TRUE, news |-> "fresh",
         bias |-> "BULLISH", exhausted |-> FALSE, reviewable |-> TRUE]
MCMarkets ==
  {[Good EXCEPT !.missing = lacks] :
     lacks \in {{"engines"}, {"frame"}, {"cost"}, {"session"}, {"prompt"}, {"provider"},
                {"session", "provider"}}}
  \cup {[Good EXCEPT !.chosen = c, !.age = a] : c \in {"M1", "M5"}, a \in {10, 50}}
  \cup {[Good EXCEPT !.measured = FALSE, !.news = "old", !.bias = "NEUTRAL"], [Good EXCEPT !.exhausted = TRUE],
        [Good EXCEPT !.reviewable = FALSE]}
EmptySeries == {[Good EXCEPT !.missing = {"candles"}]}
Long == [direction |-> "BUY", stop |-> "below", targets |-> "above", type |-> "IMMEDIATE",
         condition |-> FALSE, confidence |-> "high", grounded |-> TRUE, viable |-> TRUE]
MCShapes ==
  {Long,
   [Long EXCEPT !.direction = "SELL", !.stop = "above", !.targets = "below"],
   [Long EXCEPT !.stop = "above", !.targets = "below"],
   [Long EXCEPT !.targets = "both"],
   [Long EXCEPT !.type = "CONDITIONAL"],
   [Long EXCEPT !.type = "CONDITIONAL", !.condition = TRUE, !.confidence = "low"],
   [Long EXCEPT !.grounded = FALSE],
   [Long EXCEPT !.viable = FALSE]}
MCRequests == {<<"candles">>, <<"geometry">>, <<"candles", "geometry">>}
Error(late, status, says) == [late |-> late, status |-> status, says |-> says]
MCErrors ==
  {Error(TRUE, 0, {}), Error(FALSE, 401, {"authentication"}), Error(FALSE, 429, {}),
   Error(FALSE, 429, {"quota", "billing"}), Error(FALSE, 402, {"credit", "insufficient"}),
   Error(FALSE, 400, {"context length"}), Error(FALSE, 503, {"overloaded"}),
   Error(FALSE, 0, {"timed out"}), Error(FALSE, 0, {"connection refused"}),
   Error(FALSE, 0, {"not configured"})}
=============================================================================
