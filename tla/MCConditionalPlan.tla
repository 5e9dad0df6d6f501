------------------------- MODULE MCConditionalPlan -------------------------
(***************************************************************************)
(* ConditionalPlan on seven candles and eight rules around one level.       *)
(***************************************************************************)
EXTENDS ConditionalPlan

Candle(l, c, h) == [low |-> l, close |-> c, high |-> h]

\* Under the level, a wick through it, a close on it, a close beyond it, a close well
\* beyond it, one that breaks the stop and one that reaches the target.
MCBar == {Candle(2, 2, 3), Candle(2, 3, 5), Candle(4, 4, 5), Candle(3, 5, 5),
          Candle(5, 6, 7), Candle(1, 2, 3), Candle(3, 6, 8)}

\* A fall and a bounce before the plan was written.
MCHistory == <<Candle(5, 6, 7), Candle(5, 6, 7), Candle(2, 2, 3), Candle(3, 4, 5)>>

Touch(d)  == [kind |-> "price_touch", level |-> 4, tolerance |-> 0, direction |-> d]
Close(n)  == [kind |-> "candle_close_above", level |-> 4, tolerance |-> 0, closes |-> n]
Break     == [kind |-> "breakout_confirmed", level |-> 3, tolerance |-> 1, closes |-> 1,
              direction |-> "above"]
Retest    == [kind |-> "retest_confirmed", level |-> 4, tolerance |-> 0, closes |-> 1,
              direction |-> "above", zone |-> [low |-> 3, high |-> 4]]
Rejection == [kind |-> "rejection_confirmed", level |-> 4, tolerance |-> 0,
              direction |-> "above"]

MCRule ==
  {Touch("below"), Close(2), Break, Retest, Rejection,
   [kind |-> "candle_close_below", level |-> 3, tolerance |-> 0, closes |-> 1],
   [kind |-> "composite", operator |-> "all", rules |-> {Touch("none"), Close(2)}],
   [kind |-> "composite", operator |-> "any", rules |-> {Close(2), Rejection}]}
=============================================================================
