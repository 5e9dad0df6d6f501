----------------------------- MODULE Activation -----------------------------
(***************************************************************************)
(* When a conditional plan becomes live: services/recommendations/          *)
(* activation.py as operators over a sequence of candles, oldest first.  An *)
(* outcome is the index of the candle that satisfied the rule, or 0 while   *)
(* it is pending.                                                           *)
(***************************************************************************)
EXTENDS Integers, Sequences, FiniteSets

Earliest(S) == IF S = {} THEN 0 ELSE CHOOSE i \in S : \A j \in S : i <= j
Latest(S)   == IF S = {} THEN 0 ELSE CHOOSE i \in S : \A j \in S : j <= i

Leaves(rule) == IF rule.kind = "composite" THEN rule.rules ELSE {rule}

\* A candle reaches the level; with no direction it must straddle it.
Touched(bar, rule) ==
  /\ rule.direction # "below" => bar.low  <= rule.level + rule.tolerance
  /\ rule.direction # "above" => bar.high >= rule.level - rule.tolerance

ClosesBeyond(bar, rule, side) ==
  IF side = "above" THEN bar.close > rule.level + rule.tolerance
                    ELSE bar.close < rule.level - rule.tolerance

\* The candle completing `closes` closes in a row beyond the level.
ConsecutiveCloses(bars, rule, side, start) ==
  Earliest({i \in (start + rule.closes - 1)..Len(bars) :
              \A j \in (i - rule.closes + 1)..i : ClosesBeyond(bars[j], rule, side)})

\* Broke, came back into the zone, and closed beyond the level again, in that order.
RetestConfirmed(bars, rule) ==
  LET broke    == ConsecutiveCloses(bars, rule, rule.direction, 1)
      returned == IF broke = 0 THEN 0
                  ELSE Earliest({i \in (broke + 1)..Len(bars) :
                                   /\ bars[i].low  <= rule.zone.high
                                   /\ bars[i].high >= rule.zone.low})
  IN  IF returned = 0 THEN 0 ELSE ConsecutiveCloses(bars, rule, rule.direction, returned + 1)

\* A wick beyond the level and a close back on the origin side.
Rejects(bar, rule) ==
  /\ ClosesBeyond(bar, rule, rule.direction)
  /\ IF rule.direction = "above" THEN bar.low  <= rule.level - rule.tolerance
                                 ELSE bar.high >= rule.level + rule.tolerance

CloseSide(rule) == IF rule.kind = "candle_close_above" THEN "above" ELSE "below"

EvaluateLeaf(rule, bars) ==
  CASE rule.kind = "price_touch" ->
         Earliest({i \in 1..Len(bars) : Touched(bars[i], rule)})
    [] rule.kind \in {"candle_close_above", "candle_close_below"} ->
         ConsecutiveCloses(bars, rule, CloseSide(rule), 1)
    [] rule.kind = "breakout_confirmed" -> ConsecutiveCloses(bars, rule, rule.direction, 1)
    [] rule.kind = "retest_confirmed"   -> RetestConfirmed(bars, rule)
    [] rule.kind = "rejection_confirmed" ->
         Earliest({i \in 1..Len(bars) : Rejects(bars[i], rule)})

\* evaluate_activation: "all" is met when its last leaf is, "any" when its first is.
EvaluateActivation(rule, bars) ==
  LET outcomes == {EvaluateLeaf(leaf, bars) : leaf \in Leaves(rule)}
  IN  IF rule.kind = "composite" /\ rule.operator = "all"
        THEN IF 0 \in outcomes THEN 0 ELSE Latest(outcomes)
        ELSE Earliest(outcomes \ {0})
=============================================================================
