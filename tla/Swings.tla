------------------------------- MODULE Swings -------------------------------
(***************************************************************************)
(* How the engines read swings off the candles: confirmed pivots and the    *)
(* zigzag of engines/primitives/pivots.py, and the strict swings of         *)
(* engines/primitives/structure.py.  Ratios to the average true range are   *)
(* kept as integers: Span is the sum of the last TrueRanges ranges.         *)
(***************************************************************************)
EXTENDS Integers, Sequences, FiniteSets, SequencesExt, FiniteSetsExt

CONSTANTS
  Lookback,     \* DEFAULT_PIVOT_LOOKBACK, clamped to 1..5 by the code
  AtrPeriod,    \* the number of true ranges geometry_atr averages
  SwingLookback \* SWING_LOOKBACK of the structure engine

ASSUME SwingsAssumption ==
  Lookback \in 1..5 /\ AtrPeriod \in Nat \ {0} /\ SwingLookback \in Nat \ {0}

Magnitude(n) == IF n < 0 THEN -n ELSE n

TrueRange(bars, i) ==
  Max({bars[i].high - bars[i].low, Magnitude(bars[i].high - bars[i - 1].close),
       Magnitude(bars[i].low - bars[i - 1].close)})

\* geometry_atr is Span / Ranges, and 0 below two candles.
Ranges(bars) == IF Len(bars) < 2 THEN {} ELSE Max({2, Len(bars) - AtrPeriod + 1})..Len(bars)
Span(bars)   == MapThenSumSet(LAMBDA i : TrueRange(bars, i), Ranges(bars))

\* A swing's price: the extreme of its side.
Extreme(bar, side) == IF side = "high" THEN bar.high ELSE -bar.low

\* Slip for a mutant run: a plateau on the left is tolerated as one on the right is.
IsPivotOnPlateau(bars, i, side, lb) ==
  /\ i \in (lb + 1)..(Len(bars) - lb)
  /\ \A j \in 1..lb : /\ Extreme(bars[i - j], side) <= Extreme(bars[i], side)
                      /\ Extreme(bars[i + j], side) <= Extreme(bars[i], side)

\* confirmed_pivots: an equal extreme on the left disqualifies, one on the right does not.
IsPivot(bars, i, side, lb) ==
  /\ i \in (lb + 1)..(Len(bars) - lb)
  /\ \A j \in 1..lb : /\ Extreme(bars[i - j], side) <  Extreme(bars[i], side)
                      /\ Extreme(bars[i + j], side) <= Extreme(bars[i], side)

\* _is_swing_high and _is_swing_low: strict on both sides, over the bars there are.
IsSwing(bars, i, side) ==
  \A j \in 1..Len(bars) : j # i /\ Magnitude(j - i) <= SwingLookback =>
    Extreme(bars[j], side) < Extreme(bars[i], side)

PivotOf(bars, i, side) == [index |-> i, kind |-> side, depth |-> Extreme(bars[i], side)]

\* all_confirmed_pivots: both sides in index order, the high first on a shared candle.
PivotsAt(bars, i, lb) ==
  LET At(side) == IF IsPivot(bars, i, side, lb) THEN <<PivotOf(bars, i, side)>> ELSE <<>>
  IN  At("high") \o At("low")

AllConfirmed(bars, lb) ==
  FlattenSeq([i \in 1..Len(bars) |-> PivotsAt(bars, i, lb)])

PriceOf(p) == IF p.kind = "high" THEN p.depth ELSE -p.depth

\* A leg of at least half an average true range, and never of nothing.
LegClears(bars, p, q) ==
  LET move == Magnitude(PriceOf(q) - PriceOf(p))
  IN  move > 0 /\ 2 * Cardinality(Ranges(bars)) * move >= Span(bars)

\* One pivot into the zigzag: the more extreme of a run of one side, else a leg.
Absorb(bars, zigzag, p) ==
  IF zigzag = <<>> THEN <<p>>
  ELSE LET last == zigzag[Len(zigzag)]
       IN  IF p.kind = last.kind
             THEN IF p.depth > last.depth THEN Front(zigzag) \o <<p>> ELSE zigzag
             ELSE IF LegClears(bars, last, p) THEN Append(zigzag, p) ELSE zigzag

Zigzag(bars) ==
  LET raw == AllConfirmed(bars, Lookback)
      zigzag[k \in 0..Len(raw)] == IF k = 0 THEN <<>> ELSE Absorb(bars, zigzag[k - 1], raw[k])
  IN  zigzag[Len(raw)]
-----------------------------------------------------------------------------
\* What the zigzag promises of a leg.  Its end moves on as the run of its side gets more
\* extreme, and nothing measures the leg again: it cleared the threshold where the run
\* began and ends at the most extreme pivot since, so that it clears it as a whole unless
\* the run began on the wrong side of p, a high under the low before it.
IsLeg(bars, p, q) ==
  \E i \in p.index..q.index :
    /\ IsPivot(bars, i, q.kind, Lookback) /\ LegClears(bars, p, PivotOf(bars, i, q.kind))
    /\ LegClears(bars, p, q) \/ Extreme(bars[i], q.kind) + p.depth < 0
    /\ \A j \in i..q.index :
         IsPivot(bars, j, q.kind, Lookback) => Extreme(bars[j], q.kind) <= q.depth

(* What the pattern templates are written against, on any candles: of the swings   *)
(* of one side the first candle of a plateau alone is a pivot; the zigzag is made   *)
(* of pivots, strictly alternates sides whatever run of pivots it collapsed, and    *)
(* each of its legs was worth one (see IsLeg); and every swing the structure engine *)
(* sees is a pivot of the same width.                                               *)
ReadAlike(bars) ==
  LET zigzag == Zigzag(bars)
  IN  /\ \A side \in {"high", "low"} : \A i, j \in 1..Len(bars) :
            i < j /\ j - i <= Lookback /\ IsPivot(bars, i, side, Lookback) =>
              ~IsPivot(bars, j, side, Lookback)
      /\ \A k \in 1..Len(zigzag) : \E i \in 1..Len(bars), side \in {"high", "low"} :
            IsPivot(bars, i, side, Lookback) /\ zigzag[k] = PivotOf(bars, i, side)
      /\ \A k \in 1..(Len(zigzag) - 1) :
            /\ zigzag[k].kind # zigzag[k + 1].kind
            /\ IsLeg(bars, zigzag[k], zigzag[k + 1])
      /\ \A side \in {"high", "low"} :
            \A i \in (SwingLookback + 1)..(Len(bars) - SwingLookback) :
              IsSwing(bars, i, side) => IsPivot(bars, i, side, SwingLookback)
=============================================================================
