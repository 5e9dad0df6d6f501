---------------------------- MODULE MarketCases ----------------------------
(***************************************************************************)
(* The market's own memory (services/memory/cases): a nightly sweep         *)
(* fingerprints the moments of a chart and resolves what came after each,   *)
(* and a reader asks which moments resemble the present one.  Quotients are *)
(* kept as integers: a price over the average true range is compared after  *)
(* multiplication, and a rounded feature is counted in its last digit (a    *)
(* tie goes up, where the code's double may lie just under it).             *)
(***************************************************************************)
EXTENDS Activation, Swings

CONSTANTS
  MinCandles,      \* MIN_CANDLES: no fingerprint over fewer
  RangeWindow,     \* RANGE_WINDOW: the candles the structure is read from
  RangeAtrs,       \* RANGE_ATR_TREND_THRESHOLD
  CasePeriod,      \* ATR_PERIOD of the fingerprint
  RecentPeriod,    \* RECENT_ATR_PERIOD
  ImpulseLookback, \* IMPULSE_LOOKBACK
  Horizon,         \* DEFAULT_HORIZON: the candles an outcome may take
  SweptBars,       \* CASE_INDEX_MAX_BARS: the newest candles a sweep loads
  CandidateLimit, ResultLimit,
  FirstHour        \* the UTC hour of the chart's first candle; the frame is H1

ASSUME CasesAssumption ==
  /\ {CasePeriod, RecentPeriod, Horizon, CandidateLimit, ResultLimit} \subseteq Nat \ {0}
  /\ {MinCandles, RangeWindow, ImpulseLookback, SweptBars, RangeAtrs} \subseteq Nat
  /\ MinCandles > Max({CasePeriod, RecentPeriod}) /\ RangeWindow >= MinCandles
  /\ FirstHour \in 0..23

Newest(bars, n) == SubSeq(bars, Max({1, Len(bars) - n + 1}), Len(bars))

\* js_to_fixed of n / d, in units of the last digit.
Fixed(n, d, unit) == (2 * n * unit + d) \div (2 * d)

\* A sum of true ranges over a count; 0 over 1 below two candles.
AverageOf(tail) ==
  LET sum[i \in 1..Len(tail)] == IF i = 1 THEN 0 ELSE sum[i - 1] + TrueRange(tail, i)
  IN  [sum   |-> IF tail = <<>> THEN 0 ELSE sum[Len(tail)],
       count |-> Max({1, Len(tail) - 1})]

\* _atr_of
AtrOf(bars, period) == AverageOf(Newest(bars, period + 1))

SessionOf(at) ==
  LET hour == (FirstHour + at - 1) % 24
  IN  IF hour \in 7..11 THEN "london" ELSE IF hour \in 12..20 THEN "newyork" ELSE "asia"

\* Where a price stands in a range of the given span, both above the low.
ZoneOf(height, span) ==
  CASE 100 * height >= 95 * span -> "near_high"
    [] 100 * height >= 62 * span -> "premium"
    [] 100 * height <=  5 * span -> "near_low"
    [] 100 * height <= 38 * span -> "discount"
    [] OTHER                     -> "mid"

TrendOf(window, atr) ==
  LET net == window[Len(window)].close - window[1].close
  IN  IF  2 * net * atr.count > 3 * atr.sum THEN "up"
      ELSE IF -2 * net * atr.count > 3 * atr.sum THEN "down" ELSE "flat"

\* The newest candles against the structural window before them.
IsVolatile(bars, window) ==
  LET recent   == AtrOf(bars, RecentPeriod)
      baseline == AtrOf(SubSeq(window, 1, Len(window) - RecentPeriod), CasePeriod)
  IN  baseline.sum > 0 /\ 2 * recent.sum * baseline.count > 3 * baseline.sum * recent.count

\* Trading candles extend the structure back to the newest one that does not.
StructureRun(window, side) ==
  Len(window) - Latest({1} \cup {i \in 2..Len(window) :
                                   Extreme(window[i], side) <= Extreme(window[i - 1], side)})

Fingerprintable(bars) ==
  Len(bars) >= MinCandles /\ AtrOf(bars, CasePeriod).sum > 0 /\ bars[Len(bars)].close > 0

\* What the structural window shows of the moment it ends at, the chart's candle `at`.
FingerprintOf(window, atr, volatile, at) ==
  LET last    == window[Len(window)]
      high    == Max({window[i].high : i \in 1..Len(window)})
      low     == Min({window[i].low  : i \in 1..Len(window)})
      trend   == TrendOf(window, atr)
      side    == IF trend = "down" THEN "low" ELSE "high"
      end     == IF trend = "down" THEN low ELSE high
      peak    == Earliest({i \in 1..Len(window) :
                             IF side = "low" THEN window[i].low = low ELSE window[i].high = high})
      impulse == Magnitude(end - window[Max({1, peak - ImpulseLookback})].close)
  IN  [regime     |-> IF volatile THEN "volatile"
                      ELSE IF (high - low) * atr.count > RangeAtrs * atr.sum /\ trend # "flat"
                             THEN "trend" ELSE "range",
       trend      |-> trend,
       zone       |-> ZoneOf(last.close - low, high - low),
       pullback   |-> IF impulse = 0 THEN 0
                      ELSE Min({1000, Fixed(Magnitude(last.close - end), impulse, 1000)}),
       impulse    |-> Fixed(impulse * atr.count, atr.sum, 100),
       volatility |-> Fixed(atr.sum, atr.count * last.close, 100000),
       session    |-> SessionOf(at),
       run        |-> StructureRun(window, side)]

\* fingerprint_at
FingerprintAt(bars, at) ==
  LET window == Newest(bars, RangeWindow)
  IN  FingerprintOf(window, AtrOf(bars, CasePeriod), IsVolatile(bars, window), at)

\* resolve_forward_outcome: stop at one average true range, target at two, and the
\* stop first on a candle that reaches both.
Resolve(direction, entry, atr, future) ==
  LET walked        == Min({Horizon, Len(future)})
      Favourable(i) == IF direction = "buy" THEN future[i].high - entry ELSE entry - future[i].low
      Adverse(i)    == IF direction = "buy" THEN entry - future[i].low ELSE future[i].high - entry
      Stopped(i)    == Adverse(i) * atr.count >= atr.sum
      Reached(i)    == Favourable(i) * atr.count >= 2 * atr.sum
      decided       == Earliest({i \in 1..walked : Stopped(i) \/ Reached(i)})
      bars          == IF decided = 0 THEN walked ELSE decided
      Ran(Side(_))  == Fixed(Max({0} \cup {Side(i) : i \in 1..bars}) * atr.count, atr.sum, 1000)
  IN  [resolution |-> IF decided = 0 THEN "unresolved"
                      ELSE IF Stopped(decided) THEN "stop_first" ELSE "target_first",
       bars |-> bars, favourable |-> Ran(Favourable), adverse |-> Ran(Adverse)]

CaseAt(past, at, future) ==
  LET atr == AtrOf(past, CasePeriod)  entry == past[Len(past)].close
  IN  [moment |-> at, fingerprint |-> FingerprintAt(past, at), atr |-> atr, entry |-> entry,
       buy  |-> Resolve("buy",  entry, atr, future),
       sell |-> Resolve("sell", entry, atr, future)]

\* Slip for a mutant run: the newest candle completes a horizon.
MomentsToTheEdge(bars) == MinCandles..(Len(bars) - Horizon)

\* The range of build_cases: history enough behind, and a horizon of candles ahead.
Moments(bars) == MinCandles..(Len(bars) - Horizon - 1)

\* build_cases over the candles after the first `left` of the chart.
BuildCases(bars, left) ==
  {CaseAt(SubSeq(bars, 1, i), left + i, SubSeq(bars, i + 1, i + Horizon)) :
     i \in {m \in Moments(bars) : Fingerprintable(SubSeq(bars, 1, m))}}

Unswept(chart) == Max({0, Len(chart) - SweptBars})

\* index_market_cases reads the newest candles, the forming one with them.
Sweep(chart) == BuildCases(Newest(chart, SweptBars), Unswept(chart))

\* store_cases: an upsert by moment.
StoreCases(table, cases) ==
  cases \cup {c \in table : \A d \in cases : d.moment # c.moment}
-----------------------------------------------------------------------------
\* fingerprint_vector, in three-thousandths.
FingerprintVector(f) ==
  LET Slot(names, value) == CHOOSE v \in DOMAIN names : names[v] = value
  IN <<CASE f.regime = "trend" -> 3000 [] f.regime = "volatile" -> 1500 [] OTHER -> 0,
       CASE f.trend = "up" -> 3000 [] f.trend = "down" -> -3000 [] OTHER -> 0,
       750 * (Slot(<<"near_low", "discount", "mid", "premium", "near_high">>, f.zone) - 1),
       3 * f.pullback,
       Min({3000, 6 * f.impulse}),
       Min({3000, 6 * f.volatility}),
       1500 * (Slot(<<"asia", "london", "newyork">>, f.session) - 1),
       Min({3000, 500 * f.run})>>

Weights == <<10, 14, 10, 8, 8, 7, 4, 6>>

Distance(f, g) ==
  LET v == FingerprintVector(f)  w == FingerprintVector(g)
  IN  MapThenSumSet(LAMBDA k : Weights[k] * Magnitude(v[k] - w[k]), 1..8)

\* The distance of the vector index, which recalls and does not rank.
Recall(f, g) ==
  LET v == FingerprintVector(f)  w == FingerprintVector(g)
  IN  MapThenSumSet(LAMBDA k : (v[k] - w[k]) * (v[k] - w[k]), 1..8)

\* MIN_SIMILARITY: at most 28 hundredths of the whole weight of 67 apart.
Alike(f, g) == 100 * Distance(f, g) <= 28 * 67 * 3000

\* find_similar_cases, for a reader who asks about moments before `until`: recalled by
\* the index, ranked by the exact distance, the older moment first on a tie.
FindSimilarCases(table, probe, until) ==
  LET pool       == {c \in table : c.fingerprint.trend = probe.trend /\ c.moment < until}
      candidates == {c \in pool : Cardinality({d \in pool :
                       Recall(d.fingerprint, probe) < Recall(c.fingerprint, probe)}) < CandidateLimit}
      scored     == {c \in candidates : Alike(c.fingerprint, probe)}
      Before(d, c) == \/ Distance(d.fingerprint, probe) < Distance(c.fingerprint, probe)
                      \/ /\ Distance(d.fingerprint, probe) = Distance(c.fingerprint, probe)
                         /\ d.moment < c.moment
  IN  {c \in scored : Cardinality({d \in scored : Before(d, c)}) < ResultLimit}
-----------------------------------------------------------------------------
(* One sweep before a candle opens or the newest one grows, and one after.  What   *)
(* either stored of a moment (its level, its range, how both sides of it ended) is *)
(* what the whole chart says of it for good, though a sweep reads the candle that  *)
(* is still forming and only the newest of the rest; a moment with a whole window  *)
(* behind it keeps the fingerprint the whole history gives; and no outcome behind  *)
(* an answer about the present reaches the candle that is asked about.             *)
SettledBy(before, after) ==
  LET old == Sweep(before)
  IN  /\ \A c \in old :
           LET whole == CaseAt(SubSeq(after, 1, c.moment), c.moment,
                               SubSeq(after, c.moment + 1, Len(after)))
           IN  /\ [whole EXCEPT !.fingerprint = c.fingerprint] = c
               /\ c.moment - Unswept(before) >= RangeWindow => whole = c
      /\ Fingerprintable(after) =>
           \A c \in FindSimilarCases(StoreCases(old, Sweep(after)),
                                     FingerprintAt(after, Len(after)), Len(after) + 1) :
             c.moment + Horizon < Len(after)

\* Not kept by the code (README, section 6): a reader at an earlier moment is told
\* nothing the market had not shown by then.
ReplayKnowsNoFuture(chart) ==
  \A m \in MinCandles..Len(chart) : Fingerprintable(SubSeq(chart, 1, m)) =>
    \A c \in FindSimilarCases(Sweep(chart), FingerprintAt(SubSeq(chart, 1, m), m), m) :
      c.moment + Horizon <= m
=============================================================================
