-------------------------- MODULE ConditionalPlan --------------------------
(***************************************************************************)
(* A conditional plan waiting on its activation rule while candles form,    *)
(* close and leave the window the tracker loads: evaluate_recommendation of *)
(* services/recommendations/tracker.py with the whole rule language, which  *)
(* PlanTracker abstracts to one touch.  A long plan; its deadline and the   *)
(* other manual moves are PlanTracker's.  The nightly sweep of MarketCases  *)
(* reads the same candles, and those from before the plan.                  *)
(***************************************************************************)
EXTENDS MarketCases

CONSTANTS
  History,      \* the candles stored before the plan was written
  Bar,          \* candles: records of a high, a low and a close
  Rule,         \* the activation rules the plan may carry
  StopLevel, TargetLevel,
  MaxBars,      \* bound: candles since the plan was written
  MaxForming,   \* bound: candles of a plan the user does not confirm
  MaxAsked,     \* bound: candles before the user confirms the plan
  Window,       \* TRACKER_BARS: how many recent candles one evaluation loads
  MaxGap        \* bound: candles between two evaluations of a waiting plan

\* The conditions that count closes, all of them at least one (the type Closes).
Counted == {"candle_close_above", "candle_close_below", "breakout_confirmed", "retest_confirmed"}

ASSUME PlanAssumption ==
  /\ {MaxBars, MaxForming, MaxAsked, Window, MaxGap} \subseteq Nat
  /\ Bar \subseteq [low : Int, close : Int, high : Int]
  /\ History \in Seq([low : Int, close : Int, high : Int])
  /\ \A b \in Bar : b.low <= b.close /\ b.close <= b.high
ASSUME RuleAssumption ==
  \A r \in Rule : \A leaf \in Leaves(r) :
    \/ leaf.kind \in {"price_touch", "rejection_confirmed"}
    \/ leaf.kind \in Counted /\ leaf.closes \in Nat \ {0}

VARIABLES
  rule,     \* activation_rule_json; nothing reads it before the plan is confirmed
  status,   \* Recommendation.status
  bars,     \* every candle since created_at; the last one may still be forming
  lastPass, \* number of candles the last evaluation of the waiting plan saw
  asked     \* number of candles when the plan began to wait on its rule

vars == <<rule, status, bars, lastPass, asked>>

Open == {"FORMING", "WAITING_CONFIRMATION"}

Unread == [kind |-> "unread"]

Init ==
  /\ rule = Unread /\ status = "FORMING"
  /\ bars = <<>> /\ lastPass = 0 /\ asked = 0

\* Slip for a mutant run: the window's first candle is taken for the newest.
LoadedOldest == SubSeq(bars, 1, Min({Window, Len(bars)}))

\* load_recent_candles, cut at created_at.
Loaded == SubSeq(bars, Max({1, Len(bars) - Window + 1}), Len(bars))

StopAt(chart)   == Earliest({i \in 1..Len(chart) : chart[i].low <= StopLevel})
TargetAt(chart) == Earliest({i \in 1..Len(chart) : chart[i].high >= TargetLevel})

\* The stop, the target, and only then the rule.  From FORMING the table refuses
\* TARGET_REACHED and the pass stops there.
StatusAfter(chart) ==
  LET s == StopAt(chart)  t == TargetAt(chart)
  IN  CASE s # 0 /\ (t = 0 \/ s <= t)           -> "INVALIDATED"
        [] t # 0 /\ (s = 0 \/ t < s)            ->
             IF status = "FORMING" THEN status ELSE "TARGET_REACHED"
        [] s = 0 /\ t = 0 /\ status = "WAITING_CONFIRMATION"
             /\ EvaluateActivation(rule, chart) # 0 -> "READY"
        [] OTHER                                -> status

\* evaluate_recommendation, reached through list_open.
Evaluate ==
  /\ status \in Open
  /\ status' = StatusAfter(Loaded)
  /\ lastPass' = IF status = "FORMING" THEN lastPass ELSE Len(bars)
  /\ UNCHANGED <<rule, bars, asked>>

\* transition_recommendation_status: the user confirms a forming plan.
Confirm ==
  /\ status = "FORMING" /\ status' = "WAITING_CONFIRMATION"
  /\ Len(bars) <= MaxAsked
  /\ rule' \in Rule
  /\ asked' = Len(bars) /\ lastPass' = Len(bars)
  /\ UNCHANGED bars

\* A candle opens.  A waiting plan is evaluated at least every MaxGap candles.
NewBar(b) ==
  /\ status \in Open /\ Len(bars) < MaxBars
  /\ IF status = "FORMING" THEN Len(bars) < MaxForming ELSE Len(bars) - lastPass < MaxGap
  /\ bars' = Append(bars, b)
  /\ UNCHANGED <<rule, status, lastPass, asked>>

\* upsert_candles rewrites the forming candle: its range widens, its close moves.
GrowBar(b) ==
  /\ status \in Open /\ bars # <<>>
  /\ LET last == bars[Len(bars)] IN b.low <= last.low /\ last.high <= b.high /\ b # last
  /\ bars' = [bars EXCEPT ![Len(bars)] = b]
  /\ UNCHANGED <<rule, status, lastPass, asked>>

Next ==
  \/ Evaluate
  \/ Confirm
  \/ \E b \in Bar : NewBar(b) \/ GrowBar(b)

Spec == Init /\ [][Next]_vars
-----------------------------------------------------------------------------
\* The candles a rule has to remember to be met, if there is a bound: a retest and a
\* rule of several parts may span the plan's whole life.
Memory(leaf) ==
  CASE leaf.kind \in {"price_touch", "rejection_confirmed"}                         -> 1
    [] leaf.kind \in {"candle_close_above", "candle_close_below", "breakout_confirmed"} -> leaf.closes
    [] OTHER -> MaxBars

FitsWindow ==
  /\ rule.kind = "composite" => rule.operator = "any"
  /\ \A leaf \in Leaves(rule) : Memory(leaf) + MaxGap <= Window

(* An evaluation that makes the plan READY does so on a rule the plan's whole life *)
(* on the chart meets, though it read only the newest candles of it: what has left *)
(* the window invents no break, retest or sequence.  One that leaves the plan      *)
(* waiting has missed nothing since the plan began to wait, however far apart the  *)
(* evaluations were, for every rule whose memory fits the window.                  *)
EvaluationIsExact ==
  [][Evaluate /\ status = "WAITING_CONFIRMATION" =>
       /\ status' = "READY" => EvaluateActivation(rule, bars) # 0
       /\ status' = "WAITING_CONFIRMATION" /\ FitsWindow =>
            EvaluateActivation(rule, SubSeq(bars, asked + 1, Len(bars))) = 0]_vars

\* The chart before its newest candle opened, and while that candle was still smaller.
Earlier ==
  {History \o Front(bars)} \cup
  {History \o [bars EXCEPT ![Len(bars)] = b] :
     b \in {c \in Bar : bars[Len(bars)].low <= c.low /\ c.high <= bars[Len(bars)].high}}

(* See SettledBy: sweeps of the chart a plan lives on and of what came before, on every *)
(* chart a forming plan meets (what the plan does next changes nothing of it).          *)
CasesAreSettled ==
  status = "FORMING" /\ bars # <<>> => \A chart \in Earlier : SettledBy(chart, History \o bars)

(* See ReadAlike: the swings of the chart the plan lives on. *)
SwingsAreSound == ReadAlike(bars)
=============================================================================
