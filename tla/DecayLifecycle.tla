--------------------------- MODULE DecayLifecycle ---------------------------
(***************************************************************************)
(* Whether a strategy still counts as support.  Every closed plan of a     *)
(* workspace is recorded and the bucket it belongs to is judged: the last  *)
(* Window outcomes against the Window before them, by a policy that        *)
(* demotes at once and promotes after consecutive readings.                *)
(***************************************************************************)
EXTENDS Integers, Sequences, FiniteSets, Functions

CONSTANTS
  Bucket,          \* the strategy buckets of one workspace
  Outcome,         \* what a closed plan may record: whether it won, and its R multiple
  None,            \* no R multiple
  Window,          \* DECAY_WINDOW
  MinSample,       \* min_sample_for_judgement
  MonitorDrop,     \* monitor_win_rate_drop, in percent
  DecayedDrop,     \* decayed_win_rate_drop, in percent
  RecoveryStreak   \* recovery_streak

ASSUME OutcomeAssumption == Outcome \subseteq [won : BOOLEAN, r : Int \cup {None}]
ASSUME ThresholdAssumption ==
  /\ Window \in Nat \ {0} /\ MinSample \in 1..Window
  /\ {MonitorDrop, DecayedDrop} \subseteq Nat /\ MonitorDrop > 0 /\ MonitorDrop <= DecayedDrop
  /\ RecoveryStreak \in Nat \ {0}

VARIABLES
  log,       \* the PLAN outcomes of the workspace, newest first, as far as _windows reads
  verdict,   \* metadata_json of each bucket: lifecycle_state and healthy_streak
  since      \* judged evaluations since a bucket's state last changed, up to RecoveryStreak

decayVars == <<log, verdict, since>>

LifecycleState == {"active", "monitoring", "decayed", "disabled"}
Order == [active |-> 0, monitoring |-> 1, decayed |-> 2, disabled |-> 3]
Worse(a, b) == Order[a] > Order[b]

DecayInit ==
  /\ log = <<>>
  /\ verdict = [b \in Bucket |-> [state |-> "active", streak |-> 0]]
  /\ since = [b \in Bucket |-> 0]
-----------------------------------------------------------------------------
\* _windows reads the newest outcomes of the workspace, whatever their bucket.
Recent(rows) == {i \in DOMAIN rows : i <= Window}
Previous(rows) == DOMAIN rows \ Recent(rows)

Wins(rows, S) == Cardinality({i \in S : rows[i].won})
RSum(rows, S) == FoldFunctionOnSet(+, 0, [i \in S |-> rows[i].r], S)
Gains(rows, S) == RSum(rows, {i \in S : rows[i].r # None /\ rows[i].r > 0})
Losses(rows, S) == -RSum(rows, {i \in S : rows[i].r # None /\ rows[i].r < 0})

\* Without a loss there is no profit factor.
ProfitFactorCollapsed(rows) ==
  Losses(rows, Recent(rows)) > 0 /\ Gains(rows, Recent(rows)) <= Losses(rows, Recent(rows))

\* Never reached with a sample: such rows have collapsed already.
MeanRNegative(rows) == Gains(rows, Recent(rows)) < Losses(rows, Recent(rows))

\* The win rate has fallen by at least this percentage of the baseline, when there is one.
Fallen(rows, percent) ==
  LET n == Cardinality(Recent(rows))
      base == Wins(rows, Previous(rows))
      size == Cardinality(Previous(rows))
  IN  base > 0 /\ 100 * (base * n - Wins(rows, Recent(rows)) * size) >= percent * base * n

Target(rows) ==
  CASE Fallen(rows, DecayedDrop) -> "decayed"
    [] ~Fallen(rows, DecayedDrop) /\ (Fallen(rows, MonitorDrop) \/ MeanRNegative(rows)) -> "monitoring"
    [] OTHER -> "active"

Settled(state, streak) == [state |-> state, streak |-> streak]

\* Slips for the mutant runs: a demotion that keeps the streak, one that goes a single
\* step down, a climb that does not count its own reading.
DemotedKeepsStreak(v, rows) == Settled(Target(rows), v.streak)
DemotedOneStep(v, rows) ==
  Settled(IF v.state = "active" THEN "monitoring" ELSE Target(rows), 0)
ClimbedUncounted(v, rows) ==
  IF v.streak < RecoveryStreak THEN Settled(v.state, v.streak) ELSE Settled(Target(rows), 0)

\* Down at once.
Demoted(v, rows) == Settled(Target(rows), 0)

\* Holding: a win rate above the monitoring line counts toward recovery.
Held(v, rows) ==
  Settled(v.state, IF v.state = "active" THEN v.streak
                   ELSE IF Fallen(rows, MonitorDrop) THEN 0 ELSE v.streak + 1)

\* Up after RecoveryStreak readings better than the state.
Climbed(v, rows) ==
  IF v.streak + 1 < RecoveryStreak THEN Settled(v.state, v.streak + 1) ELSE Settled(Target(rows), 0)

\* A disabled strategy, or a sample too small, is left as it is.
Judged(v, rows) == v.state # "disabled" /\ Cardinality(Recent(rows)) >= MinSample
-----------------------------------------------------------------------------
Remember(b, v) ==
  /\ verdict' = [verdict EXCEPT ![b] = v]
  /\ since' = [since EXCEPT ![b] = IF v.state # verdict[b].state THEN 0
                                   ELSE IF @ < RecoveryStreak THEN @ + 1 ELSE @]

\* evaluate_strategy_decay, by the branch of evaluate_lifecycle it takes.
Leave(b, rows) == ~Judged(verdict[b], rows) /\ UNCHANGED <<verdict, since>>

Disable(b, rows) ==
  /\ Judged(verdict[b], rows) /\ ProfitFactorCollapsed(rows)
  /\ Remember(b, Settled("disabled", 0))

Demote(b, rows) ==
  /\ Judged(verdict[b], rows) /\ ~ProfitFactorCollapsed(rows)
  /\ Worse(Target(rows), verdict[b].state)
  /\ Remember(b, Demoted(verdict[b], rows))

Hold(b, rows) ==
  /\ Judged(verdict[b], rows) /\ ~ProfitFactorCollapsed(rows)
  /\ Target(rows) = verdict[b].state
  /\ Remember(b, Held(verdict[b], rows))

Climb(b, rows) ==
  /\ Judged(verdict[b], rows) /\ ~ProfitFactorCollapsed(rows)
  /\ Worse(verdict[b].state, Target(rows))
  /\ Remember(b, Climbed(verdict[b], rows))

\* run_learning_pipeline, for a PLAN outcome that was not recorded before.
Record(b, o) ==
  LET rows == SubSeq(<<[bucket |-> b, won |-> o.won, r |-> o.r]>> \o log, 1,
                     IF Len(log) < 2 * Window THEN Len(log) + 1 ELSE 2 * Window)
  IN  /\ log' = rows
      /\ \/ Leave(b, rows) \/ Disable(b, rows)
         \/ Demote(b, rows) \/ Hold(b, rows) \/ Climb(b, rows)

DecayNext == \E b \in Bucket, o \in Outcome : Record(b, o)

DecaySpec == DecayInit /\ [][DecayNext]_decayVars
-----------------------------------------------------------------------------
DecayTypeOK ==
  /\ log \in Seq([bucket : Bucket, won : BOOLEAN, r : Int \cup {None}])
  /\ Len(log) <= 2 * Window
  /\ verdict \in [Bucket -> [state : LifecycleState, streak : 0..(RecoveryStreak - 1)]]
  /\ since \in [Bucket -> 0..RecoveryStreak]

(* "One good result must not re-promote a broken strategy": whatever demotions, holds   *)
(* and half climbs came between, RecoveryStreak judged readings separate a promotion    *)
(* from the last change of that bucket's state.                                         *)
PromotionTakesReadings ==
  [][\A b \in Bucket : Worse(verdict[b].state, verdict'[b].state) => since[b] + 1 >= RecoveryStreak]_decayVars

(* "A downgrade takes effect immediately": a bucket that has just been judged never     *)
(* stands better than the two windows say.                                              *)
NeverBetterThanItsReading ==
  [][\A b \in Bucket : (Head(log').bucket = b /\ Judged(verdict[b], log'))
       => ~Worse(Target(log'), verdict'[b].state)]_decayVars

PlanWins == log' # log => Head(log').won /\ Head(log').r # None /\ Head(log').r > 0
KeepsBeingJudged(b) == WF_decayVars(\E o \in Outcome : Record(b, o))

(* A bucket that keeps being judged while everything closes at its target counts as     *)
(* support again, unless it was disabled: no streak is ever lost or stuck.              *)
WinnersRecover ==
  \A b \in Bucket : (<>[][PlanWins]_decayVars /\ KeepsBeingJudged(b))
    => <>[](verdict[b].state \in {"active", "disabled"})
==============================================================================
