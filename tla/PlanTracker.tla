----------------------------- MODULE PlanTracker -----------------------------
(***************************************************************************)
(* One recommendation watched by the tracker: the market prints bars, the  *)
(* five-minute job evaluates the plan against the bars since it was        *)
(* written, the user moves it by hand and a re-evaluation may rewrite its  *)
(* levels.  Evaluations are serial here; RecommendationSessions interleaves*)
(* them.                                                                   *)
(***************************************************************************)
EXTENDS Lifecycle, Integers, Sequences

CONSTANTS
  Price,        \* the prices a bar or a level may take
  Deadlines,    \* bound: the moments at which a plan may expire
  MaxBars,      \* bound: bars printed since the plan was written
  MaxTime,      \* bound: the clock
  Window,       \* TRACKER_BARS: how many recent bars one evaluation loads
  MaxGap,       \* bars that may print between two evaluations
  MaxRewrites,  \* bound: level rewrites by re-evaluations
  None          \* the null value of a column

ASSUME PriceAssumption == Price \subseteq Int /\ Deadlines \subseteq Nat
ASSUME BoundsAssumption == {MaxBars, MaxTime, Window, MaxGap, MaxRewrites} \subseteq Nat

\* None is a value of its own: no price or time, no bar, no status, no outcome.
ASSUME NoneAssumption ==
  /\ None \notin Int /\ None \notin Status
  /\ None \notin [low : Price, high : Price]
  /\ None \notin [status : Terminal, source : {"tracker", "manual"}]

\* The cron keeps up: fewer bars print between two evaluations than one of them loads.
ASSUME CoverageAssumption == MaxGap < Window

VARIABLES
  plan,      \* the recommendations row
  bars,      \* candles with ts >= created_at, oldest first; the last may be forming.  The
             \* candle already open when the plan was written is never loaded
  now,       \* the clock
  lastPass,  \* number of bars that existed at the last evaluation
  rewrites,  \* level rewrites so far
  history,   \* recommendation_revisions: <<reason, previous, declared>>, oldest first
  outcome,   \* the outcome_records row of this plan, or None
  warned     \* tracker_illegal_transition was logged for this plan

market == <<bars, now>>
vars == <<plan, market, lastPass, rewrites, history, outcome, warned>>

Bar == {b \in [low : Price, high : Price] : b.low <= b.high}
Direction == {"BUY", "SELL"}

\* Levels a completed decision carries: the stop on the losing side of the target.
LevelPair(dir) ==
  {l \in [stop : Price, target : Price] :
     IF dir = "BUY" THEN l.stop < l.target ELSE l.target < l.stop}

PlanRow ==
  [direction : Direction, status : Status, stop : Price \cup {None}, target : Price \cup {None},
   trigger : Price \cup {None}, planType : {"IMMEDIATE", "CONDITIONAL"},
   execution : {"VALID_NOW", "AWAITING", "INVALIDATED", "EXPIRED"},
   expires : Deadlines \cup {None}]

\* What run_analysis writes for a completed decision (READY when the adversarial
\* review approves, else FORMING), and what POST /recommendations writes: no levels.
Created ==
  {p \in PlanRow :
     /\ p.planType = IF p.trigger = None THEN "IMMEDIATE" ELSE "CONDITIONAL"
     /\ p.execution = IF p.trigger = None THEN "VALID_NOW" ELSE "AWAITING"
     /\ \/ /\ p.status \in {"READY", "FORMING"} /\ p.expires # None
           /\ [stop |-> p.stop, target |-> p.target] \in LevelPair(p.direction)
        \/ /\ p.status = "DETECTED"
           /\ {p.stop, p.target, p.trigger, p.expires} = {None}}

\* A bar's range contains the level, coming from the given side: _hit.
Touches(bar, level, side) == IF side = "above" THEN bar.high >= level ELSE bar.low <= level

LossSide(p) == IF p.direction = "BUY" THEN "below" ELSE "above"
GainSide(p) == IF p.direction = "BUY" THEN "above" ELSE "below"

Init ==
  /\ plan \in Created
  /\ bars = <<>> /\ now = 0 /\ lastPass = 0 /\ rewrites = 0
  /\ history = <<>> /\ outcome = None /\ warned = FALSE

-----------------------------------------------------------------------------
\* Plausible slips, for the mutant runs: a window short by one bar, a tie that goes
\* to the target, a deadline that must be strictly past, a status written to the
\* execution axis, an ending the learning hook does not know.
LoadedShort == {i \in 1..Len(bars) : i > Len(bars) - Window + 1}

\* Indices, from the oldest bar an evaluation loads, at which a level was traded.
Loaded == {i \in 1..Len(bars) : i > Len(bars) - Window}
StopHits(p, from)   == {i \in from : p.stop # None /\ Touches(bars[i], p.stop, LossSide(p))}
TargetHits(p, from) == {i \in from : p.target # None /\ Touches(bars[i], p.target, GainSide(p))}

StopStrictlyFirst(p, from) ==
  /\ StopHits(p, from) # {}
  /\ \A t \in TargetHits(p, from) : \E s \in StopHits(p, from) : s < t

\* invalid_at <= target_at: the stop broke first, and it wins a shared bar.
StopFirst(p, from) ==
  /\ StopHits(p, from) # {}
  /\ \A t \in TargetHits(p, from) : \E s \in StopHits(p, from) : s <= t

\* The stored rule, a touch of the trigger price, holds on the loaded bars.
ConditionFired(p, from) ==
  /\ p.trigger # None
  /\ \E i \in from : bars[i].low <= p.trigger /\ p.trigger <= bars[i].high

VerdictStrictExpiry(p, from) ==
  CASE StopFirst(p, from)                                           -> "INVALIDATED"
    [] ~StopFirst(p, from) /\ TargetHits(p, from) # {}              -> "TARGET_REACHED"
    [] ~StopFirst(p, from) /\ TargetHits(p, from) = {}
         /\ p.status = "WAITING_CONFIRMATION" /\ ConditionFired(p, from) -> "READY"
    [] OTHER -> IF p.expires # None /\ now > p.expires THEN "EXPIRED" ELSE None

\* What the evaluation decides, in the order the code asks its four questions:
\* the status to move to, or None when nothing happened.
Verdict(p, from) ==
  CASE StopFirst(p, from)                                           -> "INVALIDATED"
    [] ~StopFirst(p, from) /\ TargetHits(p, from) # {}              -> "TARGET_REACHED"
    [] ~StopFirst(p, from) /\ TargetHits(p, from) = {}
         /\ p.status = "WAITING_CONFIRMATION" /\ ConditionFired(p, from) -> "READY"
    [] OTHER -> IF p.expires # None /\ now >= p.expires THEN "EXPIRED" ELSE None

Reason == [INVALIDATED |-> "invalidation", TARGET_REACHED |-> "target_reached",
           READY |-> "activation", EXPIRED |-> "expiry"]

ExecutionIsStatus(p, new) == IF new = "READY" THEN "VALID_NOW" ELSE new

\* The execution axis after a tracker transition.
ExecutionAfter(p, new) ==
  CASE new = "INVALIDATED" -> "INVALIDATED"
    [] new = "EXPIRED"     -> "EXPIRED"
    [] new = "READY"       -> "VALID_NOW"
    [] OTHER               -> p.execution

RecordedUnlessExpired(new, source) ==
  IF new \in {"TARGET_REACHED", "INVALIDATED"} /\ outcome = None
    THEN [status |-> new, source |-> source] ELSE outcome

\* on_recommendation_terminal_status: the first ending is recorded, a repeat is not.
Recorded(new, source) ==
  IF new \in Terminal /\ outcome = None THEN [status |-> new, source |-> source] ELSE outcome
-----------------------------------------------------------------------------
\* evaluate_recommendation, reached through list_open: only an open plan is walked.
\* An illegal move is logged and dropped, and nothing else of the pass happens.
TrackerPass ==
  /\ plan.status \in Open
  /\ lastPass' = Len(bars)
  /\ LET new == Verdict(plan, Loaded)
     IN  \/ /\ new # None /\ Legal(plan.status, new)
            /\ plan' = [plan EXCEPT !.status = new, !.execution = ExecutionAfter(plan, new)]
            /\ history' = Append(history, <<Reason[new], plan.status, new>>)
            /\ outcome' = Recorded(new, "tracker")
            /\ UNCHANGED warned
         \/ /\ new # None /\ ~Legal(plan.status, new)
            /\ warned' = TRUE
            /\ UNCHANGED <<plan, history, outcome>>
         \/ /\ new = None
            /\ UNCHANGED <<plan, history, outcome, warned>>
  /\ UNCHANGED <<market, rewrites>>

\* transition_recommendation_status, from the API: a closed plan is returned as it
\* is, an illegal move raises (the request rolls back), a legal one writes the status
\* alone: no revision, no execution axis, no activation time.
Manual(new) ==
  /\ plan.status \in Open /\ Legal(plan.status, new)
  /\ plan' = [plan EXCEPT !.status = new]
  /\ outcome' = Recorded(new, "manual")
  /\ UNCHANGED <<market, lastPass, rewrites, history, warned>>

\* run_reevaluation_cycle revising the plan (_apply): direction, levels and axes come
\* from the new decision; status, trigger and expiry stay.
Rewrite(dir, lv, type) ==
  /\ rewrites < MaxRewrites /\ plan.status \in Open
  /\ plan' = [plan EXCEPT !.direction = dir, !.stop = lv.stop, !.target = lv.target,
                          !.planType = type,
                          !.execution = IF type = "CONDITIONAL" THEN "AWAITING" ELSE "VALID_NOW"]
  /\ plan' # plan
  /\ rewrites' = rewrites + 1
  /\ history' = Append(history, <<"reevaluation", plan.status, plan.status>>)
  /\ UNCHANGED <<market, lastPass, outcome, warned>>

\* A minute passes and a new candle opens.  The job runs at least every MaxGap bars.
NewBar(b) ==
  /\ Len(bars) < MaxBars /\ now < MaxTime
  /\ plan.status \in Open => Len(bars) - lastPass < MaxGap
  /\ bars' = Append(bars, b) /\ now' = now + 1
  /\ UNCHANGED <<plan, lastPass, rewrites, history, outcome, warned>>

\* upsert_candles rewrites the forming candle with a wider range.
GrowBar(b) ==
  /\ bars # <<>>
  /\ LET last == bars[Len(bars)] IN b.low <= last.low /\ last.high <= b.high /\ b # last
  /\ bars' = [bars EXCEPT ![Len(bars)] = b]
  /\ UNCHANGED <<plan, now, lastPass, rewrites, history, outcome, warned>>

\* A minute in which the market is closed.
QuietMinute ==
  /\ now < MaxTime /\ now' = now + 1
  /\ UNCHANGED <<plan, bars, lastPass, rewrites, history, outcome, warned>>

Next ==
  \/ TrackerPass
  \/ \E s \in Status : Manual(s)
  \/ \E d \in Direction : \E lv \in LevelPair(d), ty \in {"IMMEDIATE", "CONDITIONAL"} :
        Rewrite(d, lv, ty)
  \/ \E b \in Bar : NewBar(b) \/ GrowBar(b)
  \/ QuietMinute

Spec == Init /\ [][Next]_vars

\* The cron keeps firing and the clock keeps moving; nobody makes the user act.
FairSpec == Spec /\ WF_vars(TrackerPass) /\ WF_vars(QuietMinute \/ \E b \in Bar : NewBar(b))
-----------------------------------------------------------------------------
Revision == {"invalidation", "target_reached", "activation", "expiry", "reevaluation"}
              \X Status \X Status
Ending == [status : Terminal, source : {"tracker", "manual"}]

TypeOK ==
  /\ plan \in PlanRow
  /\ bars \in Seq(Bar)
  /\ now \in Nat /\ lastPass \in 0..Len(bars) /\ rewrites \in Nat
  /\ history \in Seq(Revision) /\ outcome \in Ending \cup {None}
  /\ warned \in BOOLEAN

\* Every touch of either level by a bar some evaluation has already loaded.  The
\* newest of them may have widened since, so it is left out.
Seen == 1..(lastPass - 1)

(* However the evaluations fall between the bars, a plan that is still open was *)
(* never traded through its stop or its target in a candle an evaluation has    *)
(* passed: no touch is lost between two runs of the job or past the window it   *)
(* loads.  Only a move the table refused (warned) leaves one behind.            *)
OpenPlanIsUntouched ==
  plan.status \in Open /\ ~warned /\ rewrites = 0 =>
    StopHits(plan, Seen) = {} /\ TargetHits(plan, Seen) = {}

(* The ending the tracker records is the first level price reached over the whole *)
(* life of the plan and never depends on when the job ran: the stop wins a candle *)
(* that touches both, unless the target was seen while that candle still formed,  *)
(* and a plan expires only past its deadline, with neither level reached.         *)
EndingFollowsFirstTouch ==
  outcome # None /\ ~warned /\ (rewrites = 0 \/ Len(bars) <= Window) =>
    (outcome.source = "tracker" =>
      LET S == StopHits(plan, 1..Len(bars))
          T == TargetHits(plan, 1..Len(bars))
      IN  CASE outcome.status = "INVALIDATED"    ->
                 S # {} /\ \A t \in T : \E s \in S : s <= t
            [] outcome.status = "TARGET_REACHED" ->
                 \E t \in T : t <= lastPass /\ \A s \in S : t < s \/ (t = s /\ s = lastPass)
            [] outcome.status = "EXPIRED"        ->
                 plan.expires # None /\ now >= plan.expires /\ (S \cup T) \cap Seen = {})

(* A plan is closed exactly when its outcome is recorded, and the record says what *)
(* the row says, whoever closed it and however often a status was repeated.        *)
OutcomeMatchesEnding ==
  /\ outcome # None <=> plan.status \in Terminal
  /\ outcome # None => outcome.status = plan.status

(* A plan with a deadline that the table lets expire does end, by price or by its *)
(* deadline, unless the user moves it to a status that cannot.                    *)
DeadlineEnds ==
  (plan.status \in {"READY", "WAITING_CONFIRMATION", "ACTIVE"} /\ plan.expires # None)
    ~> plan.status \in Terminal \cup {"STRENGTHENING", "WEAKENING"}
-----------------------------------------------------------------------------
(* Not kept by the code (README, section 6).  tracker.py: "a plan whose stop broke is *)
(* finished regardless of what else happened afterwards": an open plan has no broken  *)
(* stop behind an evaluation.                                                         *)
BrokenStopIsFinished ==
  plan.status \in Open /\ rewrites = 0 => StopHits(plan, Seen) = {}
==============================================================================
