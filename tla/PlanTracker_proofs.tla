------------------------- MODULE PlanTracker_proofs -------------------------
(***************************************************************************)
(* Theorems about one plan watched by the tracker, for every price set,    *)
(* window, gap and bound: its types, that an evaluated bar never hides a   *)
(* touched level, and that the ending recorded is the first one the market *)
(* reached.                                                                *)
(***************************************************************************)
EXTENDS PlanTracker, SequenceTheorems, TLAPS

(* Open and finished statuses are apart and together all of them. *)
LEMMA StatusFacts ==
  /\ Terminal \subseteq Status
  /\ Open \subseteq Status
  /\ {"READY", "FORMING", "DETECTED"} \subseteq Open
  /\ Open \cap Terminal = {}
  /\ \A s \in Status : s \in Open \/ s \in Terminal
BY DEF Status, Open, Terminal, Transitions

(* What an evaluation decides is a status of the table that gives a reason, or nothing. *)
LEMMA VerdictType ==
  \A p, from : Verdict(p, from) \in {"INVALIDATED", "TARGET_REACHED", "READY", "EXPIRED", None}
BY DEF Verdict

(* The plan starts typed. *)
LEMMA TypeInit == Init => TypeOK
<1> SUFFICES ASSUME Init PROVE TypeOK
  OBVIOUS
<1>1. plan \in PlanRow
  BY DEF Init, Created
<1>2. bars \in Seq(Bar) /\ Len(bars) = 0 /\ history \in Seq(Revision)
  BY DEF Init
<1>3. now = 0 /\ lastPass = 0 /\ rewrites = 0 /\ outcome = None
  BY DEF Init
<1>4. warned \in BOOLEAN
  BY Zenon DEF Init
<1> QED BY <1>1, <1>2, <1>3, <1>4 DEF TypeOK, PlanRow

(* The row, the history and the outcome stay well typed through a change of status. *)
LEMMA TypeMove ==
  ASSUME TypeOK, NEW new \in Status, NEW src \in {"tracker", "manual"}
  PROVE  /\ Recorded(new, src) \in Ending \cup {None}
         /\ [plan EXCEPT !.status = new] \in PlanRow
         /\ new \in {"INVALIDATED", "TARGET_REACHED", "READY", "EXPIRED"} =>
              [plan EXCEPT !.status = new, !.execution = ExecutionAfter(plan, new)] \in PlanRow
<1>1. plan \in PlanRow
  BY DEF TypeOK, PlanRow
<1>2. ExecutionAfter(plan, new) \in {"VALID_NOW", "AWAITING", "INVALIDATED", "EXPIRED"}
  BY <1>1 DEF ExecutionAfter, PlanRow
<1> QED BY <1>1, <1>2 DEF TypeOK, PlanRow, Recorded, Ending

(* A printed candle is added at the end and leaves the others as they were. *)
LEMMA BarsAppended ==
  ASSUME bars \in Seq(Bar), NEW b \in Bar, NewBar(b)
  PROVE  /\ bars' \in Seq(Bar) /\ Len(bars') = Len(bars) + 1
         /\ \A i \in 1..Len(bars) : bars'[i] = bars[i]
BY AppendProperties DEF NewBar

(* A growing candle is the last one, and it only widens. *)
LEMMA BarsWidened ==
  ASSUME bars \in Seq(Bar), NEW b \in Bar, GrowBar(b)
  PROVE  /\ bars' \in Seq(Bar) /\ Len(bars') = Len(bars) /\ Len(bars) \in Nat \ {0}
         /\ \A i \in 1..Len(bars) : i # Len(bars) => bars'[i] = bars[i]
         /\ bars'[Len(bars)].low <= bars[Len(bars)].low
         /\ bars[Len(bars)].high <= bars'[Len(bars)].high
<1>1. Len(bars) \in Nat \ {0}
  BY DEF GrowBar
<1>2. bars' = [bars EXCEPT ![Len(bars)] = b]
  BY DEF GrowBar
<1>3. b.low <= bars[Len(bars)].low /\ bars[Len(bars)].high <= b.high
  BY DEF GrowBar
<1>4. Len(bars) \in 1..Len(bars)
  BY <1>1
<1> QED BY <1>1, <1>2, <1>3, <1>4, ExceptSeq

(* Every step keeps the plan typed. *)
LEMMA TypeStep == TypeOK /\ [Next]_vars => TypeOK'
<1> SUFFICES ASSUME TypeOK, [Next]_vars PROVE TypeOK'
  OBVIOUS
<1>0. /\ plan \in PlanRow /\ plan.status \in Status
      /\ bars \in Seq(Bar) /\ now \in Nat /\ rewrites \in Nat
      /\ lastPass \in 0..Len(bars)
      /\ history \in Seq(Revision) /\ outcome \in Ending \cup {None}
  BY DEF TypeOK, PlanRow
<1>w. warned \in BOOLEAN
  BY Zenon DEF TypeOK
<1>1. CASE TrackerPass
  <2> DEFINE new == Verdict(plan, Loaded)
  <2>0. lastPass' = Len(bars) /\ UNCHANGED <<bars, now, rewrites>>
    BY <1>1 DEF TrackerPass, market
  <2>1. new # None => /\ new \in Status /\ Reason[new] \in {"invalidation", "target_reached",
                                               "activation", "expiry"}
                      /\ new \in {"INVALIDATED", "TARGET_REACHED", "READY", "EXPIRED"}
    BY VerdictType DEF Reason, Status, Transitions
  <2>2. CASE /\ new # None
             /\ plan' = [plan EXCEPT !.status = new, !.execution = ExecutionAfter(plan, new)]
             /\ history' = Append(history, <<Reason[new], plan.status, new>>)
             /\ outcome' = Recorded(new, "tracker")
             /\ UNCHANGED warned
    <3>1. plan' \in PlanRow /\ outcome' \in Ending \cup {None}
      BY <2>1, <2>2, TypeMove
    <3>2. <<Reason[new], plan.status, new>> \in Revision
      BY <1>0, <2>1, <2>2 DEF Revision
    <3>3. history' \in Seq(Revision)
      BY <1>0, <2>2, <3>2
    <3>4. warned' \in BOOLEAN
      BY <1>w, <2>2
    <3> QED BY <1>0, <2>0, <3>1, <3>3, <3>4 DEF TypeOK, PlanRow
  <2>3. CASE warned' = TRUE /\ UNCHANGED <<plan, history, outcome>>
    <3>1. warned' \in BOOLEAN
      BY <2>3
    <3> QED BY <1>0, <2>0, <2>3, <3>1 DEF TypeOK, PlanRow
  <2>4. CASE UNCHANGED <<plan, history, outcome, warned>>
    <3>1. warned' \in BOOLEAN
      BY <1>w, <2>4
    <3> QED BY <1>0, <2>0, <2>4, <3>1 DEF TypeOK, PlanRow
  <2> QED BY <1>1, <2>2, <2>3, <2>4 DEF TrackerPass
<1>2. CASE \E s \in Status : Manual(s)
  <2> PICK s \in Status : Manual(s)
    BY <1>2
  <2>1. plan' \in PlanRow /\ outcome' \in Ending \cup {None}
    BY TypeMove DEF Manual
  <2>2. warned' \in BOOLEAN
    BY <1>w DEF Manual
  <2> QED BY <1>0, <2>1, <2>2 DEF Manual, market, TypeOK, PlanRow
<1>3. CASE \E d \in Direction : \E lv \in LevelPair(d), ty \in {"IMMEDIATE", "CONDITIONAL"} :
              Rewrite(d, lv, ty)
  <2> PICK d \in Direction : \E lv \in LevelPair(d), ty \in {"IMMEDIATE", "CONDITIONAL"} :
              Rewrite(d, lv, ty)
    BY <1>3
  <2> PICK lv \in LevelPair(d), ty \in {"IMMEDIATE", "CONDITIONAL"} : Rewrite(d, lv, ty)
    OBVIOUS
  <2>1. plan' \in PlanRow
    BY <1>0 DEF Rewrite, PlanRow, LevelPair
  <2>2. <<"reevaluation", plan.status, plan.status>> \in Revision
    BY <1>0 DEF Revision
  <2>3. history' \in Seq(Revision)
    BY <1>0, <2>2 DEF Rewrite
  <2>4. warned' \in BOOLEAN
    BY <1>w DEF Rewrite
  <2>5. rewrites' \in Nat
    BY <1>0 DEF Rewrite, market
  <2> QED BY <1>0, <2>1, <2>3, <2>4, <2>5 DEF Rewrite, market, TypeOK, PlanRow
<1>4. CASE \E b \in Bar : NewBar(b) \/ GrowBar(b)
  <2> PICK b \in Bar : NewBar(b) \/ GrowBar(b)
    BY <1>4
  <2>1. warned' \in BOOLEAN /\ UNCHANGED <<plan, lastPass, rewrites, history, outcome>>
    BY <1>w DEF NewBar, GrowBar
  <2>2. bars' \in Seq(Bar) /\ Len(bars') >= Len(bars) /\ Len(bars') \in Nat
    BY <1>0, BarsAppended, BarsWidened
  <2>3. now' \in Nat
    BY <1>0 DEF NewBar, GrowBar
  <2> QED BY <1>0, <2>1, <2>2, <2>3 DEF TypeOK, PlanRow
<1>5. CASE QuietMinute
  <2>1. warned' \in BOOLEAN
    BY <1>w, <1>5 DEF QuietMinute
  <2> QED BY <1>0, <1>5, <2>1 DEF QuietMinute, TypeOK, PlanRow
<1>6. CASE UNCHANGED vars
  <2>1. warned' \in BOOLEAN
    BY <1>w, <1>6 DEF vars
  <2> QED BY <1>0, <1>6, <2>1 DEF vars, market, TypeOK, PlanRow
<1> QED BY <1>1, <1>2, <1>3, <1>4, <1>5, <1>6 DEF Next

(* Every reachable state of the plan, its market and its records is well typed. *)
THEOREM TypeCorrect == Spec => []TypeOK
BY TypeInit, TypeStep, PTL DEF Spec
-----------------------------------------------------------------------------
\* Every touch of the stop, and of the target, since the plan was written.
AllStops   == StopHits(plan, 1..Len(bars))
AllTargets == TargetHits(plan, 1..Len(bars))

(* The verdict says which of the four questions was answered yes. *)
LEMMA VerdictMeaning ==
  ASSUME NEW p, NEW from
  PROVE  LET v == Verdict(p, from) IN
         /\ v = "INVALIDATED" <=> StopFirst(p, from)
         /\ v = "TARGET_REACHED" <=> ~StopFirst(p, from) /\ TargetHits(p, from) # {}
         /\ v \notin {"INVALIDATED", "TARGET_REACHED"} =>
              StopHits(p, from) = {} /\ TargetHits(p, from) = {}
         /\ v = "EXPIRED" => p.expires # None /\ now >= p.expires
<1>1. None \notin {"INVALIDATED", "TARGET_REACHED", "READY", "EXPIRED"}
  BY NoneAssumption DEF Status, Transitions
<1>2. TargetHits(p, from) = {} => (StopFirst(p, from) <=> StopHits(p, from) # {})
  BY DEF StopFirst
<1> QED BY <1>1, <1>2 DEF Verdict

(* Touches depend on the levels and the direction of a plan alone. *)
LEMMA HitsOfLevels ==
  ASSUME NEW p, NEW q, NEW from,
         p.stop = q.stop, p.target = q.target, p.direction = q.direction
  PROVE  StopHits(p, from) = StopHits(q, from) /\ TargetHits(p, from) = TargetHits(q, from)
BY DEF StopHits, TargetHits, LossSide, GainSide

(* The candles of a history carry integer prices. *)
LEMMA BarPrices ==
  ASSUME NEW candles \in Seq(Bar)
  PROVE  \A i \in 1..Len(candles) : candles[i].low \in Int /\ candles[i].high \in Int
<1> TAKE i \in 1..Len(candles)
<1>1. candles[i] \in Bar
  BY ElementOfSeq
<1> QED BY <1>1, PriceAssumption DEF Bar

(* Whatever the market does, a touch is never taken back, and a new touch is in the *)
(* last candle there was or in a later one.                                         *)
LEMMA HitsOnlyGrow ==
  ASSUME TypeOK, UNCHANGED plan,
         UNCHANGED bars \/ \E b \in Bar : NewBar(b) \/ GrowBar(b)
  PROVE  /\ Len(bars) <= Len(bars') /\ Len(bars) \in Nat /\ Len(bars') \in Nat
         /\ AllStops \subseteq AllStops' /\ AllTargets \subseteq AllTargets'
         /\ \A i \in AllStops' \cup AllTargets' :
              i \in 1..Len(bars') /\ (i < Len(bars) => i \in AllStops \cup AllTargets)
         /\ \A i \in AllStops' : i < Len(bars) => i \in AllStops
         /\ \A i \in AllTargets' : i < Len(bars) => i \in AllTargets
<1>0. bars \in Seq(Bar) /\ Len(bars) \in Nat
  BY DEF TypeOK
<1>1. /\ Len(bars) <= Len(bars') /\ Len(bars') \in Nat /\ bars' \in Seq(Bar)
      /\ \A i \in 1..Len(bars) :
           /\ i < Len(bars) => bars'[i] = bars[i]
           /\ bars'[i].low <= bars[i].low /\ bars[i].high <= bars'[i].high
  <2>1. \A i \in 1..Len(bars) : bars[i].low \in Int /\ bars[i].high \in Int
    BY <1>0, BarPrices
  <2>2. CASE UNCHANGED bars
    BY <1>0, <2>1, <2>2
  <2>3. CASE \E b \in Bar : NewBar(b)
    <3>1. /\ bars' \in Seq(Bar) /\ Len(bars') = Len(bars) + 1
          /\ \A i \in 1..Len(bars) : bars'[i] = bars[i]
      BY <1>0, <2>3, BarsAppended
    <3> QED BY <1>0, <2>1, <3>1
  <2>4. CASE \E b \in Bar : GrowBar(b)
    <3>1. /\ bars' \in Seq(Bar) /\ Len(bars') = Len(bars) /\ Len(bars) \in Nat \ {0}
          /\ \A i \in 1..Len(bars) : i # Len(bars) => bars'[i] = bars[i]
          /\ bars'[Len(bars)].low <= bars[Len(bars)].low
          /\ bars[Len(bars)].high <= bars'[Len(bars)].high
      BY <1>0, <2>4, BarsWidened
    <3> QED BY <1>0, <2>1, <3>1
  <2> QED BY <2>2, <2>3, <2>4
<1>2. \A i \in 1..Len(bars) : bars[i].low \in Int /\ bars[i].high \in Int
  BY <1>0, BarPrices
<1>3. \A i \in 1..Len(bars') : bars'[i].low \in Int /\ bars'[i].high \in Int
  BY <1>1, BarPrices
<1>4. plan.stop \in Int \cup {None} /\ plan.target \in Int \cup {None}
  BY PriceAssumption DEF TypeOK, PlanRow
<1>5. \A i \in 1..Len(bars), x \in Int, side \in {"above", "below"} :
         /\ Touches(bars[i], x, side) => Touches(bars'[i], x, side)
         /\ i < Len(bars) => (Touches(bars'[i], x, side) <=> Touches(bars[i], x, side))
  <2> TAKE i \in 1..Len(bars), x \in Int, side \in {"above", "below"}
  <2>1. i \in 1..Len(bars')
    BY <1>0, <1>1
  <2> QED BY <1>1, <1>2, <1>3, <2>1 DEF Touches
<1>6. LossSide(plan) \in {"above", "below"} /\ GainSide(plan) \in {"above", "below"}
  BY DEF LossSide, GainSide
<1>7. AllStops' = {i \in 1..Len(bars') : plan.stop # None /\ Touches(bars'[i], plan.stop, LossSide(plan))}
  BY DEF AllStops, StopHits, LossSide, Touches
<1>8. AllTargets' = {i \in 1..Len(bars') : plan.target # None /\ Touches(bars'[i], plan.target, GainSide(plan))}
  BY DEF AllTargets, TargetHits, GainSide, Touches
<1>9. AllStops \subseteq AllStops' /\ \A i \in AllStops' : i < Len(bars) => i \in AllStops
  BY <1>0, <1>1, <1>4, <1>5, <1>6, <1>7 DEF AllStops, StopHits
<1>10. AllTargets \subseteq AllTargets' /\ \A i \in AllTargets' : i < Len(bars) => i \in AllTargets
  BY <1>0, <1>1, <1>4, <1>5, <1>6, <1>8 DEF AllTargets, TargetHits
<1> QED BY <1>0, <1>1, <1>7, <1>8, <1>9, <1>10
-----------------------------------------------------------------------------
\* An open plan is evaluated before more bars print than an evaluation loads, and no
\* more bars print than the bound.  The bound matters only where the levels were
\* rewritten and an evaluation has to load every bar.
EvaluationsKeepUp ==
  /\ plan.status \in Open => Len(bars) - lastPass <= MaxGap
  /\ Len(bars) <= MaxBars

\* The inductive invariant.  That the ending is the first touch needs to know, when a
\* plan ends, that no bar behind the loaded window touched a level: this is
\* OpenPlanIsUntouched, which needs EvaluationsKeepUp; and that nothing evaluates the
\* plan once it ended, which OutcomeMatchesEnding gives.
PlanInv ==
  /\ TypeOK
  /\ EvaluationsKeepUp
  /\ OutcomeMatchesEnding
  /\ OpenPlanIsUntouched
  /\ EndingFollowsFirstTouch

(* The plan starts with nothing touched and nothing recorded. *)
LEMMA InvInit == Init => PlanInv
<1> SUFFICES ASSUME Init PROVE PlanInv
  OBVIOUS
<1>1. TypeOK
  BY TypeInit
<1>2. plan.status \in Open /\ plan.status \notin Terminal /\ outcome = None /\ lastPass = 0
      /\ Len(bars) = 0
  BY StatusFacts DEF Init, Created
<1>3. EvaluationsKeepUp
  BY <1>2, BoundsAssumption DEF EvaluationsKeepUp
<1>4. OpenPlanIsUntouched
  BY <1>2 DEF OpenPlanIsUntouched, Seen, StopHits, TargetHits
<1> QED BY <1>1, <1>2, <1>3, <1>4 DEF PlanInv, OutcomeMatchesEnding, EndingFollowsFirstTouch

(* At an evaluation, whatever price did to the levels is in the bars it loads. *)
LEMMA LoadedIsEnough ==
  ASSUME PlanInv, plan.status \in Open, ~warned, rewrites = 0 \/ Len(bars) <= Window
  PROVE  StopHits(plan, Loaded) = AllStops /\ TargetHits(plan, Loaded) = AllTargets
<1>1. Len(bars) \in Nat /\ lastPass \in 0..Len(bars) /\ MaxBars \in Nat /\ Window \in Nat
      /\ MaxGap \in Nat /\ MaxGap < Window
  BY BoundsAssumption, CoverageAssumption DEF PlanInv, TypeOK
<1>2. Len(bars) - lastPass <= MaxGap /\ Len(bars) <= MaxBars
  BY DEF PlanInv, EvaluationsKeepUp
<1>3. CASE rewrites = 0
  <2>1. \A i \in 1..Len(bars) : i \in Loaded \/ i \in Seen
    BY <1>1, <1>2 DEF Loaded, Seen
  <2>2. StopHits(plan, Seen) = {} /\ TargetHits(plan, Seen) = {}
    BY <1>3 DEF PlanInv, OpenPlanIsUntouched
  <2>3. Loaded \subseteq 1..Len(bars)
    BY DEF Loaded
  <2> QED BY <2>1, <2>2, <2>3 DEF AllStops, AllTargets, StopHits, TargetHits
<1>4. CASE Len(bars) <= Window
  <2>1. Loaded = 1..Len(bars)
    BY <1>1, <1>2, <1>4 DEF Loaded
  <2> QED BY <2>1 DEF AllStops, AllTargets
<1> QED BY <1>3, <1>4

(* The untouched-plan property survives an evaluation: it looked at all that matters. *)
LEMMA PassKeepsUntouched ==
  ASSUME PlanInv, TrackerPass
  PROVE  OpenPlanIsUntouched'
<1> SUFFICES ASSUME plan'.status \in Open, ~warned', rewrites' = 0
             PROVE  (StopHits(plan, Seen) = {} /\ TargetHits(plan, Seen) = {})'
  BY DEF OpenPlanIsUntouched
<1> DEFINE new == Verdict(plan, Loaded)
<1>1. plan.status \in Open /\ rewrites = 0 /\ UNCHANGED bars
  BY DEF TrackerPass, market
<1>2. plan \in PlanRow
  BY DEF PlanInv, TypeOK
<1>3. ~warned
  BY DEF TrackerPass
<1>4. /\ plan'.stop = plan.stop /\ plan'.target = plan.target /\ plan'.direction = plan.direction
      /\ new \notin {"INVALIDATED", "TARGET_REACHED"}
  <2>1. None \notin {"INVALIDATED", "TARGET_REACHED"}
    BY NoneAssumption DEF Status, Transitions
  <2>2. \/ new # None /\ plan' = [plan EXCEPT !.status = new, !.execution = ExecutionAfter(plan, new)]
        \/ new = None /\ UNCHANGED plan
    BY DEF TrackerPass
  <2>3. plan'.stop = plan.stop /\ plan'.target = plan.target /\ plan'.direction = plan.direction
    BY <1>2, <2>2 DEF PlanRow
  <2>4. new # None => plan'.status = new
    BY <1>2, <2>2 DEF PlanRow
  <2>5. plan'.status \notin {"INVALIDATED", "TARGET_REACHED"}
    BY StatusFacts DEF Terminal
  <2> QED BY <2>1, <2>3, <2>4, <2>5
<1>5. StopHits(plan, Loaded) = {} /\ TargetHits(plan, Loaded) = {}
  BY <1>4, VerdictMeaning
<1>6. AllStops = {} /\ AllTargets = {}
  BY <1>1, <1>3, <1>5, LoadedIsEnough
<1>7. Seen' \subseteq 1..Len(bars)
  BY DEF TrackerPass, Seen, PlanInv, TypeOK
<1> QED BY <1>1, <1>4, <1>6, <1>7 DEF AllStops, AllTargets, StopHits, TargetHits, LossSide,
              GainSide, Touches

(* An evaluation that ends the plan records the first level price reached. *)
LEMMA PassRecordsFirstTouch ==
  ASSUME PlanInv, TrackerPass
  PROVE  EndingFollowsFirstTouch'
<1> DEFINE new == Verdict(plan, Loaded)
<1> SUFFICES ASSUME outcome' # None, ~warned', (rewrites = 0 \/ Len(bars) <= Window)'
             PROVE  EndingFollowsFirstTouch'
  BY DEF EndingFollowsFirstTouch
<1>0. plan \in PlanRow /\ Len(bars) \in Nat
  BY DEF PlanInv, TypeOK
<1>1. plan.status \in Open /\ outcome = None /\ UNCHANGED <<bars, now>> /\ lastPass' = Len(bars)
      /\ rewrites' = rewrites
  BY StatusFacts DEF TrackerPass, market, PlanInv, OutcomeMatchesEnding
<1>2. /\ new \in Terminal /\ outcome' = [status |-> new, source |-> "tracker"] /\ ~warned
      /\ plan' = [plan EXCEPT !.status = new, !.execution = ExecutionAfter(plan, new)]
  BY <1>1 DEF TrackerPass, Recorded
<1>3. plan'.stop = plan.stop /\ plan'.target = plan.target /\ plan'.direction = plan.direction
      /\ plan'.expires = plan.expires
  BY <1>0, <1>2 DEF PlanRow
<1>4. StopHits(plan, Loaded) = AllStops /\ TargetHits(plan, Loaded) = AllTargets
  BY <1>1, <1>2, LoadedIsEnough
<1>5. AllStops' = AllStops /\ AllTargets' = AllTargets
  BY <1>1, <1>3 DEF AllStops, AllTargets, StopHits, TargetHits, LossSide, GainSide, Touches
<1>6. AllStops \subseteq 1..Len(bars) /\ AllTargets \subseteq 1..Len(bars)
  BY DEF AllStops, AllTargets, StopHits, TargetHits
<1>7. CASE new = "INVALIDATED"
  <2>1. AllStops # {} /\ \A t \in AllTargets : \E s \in AllStops : s <= t
    BY <1>4, <1>7, VerdictMeaning DEF StopFirst
  <2> QED BY <1>2, <1>5, <1>7, <2>1 DEF EndingFollowsFirstTouch, AllStops, AllTargets
<1>8. CASE new = "TARGET_REACHED"
  <2>1. AllTargets # {} /\ (AllStops = {} \/ \E t \in AllTargets : \A s \in AllStops : ~(s <= t))
    BY <1>4, <1>8, VerdictMeaning DEF StopFirst
  <2>2. PICK t \in AllTargets : \A s \in AllStops : ~(s <= t)
    BY <2>1
  <2>3. t <= lastPass' /\ \A s \in AllStops : t < s
    BY <1>0, <1>1, <1>6, <2>2
  <2> QED BY <1>2, <1>5, <1>8, <2>2, <2>3 DEF EndingFollowsFirstTouch, AllStops, AllTargets
<1>9. CASE new = "EXPIRED"
  <2>1. AllStops = {} /\ AllTargets = {} /\ plan.expires # None /\ now >= plan.expires
    BY <1>4, <1>9, VerdictMeaning
  <2> QED BY <1>1, <1>2, <1>3, <1>5, <1>9, <2>1 DEF EndingFollowsFirstTouch, AllStops, AllTargets
<1> QED BY <1>2, <1>7, <1>8, <1>9 DEF Terminal

(* A market step, or the clock, leaves the recorded ending the right one: a new touch *)
(* is in the last candle or after it, never before what an evaluation has passed.     *)
LEMMA MarketKeepsEnding ==
  ASSUME PlanInv, UNCHANGED <<plan, outcome, warned, rewrites, lastPass>>,
         UNCHANGED bars \/ \E b \in Bar : NewBar(b) \/ GrowBar(b),
         now' >= now, now' \in Nat
  PROVE  OpenPlanIsUntouched' /\ EndingFollowsFirstTouch'
<1>0. /\ lastPass \in 0..Len(bars) /\ now \in Nat /\ plan.expires \in Deadlines \cup {None}
      /\ Deadlines \subseteq Nat /\ TypeOK
  BY PriceAssumption, BoundsAssumption DEF PlanInv, TypeOK, PlanRow
<1>1. /\ Len(bars) <= Len(bars') /\ Len(bars) \in Nat /\ Len(bars') \in Nat
      /\ AllStops \subseteq AllStops' /\ AllTargets \subseteq AllTargets'
      /\ AllStops' \subseteq 1..Len(bars') /\ AllTargets' \subseteq 1..Len(bars')
      /\ \A i \in AllStops' : i < Len(bars) => i \in AllStops
      /\ \A i \in AllTargets' : i < Len(bars) => i \in AllTargets
  BY <1>0, HitsOnlyGrow
<1>2. AllStops \subseteq 1..Len(bars) /\ AllTargets \subseteq 1..Len(bars)
  BY DEF AllStops, AllTargets, StopHits, TargetHits
<1>3. Seen' = Seen /\ Seen \subseteq 1..Len(bars) /\ Seen \subseteq 1..Len(bars')
      /\ \A i \in Seen : i < Len(bars)
  BY <1>0, <1>1 DEF Seen
<1>4. /\ StopHits(plan, Seen) = AllStops \cap Seen
      /\ TargetHits(plan, Seen) = AllTargets \cap Seen
  BY <1>3 DEF AllStops, AllTargets, StopHits, TargetHits
<1>5. /\ StopHits(plan, Seen)' = AllStops' \cap Seen
      /\ TargetHits(plan, Seen)' = AllTargets' \cap Seen
  BY <1>3 DEF AllStops, AllTargets, StopHits, TargetHits, LossSide, GainSide, Touches
<1>6. AllStops' \cap Seen = AllStops \cap Seen /\ AllTargets' \cap Seen = AllTargets \cap Seen
  BY <1>1, <1>3
<1>7. OpenPlanIsUntouched'
  BY <1>4, <1>5, <1>6 DEF PlanInv, OpenPlanIsUntouched
<1>8. EndingFollowsFirstTouch'
  <2> SUFFICES ASSUME outcome # None, ~warned, (rewrites = 0 \/ Len(bars) <= Window)',
                      outcome.source = "tracker"
               PROVE  EndingFollowsFirstTouch'
    BY DEF EndingFollowsFirstTouch
  <2>0. rewrites = 0 \/ Len(bars) <= Window
    BY <1>1, BoundsAssumption
  <2>1. CASE outcome.status = "INVALIDATED"
    <3>1. AllStops # {} /\ \A t \in AllTargets : \E s \in AllStops : s <= t
      BY <2>0, <2>1 DEF PlanInv, EndingFollowsFirstTouch, AllStops, AllTargets
    <3>2. ASSUME NEW t \in AllTargets' PROVE \E s \in AllStops : s <= t
      <4>1. CASE t < Len(bars)
        BY <1>1, <3>1, <4>1
      <4>2. CASE ~(t < Len(bars))
        <5>1. PICK s \in AllStops : TRUE
          BY <3>1
        <5>2. s \in 1..Len(bars) /\ t \in 1..Len(bars')
          BY <1>1, <1>2
        <5> QED BY <1>1, <4>2, <5>1, <5>2
      <4> QED BY <4>1, <4>2
    <3> QED BY <1>1, <2>1, <3>1, <3>2 DEF EndingFollowsFirstTouch, AllStops, AllTargets
  <2>2. CASE outcome.status = "TARGET_REACHED"
    <3>1. PICK t \in AllTargets : t <= lastPass /\ \A s \in AllStops : t < s \/ (t = s /\ s = lastPass)
      BY <2>0, <2>2 DEF PlanInv, EndingFollowsFirstTouch, AllStops, AllTargets
    <3>2. ASSUME NEW s \in AllStops' PROVE t < s \/ (t = s /\ s = lastPass)
      BY <1>0, <1>1, <1>2, <3>1
    <3> QED BY <1>1, <2>2, <3>1, <3>2 DEF EndingFollowsFirstTouch, AllStops, AllTargets
  <2>3. CASE outcome.status = "EXPIRED"
    <3>1. plan.expires # None /\ now >= plan.expires /\ (AllStops \cup AllTargets) \cap Seen = {}
      BY <2>0, <2>3 DEF PlanInv, EndingFollowsFirstTouch, AllStops, AllTargets
    <3>2. plan.expires \in Nat
      BY <1>0, <3>1
    <3>3. now' >= plan.expires /\ (AllStops' \cup AllTargets') \cap Seen = {}
      BY <1>0, <1>6, <3>1, <3>2
    <3> QED BY <1>3, <2>3, <3>1, <3>3 DEF EndingFollowsFirstTouch, AllStops, AllTargets
  <2>4. outcome.status \in {"INVALIDATED", "TARGET_REACHED", "EXPIRED"}
    BY DEF PlanInv, TypeOK, Ending, Terminal
  <2> QED BY <2>1, <2>2, <2>3, <2>4
<1> QED BY <1>7, <1>8

(* Every step keeps the invariant of the plan. *)
LEMMA InvStep == PlanInv /\ [Next]_vars => PlanInv'
<1> SUFFICES ASSUME PlanInv, [Next]_vars PROVE PlanInv'
  OBVIOUS
<1>t. TypeOK /\ TypeOK'
  BY TypeStep DEF PlanInv
<1>0. /\ plan \in PlanRow /\ Len(bars) \in Nat /\ lastPass \in 0..Len(bars) /\ MaxGap \in Nat
      /\ MaxBars \in Nat /\ now \in Nat /\ rewrites \in Nat
      /\ plan.status \in Open => Len(bars) - lastPass <= MaxGap
      /\ Len(bars) <= MaxBars
  BY BoundsAssumption DEF PlanInv, TypeOK, EvaluationsKeepUp
<1>1. CASE TrackerPass
  <2>1. EvaluationsKeepUp'
    BY <1>0, <1>1 DEF TrackerPass, EvaluationsKeepUp, market
  <2>2. OutcomeMatchesEnding'
    <3> DEFINE new == Verdict(plan, Loaded)
    <3>1. plan.status \notin Terminal /\ outcome = None
      BY <1>1, StatusFacts DEF TrackerPass, PlanInv, OutcomeMatchesEnding
    <3>2. CASE /\ new # None
               /\ plan' = [plan EXCEPT !.status = new, !.execution = ExecutionAfter(plan, new)]
               /\ outcome' = Recorded(new, "tracker")
      <4>1. plan'.status = new
        BY <1>0, <3>2 DEF PlanRow
      <4>2. new \in Terminal => outcome' = [status |-> new, source |-> "tracker"] /\ outcome' # None
        BY <3>1, <3>2, NoneAssumption DEF Recorded
      <4> QED BY <3>1, <3>2, <4>1, <4>2 DEF OutcomeMatchesEnding, Recorded
    <3>3. CASE UNCHANGED <<plan, outcome>>
      BY <3>1, <3>3 DEF OutcomeMatchesEnding
    <3> QED BY <1>1, <3>2, <3>3 DEF TrackerPass
  <2>3. OpenPlanIsUntouched' /\ EndingFollowsFirstTouch'
    BY <1>1, PassKeepsUntouched, PassRecordsFirstTouch
  <2> QED BY <1>t, <2>1, <2>2, <2>3 DEF PlanInv
<1>2. CASE \E s \in Status : Manual(s)
  <2> PICK s \in Status : Manual(s)
    BY <1>2
  <2>0. /\ plan.status \in Open /\ plan.status \notin Terminal /\ outcome = None
        /\ plan' = [plan EXCEPT !.status = s] /\ outcome' = Recorded(s, "manual")
        /\ UNCHANGED <<bars, lastPass, rewrites, warned>>
    BY StatusFacts DEF Manual, market, PlanInv, OutcomeMatchesEnding
  <2>1. plan'.status = s /\ plan'.stop = plan.stop /\ plan'.target = plan.target
        /\ plan'.direction = plan.direction
    BY <1>0, <2>0 DEF PlanRow
  <2>2. s \in Terminal => /\ outcome' = [status |-> s, source |-> "manual"]
                          /\ [status |-> s, source |-> "manual"] # None
    BY <2>0, NoneAssumption DEF Recorded
  <2>3. s \notin Terminal => outcome' = None
    BY <2>0 DEF Recorded
  <2>4. EvaluationsKeepUp'
    BY <1>0, <2>0 DEF EvaluationsKeepUp
  <2>5. OutcomeMatchesEnding'
    BY <2>1, <2>2, <2>3 DEF OutcomeMatchesEnding
  <2>6. OpenPlanIsUntouched'
    BY <2>0, <2>1 DEF PlanInv, OpenPlanIsUntouched, Seen, StopHits, TargetHits, LossSide, GainSide, Touches
  <2>7. EndingFollowsFirstTouch'
    BY <2>2, <2>3 DEF EndingFollowsFirstTouch
  <2> QED BY <1>t, <2>4, <2>5, <2>6, <2>7 DEF PlanInv
<1>3. CASE \E d \in Direction : \E lv \in LevelPair(d), ty \in {"IMMEDIATE", "CONDITIONAL"} :
              Rewrite(d, lv, ty)
  <2> PICK d \in Direction : \E lv \in LevelPair(d), ty \in {"IMMEDIATE", "CONDITIONAL"} :
              Rewrite(d, lv, ty)
    BY <1>3
  <2> PICK lv \in LevelPair(d), ty \in {"IMMEDIATE", "CONDITIONAL"} : Rewrite(d, lv, ty)
    OBVIOUS
  <2>1. /\ plan.status \in Open /\ plan.status \notin Terminal /\ outcome = None
        /\ rewrites' = rewrites + 1 /\ UNCHANGED <<bars, lastPass, outcome>>
    BY StatusFacts DEF Rewrite, market, PlanInv, OutcomeMatchesEnding
  <2>2. plan'.status = plan.status
    BY <1>0 DEF Rewrite, PlanRow
  <2>3. EvaluationsKeepUp'
    BY <1>0, <2>1, <2>2 DEF EvaluationsKeepUp
  <2>4. OutcomeMatchesEnding' /\ OpenPlanIsUntouched' /\ EndingFollowsFirstTouch'
    BY <1>0, <2>1, <2>2 DEF OutcomeMatchesEnding, OpenPlanIsUntouched, EndingFollowsFirstTouch
  <2> QED BY <1>t, <2>3, <2>4 DEF PlanInv
<1>4. CASE \E b \in Bar : NewBar(b) \/ GrowBar(b)
  <2>1. UNCHANGED <<plan, outcome, warned, rewrites, lastPass>> /\ now' >= now /\ now' \in Nat
    BY <1>0, <1>4 DEF NewBar, GrowBar
  <2>2. OpenPlanIsUntouched' /\ EndingFollowsFirstTouch'
    BY <1>4, <2>1, MarketKeepsEnding
  <2>3. OutcomeMatchesEnding'
    BY <2>1 DEF PlanInv, OutcomeMatchesEnding
  <2>4. EvaluationsKeepUp'
    <3>1. CASE \E b \in Bar : NewBar(b)
      <4>1. Len(bars') = Len(bars) + 1
        BY <3>1, BarsAppended DEF PlanInv, TypeOK
      <4>2. Len(bars) < MaxBars /\ (plan.status \in Open => Len(bars) - lastPass < MaxGap)
        BY <3>1 DEF NewBar
      <4> QED BY <1>0, <2>1, <4>1, <4>2 DEF EvaluationsKeepUp
    <3>2. CASE \E b \in Bar : GrowBar(b)
      <4>1. Len(bars') = Len(bars)
        BY <3>2, BarsWidened DEF PlanInv, TypeOK
      <4> QED BY <1>0, <2>1, <4>1 DEF EvaluationsKeepUp
    <3> QED BY <1>4, <3>1, <3>2
  <2> QED BY <1>t, <2>2, <2>3, <2>4 DEF PlanInv
<1>5. CASE QuietMinute \/ UNCHANGED vars
  <2>1. UNCHANGED <<plan, outcome, warned, rewrites, lastPass, bars>> /\ now' >= now /\ now' \in Nat
    BY <1>0, <1>5 DEF QuietMinute, vars, market
  <2>2. OpenPlanIsUntouched' /\ EndingFollowsFirstTouch'
    BY <2>1, MarketKeepsEnding
  <2>3. OutcomeMatchesEnding' /\ EvaluationsKeepUp'
    BY <2>1 DEF PlanInv, OutcomeMatchesEnding, EvaluationsKeepUp
  <2> QED BY <1>t, <2>2, <2>3 DEF PlanInv
<1> QED BY <1>1, <1>2, <1>3, <1>4, <1>5 DEF Next

(* The invariant of the plan holds in every reachable state. *)
LEMMA InvAlways == Spec => []PlanInv
BY InvInit, InvStep, PTL DEF Spec

(* No touch of an open plan's levels is lost between two evaluations, for every window *)
(* and every gap the cron keeps to.                                                    *)
THEOREM NoTouchIsLost == Spec => []OpenPlanIsUntouched
<1>1. PlanInv => OpenPlanIsUntouched
  BY DEF PlanInv
<1> QED BY <1>1, InvAlways, PTL

(* The ending the tracker records is the first level the market reached. *)
THEOREM EndingIsFirstTouch == Spec => []EndingFollowsFirstTouch
<1>1. PlanInv => EndingFollowsFirstTouch
  BY DEF PlanInv
<1> QED BY <1>1, InvAlways, PTL

(* A plan is closed exactly when one outcome, the row's own status, is recorded. *)
THEOREM ClosedOnceRecordedOnce == Spec => []OutcomeMatchesEnding
<1>1. PlanInv => OutcomeMatchesEnding
  BY DEF PlanInv
<1> QED BY <1>1, InvAlways, PTL
==============================================================================
