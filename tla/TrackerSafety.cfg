SPECIFICATION Spec
CONSTANTS
  Price <- Prices
  Deadlines <- SecondMinute
  MaxBars = 3
  MaxTime = 3
  Window = 2
  MaxGap = 1
  MaxRewrites = 1
  None = None
INVARIANTS TypeOK OpenPlanIsUntouched EndingFollowsFirstTouch 
CHECK_DEADLOCK FALSE
