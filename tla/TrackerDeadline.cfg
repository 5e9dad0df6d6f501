SPECIFICATION FairSpec
CONSTANTS
  Price <- Prices
  Deadlines <- EitherMinute
  MaxBars = 2
  MaxTime = 2
  Window = 3
  MaxGap = 2
  MaxRewrites = 0
  None = None
PROPERTIES DeadlineEnds
CHECK_DEADLOCK FALSE
