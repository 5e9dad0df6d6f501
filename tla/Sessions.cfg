SPECIFICATION FairSpec
CONSTANTS
  u1 = u1
  Plans <- TwoPlans
  Users <- OneUser
  Starts <- AnyStart
  Asked <- ActiveOrEnding
  MaxRuns = 1
  MaxLevels = 1
  Bucket = Bucket
  None = None
INVARIANTS TypeOK NoSecondVote FinishedPlanIsRecorded
PROPERTIES RequestsMoveLegally 
CHECK_DEADLOCK FALSE
