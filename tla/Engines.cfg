SPECIFICATION Spec
CONSTANTS
  Bar <- MCBar
  Rule <- MCRule
  StopLevel = 1
  TargetLevel = 8
  MaxBars = 6
  MaxForming = 5
  MaxAsked = 2
  Window = 3
  MaxGap = 1
  Lookback = 1
  AtrPeriod = 3
  SwingLookback = 1
  History <- MCHistory
  MinCandles = 3
  RangeWindow = 4
  RangeAtrs = 2
  CasePeriod = 2
  RecentPeriod = 1
  ImpulseLookback = 1
  Horizon = 2
  SweptBars = 7
  CandidateLimit = 4
  ResultLimit = 2
  FirstHour = 5
INVARIANTS SwingsAreSound CasesAreSettled
PROPERTY EvaluationIsExact
CHECK_DEADLOCK FALSE
