SPECIFICATION DecaySpec
CONSTANTS
  orb = orb
  sweep = sweep
  Bucket <- Buckets
  Outcome <- ClosedPlans
  None = None
  Window = 2
  MinSample = 2
  MonitorDrop = 40
  DecayedDrop = 80
  RecoveryStreak = 2
PROPERTIES PromotionTakesReadings NeverBetterThanItsReading WinnersRecover
