SPECIFICATION Spec
CONSTANTS
  w1 = w1
  w2 = w2
  Workers <- OneWorker
  Detectable <- AllKinds
  Timed <- WindowKeyed
  Exempt <- Asked
  Levels <- OneLevel
  Lifetimes <- NoLifetime
  Cooldown = 2
  MaxAutomatic = 2
  MaxSweeps = 3
  MaxTime = 4
  None = None
INVARIANTS TypeOK AutomaticCyclesAreBounded ClosedClaimsAreAnswered
CHECK_DEADLOCK FALSE
