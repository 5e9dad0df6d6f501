SPECIFICATION Spec
CONSTANTS
  w1 = w1
  w2 = w2
  Workers <- TwoWorkers
  Detectable <- Automatics
  Timed <- WindowKeyed
  Exempt <- Nobody
  Levels <- OneLevel
  Lifetimes <- NoLifetime
  Cooldown = 2
  MaxAutomatic = 2
  MaxSweeps = 2
  MaxTime = 2
  None = None
SYMMETRY WorkerSymmetry
INVARIANTS ExactlyOnePays AutomaticCyclesAreBounded
CHECK_DEADLOCK FALSE
