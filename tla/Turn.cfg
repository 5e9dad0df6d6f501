SPECIFICATION Spec
CONSTANTS
  Markets <- MCMarkets
  Shapes <- MCShapes
  Requests <- MCRequests
  Errors <- MCErrors
  MaxToolIterations = 5
  MaxRepairs = 2
  MaxRetries = 2
INVARIANTS TypeOK CompletionsAreBounded EveryCallIsAnswered
PROPERTY KeepsItsPromise
CHECK_DEADLOCK FALSE
