SPECIFICATION Spec
CONSTANTS
  Price <- TwoPrices
  MaxMinute = 2
  MaxWire = 2
  BatchTicks = 3
  GapExtra = 1
  PageSize = 2
  None = None
INVARIANTS TypeOK NothingInvented CompleteIsWhole
CHECK_DEADLOCK FALSE
