SPECIFICATION Spec
CONSTANTS
  Users = {"ann"}
  HomeOf <- MCHomeOf
  Age <- MCAge
  Callable <- MCCallable
  Operators = {"ann"}
  Invitations = {}
  Mailer = TRUE
  Checkouts <- MCCheckouts
  Codes = {"code"}
  TelegramUsers = {"phone"}
  MaxSessions = 1
  Slots = {"c1", "c2"}
  Surfaces <- MCSurfaces
  Providers = 2
  Cap <- MCCap
  MaxRequests = 4
INVARIANTS TypeOK KeptWorkIsMetered OverdraftIsBounded
CHECK_DEADLOCK FALSE
