SPECIFICATION Spec
CONSTANTS
  Users = {"ann", "bob"}
  HomeOf <- MCHomeOf
  Age <- MCAge
  Callable <- MCCallable
  Operators = {"ann"}
  Invitations <- MCInvitations
  Mailer = TRUE
  Checkouts = {}
  Codes = {"code"}
  TelegramUsers = {"phone", "tablet"}
  MaxSessions = 2
  Slots = {"c1", "c2"}
  Surfaces = {"telegram", "mcp"}
  Providers = 2
  Cap <- MCCap
  MaxRequests = 3
INVARIANTS ReadsStayInScope CodeLinksOneAccount
CHECK_DEADLOCK FALSE
