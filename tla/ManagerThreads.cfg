CONSTANTS
  Cycle = "single"
  Fallible = {}
  UserMethods = {}
  Modes = {"MANUAL", "MAINTENANCE"}
  NumClients = 2
  Unreliable = {1}
  Requests = {"CLEAR", "RESET"}
  ModeRequests = {"MAINTENANCE"}

SPECIFICATION ManagerSafeSpec
INVARIANTS ManagerTypeOK ModeInStep OneHalfCurrent
PROPERTIES PublishedAnswered RoundsKept

CHECK_DEADLOCK FALSE
