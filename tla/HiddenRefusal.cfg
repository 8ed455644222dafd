CONSTANTS
  Cycle = "single"
  Fallible = {}
  UserMethods = {}
  Modes = {"MANUAL"}
  NumClients = 2
  Unreliable = {}
  Requests = {"CLEAR", "RESET"}
  ModeRequests = {"MANUAL"}

SPECIFICATION ManagerSafeSpec
PROPERTIES SuccessMeansAll

CHECK_DEADLOCK FALSE
