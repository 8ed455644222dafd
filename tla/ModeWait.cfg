CONSTANTS
  Cycle = "single"
  Fallible = {}
  UserMethods = {}
  Modes = {"MANUAL", "MAINTENANCE"}
  NumClients = 1
  Unreliable = {}
  Requests = {"CLEAR", "RESET"}
  ModeRequests = {"MAINTENANCE"}
  Nodes = {1}
  Far = {}
  Depth = 2

SPECIFICATION LineSafeSpec
INVARIANTS ModeChangeActive

CHECK_DEADLOCK FALSE
