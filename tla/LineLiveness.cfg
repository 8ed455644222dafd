CONSTANTS
  Cycle = "single"
  Fallible = {}
  UserMethods = {}
  Modes = {"MANUAL"}
  NumClients = 2
  Unreliable = {2}
  Requests = {"CLEAR"}
  ModeRequests = {}
  Nodes = {1}
  Far = {1}
  Depth = 2

SPECIFICATION LineSpec
INVARIANTS LineTypeOK NodeUpToDate StatusCurrent
PROPERTIES NodeFollows RequestAnswered RoundEnds

CHECK_DEADLOCK FALSE
