CONSTANTS
  Cycle = "single"
  Fallible = {}
  UserMethods = {"Succeeds"}
  Modes = {}

SPECIFICATION SafeSpec
PROPERTIES ClearAccepted

CHECK_DEADLOCK FALSE
