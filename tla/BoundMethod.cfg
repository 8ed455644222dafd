CONSTANTS
  Cycle = "single"
  Fallible = {}
  UserMethods = {"Fails"}
  Modes = {"PRODUCTION"}

SPECIFICATION SafeSpec
PROPERTIES BoundMethodRuns

CHECK_DEADLOCK FALSE
