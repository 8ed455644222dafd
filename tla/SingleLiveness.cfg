CONSTANTS
  Cycle = "single"
  Fallible = {"STARTING", "EXECUTE"}
  UserMethods = {}
  Modes = {"PRODUCTION"}

SPECIFICATION Spec
PROPERTIES Implements CallAnswered ActingEnds ErrorAborts

CHECK_DEADLOCK FALSE
