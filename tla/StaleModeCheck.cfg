CONSTANTS
  Cycle = "single"
  Fallible = {}
  UserMethods = {}
  Modes = {"PRODUCTION", "MAINTENANCE"}

SPECIFICATION SafeSpec
INVARIANTS ModeRespected

CHECK_DEADLOCK FALSE
