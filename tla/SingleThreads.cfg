CONSTANTS
  Cycle = "single"
  Fallible = {}
  UserMethods = {"Succeeds", "Fails"}
  Modes = {"PRODUCTION", "MAINTENANCE"}

SPECIFICATION SafeSpec
INVARIANTS TypeOK OperationOwner OneCommand ModeConsistent
PROPERTIES AnswerTells OfferedAccepted

CHECK_DEADLOCK FALSE
