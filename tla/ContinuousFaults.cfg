CONSTANTS
  Cycle = "continuous"
  Fallible <- AllButAborting
  UserMethods = {}
  Modes = {"PRODUCTION", "MAINTENANCE"}

SPECIFICATION Spec
INVARIANTS OperationOwner QueueBounded
PROPERTIES ImplementsSafely EventsHeeded CallAnswered ErrorAborts

CHECK_DEADLOCK FALSE
