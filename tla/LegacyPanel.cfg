CONSTANTS
  Cycle = "single"
  Fallible = {}
  UserMethods = {"Succeeds"}
  Modes = {"PRODUCTION"}
  MaxPolls = 2
  MaxPresses = 1
  MaxLead = 1
  Clicked = {"CLEAR"}
  Requested = {"RESET"}

SPECIFICATION BoundedSpec
INVARIANTS LegacyTypeOK
PROPERTIES LitSincePoll PanelShowsState

CHECK_DEADLOCK FALSE
