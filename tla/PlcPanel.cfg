CONSTANTS
  Cycle = "single"
  MaxPolls = 2
  Tags <- TagsOfStart

SPECIFICATION PlcSpec
INVARIANTS PlcTypeOK
PROPERTIES LitRecently PanelFollows

