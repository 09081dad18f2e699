\* A running event whose operational commands are stored and reloaded.
SPECIFICATION Spec
CONSTANTS
  None = None
  Absent = Absent
  Pool = {"p1"}
  Final = "final"
  Sides = {1, 2}
  Participants = {p, q}
  Scenes <- SafetyScenes
  Facts <- Sources
  Groupings = {"x", "y"}
  People = {"ann", "bob"}
  Assigned <- AssignedFunctions
  Safety <- SafetyCommands
  Times = {1, 2}
CHECK_DEADLOCK FALSE
INVARIANTS
  StoreReopens
