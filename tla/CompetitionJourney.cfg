\* A draft, an amendment, a running event and its credentials, with faults.
SPECIFICATION Spec
CONSTANTS
  None = None
  Absent = Absent
  Pool = {"p1"}
  Final = "final"
  Sides = {1, 2}
  Participants = {p, q}
  Scenes <- AllScenes
  Facts <- Sources
  Groupings = {"x", "y"}
  People = {"ann", "bob"}
  Assigned <- AssignedFunctions
  Safety <- SafetyCommands
  Times = {1, 2}
SYMMETRY Interchangeable
CHECK_DEADLOCK FALSE
INVARIANTS
  ReopensOtherwise
  PlanIsCurrent
  PlayRestartsCleared
  RevokedStaysOut
PROPERTIES
  DurableTruthOnlyGrows
