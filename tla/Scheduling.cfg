CONSTANTS
  Step = 1
  None = None
  SearchLimit = 400
  MaxIncidents = 2
  Scenes <- PlanningScenes
SPECIFICATION Spec
CHECK_DEADLOCK FALSE
INVARIANTS
  SearchesTellTheTruth
  EvidenceIsTrue
  PublishedPlanPlaysOut
PROPERTIES
  RepairLooksAhead
