\* Two processes serve one stage of each format.
SPECIFICATION Spec
CONSTANTS
  Processes = {p, q}
  Definitions <- Stages
  Requests <- RequestsFor
  MaxEvents <- StreamBound
  InFlight <- ServedAtOnce
SYMMETRY Interchangeable
CHECK_DEADLOCK FALSE
INVARIANTS
  StoredStageIsUsable
  RequestsAreRecognised
  SwissAddsUp
  QualifiersAreUnbeaten
