\* Static formats at their small sizes, and pools of up to three that feed knockouts.
SPECIFICATION Spec
CONSTANT Scenarios <- MCScenarios
\* A scenario ends when its last contest is decided.
CHECK_DEADLOCK FALSE
INVARIANTS
  GraphsKeepTheirPromise
  QualifiersAreExact
  PlayDecides
  DrawKeepsItsRules
