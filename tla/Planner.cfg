SPECIFICATION Spec
CONSTANTS
  Definitions <- AllDefinitions
  Resources = {1, 2, 4, 9}
  MaxFailures = 2
  NecessityLimit = 4
  BoundIterations = 2
INVARIANTS TypeOK OptimalPlanIsTheOptimum InfeasibleMeansNoSet MembersCarryTheCut
  CertificatesHold WitnessesAreCanonical NecessityIsExact ContainmentSurvivesUnknowns MonotonicSafety
CHECK_DEADLOCK FALSE
