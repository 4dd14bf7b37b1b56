SPECIFICATION Spec
CONSTANTS
  r1 = r1
  r2 = r2
  Resources = {r1}
  ReportedStates = {"Present", "Absent"}
  TopologyNodes <- OneNode
  Containable = {r1}
  Solutions <- CutOne
  RequireConfirmation = TRUE
  ConfigPolicy = 1
  ConfigTopology = 1
  Lease = 1
  MaxActiveAuthorizations = 1
  RetainedPlans = 5
  RetainedAttempts = 5
  RetainedTransitions = 1
  MaxBoots = 2
  MaxPolicy = 0
  MaxTopology = 0
  MaxEvidence = 1
  MaxAuthorizations = 1
  MaxPlans = 2
  MaxTransitions = 1
  MaxAttempts = 1
  MaxApplierSequence = 1
  MaxTime = 0
  MaxFaults = 1
  MaxCheckpoints = 1
INVARIANTS TypeOK InFlightIsOurs VerifiedIsDurable ScopeIsDurable VerifiedIsTheScope
PROPERTY EpochNeverReused
CHECK_DEADLOCK FALSE
