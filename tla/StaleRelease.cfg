SPECIFICATION Spec
CONSTANTS
  r1 = r1
  r2 = r2
  Resources = {r1}
  ReportedStates = {"Present", "Absent"}
  TopologyNodes <- OneNode
  Containable = {r1}
  Solutions <- CutOne
  RequireConfirmation = TRUE
  ConfigPolicy = 1
  ConfigTopology = 1
  Lease = 1
  MaxActiveAuthorizations = 3
  RetainedPlans = 5
  RetainedAttempts = 5
  RetainedTransitions = 1
  MaxBoots = 1
  MaxPolicy = 0
  MaxTopology = 0
  MaxEvidence = 3
  MaxAuthorizations = 3
  MaxPlans = 2
  MaxTransitions = 2
  MaxAttempts = 1
  MaxApplierSequence = 1
  MaxTime = 0
  MaxFaults = 0
  MaxCheckpoints = 0
PROPERTY ReleaseWithoutFailures
CHECK_DEADLOCK FALSE
