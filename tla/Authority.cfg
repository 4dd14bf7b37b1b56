SPECIFICATION Spec
CONSTANTS
  r1 = r1
  r2 = r2
  Resources = {r1}
  ReportedStates = {"Present"}
  TopologyNodes <- OneNode
  Containable = {r1}
  Solutions <- CutOne
  RequireConfirmation = TRUE
  ConfigPolicy = 1
  ConfigTopology = 1
  Lease = 2
  MaxActiveAuthorizations = 2
  RetainedPlans = 5
  RetainedAttempts = 5
  RetainedTransitions = 1
  MaxBoots = 2
  MaxPolicy = 2
  MaxTopology = 2
  MaxEvidence = 2
  MaxAuthorizations = 3
  MaxPlans = 0
  MaxTransitions = 0
  MaxAttempts = 0
  MaxApplierSequence = 1
  MaxTime = 2
  MaxFaults = 1
  MaxCheckpoints = 1
INVARIANTS InputsAreDurable ExpiredLeaseIsNeverHidden
PROPERTIES StaleAuthorizationNeverRevives DurableInputsNeverRegress
CHECK_DEADLOCK FALSE
