SPECIFICATION Spec
CONSTANTS
  r1 = r1
  r2 = r2
  Resources = {r1, r2}
  ReportedStates = {"Present"}
  TopologyNodes <- Nodes
  Containable = {r1, r2}
  Solutions <- CutTwo
  RequireConfirmation = TRUE
  ConfigPolicy = 1
  ConfigTopology = 1
  Lease = 1
  MaxActiveAuthorizations = 2
  RetainedPlans = 5
  RetainedAttempts = 5
  RetainedTransitions = 1
  MaxBoots = 1
  MaxPolicy = 0
  MaxTopology = 0
  MaxEvidence = 1
  MaxAuthorizations = 2
  MaxPlans = 2
  MaxTransitions = 2
  MaxAttempts = 1
  MaxApplierSequence = 1
  MaxTime = 0
  MaxFaults = 1
  MaxCheckpoints = 0
INVARIANTS ScopeIsDurable VerifiedIsTheScope
PROPERTY ScopeChangesByDecision
CHECK_DEADLOCK FALSE
