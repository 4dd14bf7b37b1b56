SPECIFICATION Spec
CONSTANTS
  p1 = p1
  p2 = p2
  Payloads = {p1, p2}
  RetainedSnapshots = 1
  MaxMissing = 2
  MaxCommits = 3
  MaxNumber = 2
  MaxCommitFaults = 1
  MaxSnapshotFaults = 0
INVARIANT AcknowledgedIsRecoverable
CHECK_DEADLOCK FALSE
