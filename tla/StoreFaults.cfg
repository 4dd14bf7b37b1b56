SPECIFICATION Spec
CONSTANTS
  p1 = p1
  p2 = p2
  Payloads = {p1, p2}
  RetainedSnapshots = 1
  MaxMissing = 2
  MaxCommits = 4
  MaxNumber = 3
  MaxCommitFaults = 2
  MaxSnapshotFaults = 1
INVARIANT NothingInvented
CHECK_DEADLOCK FALSE
