SPECIFICATION Spec
CONSTANTS
  p1 = p1
  p2 = p2
  Payloads = {p1, p2}
  RetainedSnapshots = 1
  MaxMissing = 2
  MaxCommits = 3
  MaxNumber = 18
  MaxCommitFaults = 0
  MaxSnapshotFaults = 1
INVARIANTS TypeOK StaysReadable
PROPERTY ImplementsDurableLog
CHECK_DEADLOCK FALSE
