SPECIFICATION Spec
CONSTANTS
  c1 = c1
  c2 = c2
  Connections = {c1}
  MaxSessions = 2
  Scenarios <- OnlyStopped
  MaxBuffered = 2
PROPERTY ShutdownEnds
CHECK_DEADLOCK FALSE
