SPECIFICATION SpecWithEndingClients
CONSTANTS
  c1 = c1
  c2 = c2
  Connections = {c1, c2}
  MaxSessions = 2
  Scenarios <- Both
  MaxBuffered = 2
INVARIANTS TypeOK OwnRequestsOnce AcknowledgedWasDone SessionLimit GoodFramesPass NoThreadLost
  QuietAfterShutdown
PROPERTIES CallsEnd ShutdownEnds
CHECK_DEADLOCK FALSE
