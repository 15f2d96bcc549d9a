SPECIFICATION Spec
CONSTANTS
  None = None
  Err = Err
  Panic = Panic
  Conn = Conn
  Session = Session
  Connections = {Conn}
  Sessions = {Session}
  MaxConcurrentPerConnection = 2
  MaxSessionSubscriptionsPerMinute = 1
  Minute = 2
  Casts <- MCCasts
  Retention = 2
  MaxSnapshotAge = 1
  BatchSize = 1

INVARIANTS SlotsAreGivenBack RateIsBounded SnapshotIsPinned AcceptedIsServed UpdatesFit
