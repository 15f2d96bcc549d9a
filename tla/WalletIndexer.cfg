SPECIFICATION Spec
CONSTANTS
  Replicas = {a, b}
  MaxId = 3
  MaxPerBlock = 1
  BatchSize = 1
  StartIndexes = {0, 2}
  MaxSessions = 2
  MaxExpiries = 0
  MaxStops = 1
SYMMETRY ReplicaSymmetry
INVARIANTS NeverRecordedTwice CursorsBoundRecorded
CHECK_DEADLOCK FALSE
