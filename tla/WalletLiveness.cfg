SPECIFICATION FairSpec
CONSTANTS
  Replicas = {a}
  MaxId = 3
  MaxPerBlock = 1
  BatchSize = 1
  StartIndexes = {0, 2}
  MaxSessions = 2
  MaxExpiries = 1
  MaxStops = 1
PROPERTIES ActiveSessionsSurvive ScansFinish RecordedIsNotified
CHECK_DEADLOCK FALSE
