\* Bridge events in the standalone build.
SPECIFICATION Spec
CONSTANTS
  Transports = {"in_mem"}
  Capacity = 2
  Feeds = {"bridge_events"}
  MaxBlocks = 2
  MaxRows = 1
  BatchSize = 1
INVARIANTS EveryTopicIsKnown
CHECK_DEADLOCK FALSE
