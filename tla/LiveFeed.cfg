\* Every subscription, over both transports.
SPECIFICATION FairSpec
CONSTANTS
  Transports = {"nats", "in_mem"}
  Capacity = 2
  Feeds = {"blocks", "contract_actions", "contract_events", "ledger_events", "unshielded", "bridge_events", "nullifiers"}
  MaxBlocks = 2
  MaxRows = 2
  BatchSize = 1
INVARIANTS EachOnceInOrder CompletedIsComplete
PROPERTIES CompletesAtToBlock EverythingIsYielded
CHECK_DEADLOCK FALSE
